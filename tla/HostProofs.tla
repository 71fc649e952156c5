----------------------------- MODULE HostProofs -----------------------------
(* What nrg does to hosts, proxies and accounts, and what it reports of them, proved
   for every value of the constants of HostTools: each part by itself, with its own
   inductive invariant, and then, at the end, the properties of HostTools.   *)
EXTENDS HostTools, FiniteSets, SequenceTheorems, FiniteSetTheorems, WellFoundedInduction,
        TLAPS
-----------------------------------------------------------------------------
(* ------------------ nrg remove and the rollback chain ------------------- *)
(* The chain: a config is forgotten only with the release it belongs to, and
   the current image last ran with the current one.                          *)
ChainInv ==
  /\ image \in Images \cup {None} /\ config \in Configs \cup {None}
  /\ prev \in Images \cup {None} /\ prev_config \in Configs \cup {None}
  /\ shape \in [Images -> Configs \cup {None}]
  /\ image = None => config = None
  /\ config = None => prev = None /\ prev_config = None
  /\ image # None => config = shape[image]
  /\ Life!RollbackPair
(* The hosts: what runs on a host is recorded there, under its image.        *)
HostsInv ==
  /\ web \in [Hosts -> Images \cup {None}] /\ own \in [Hosts -> Images \cup {None}]
  /\ target \subseteq Hosts
  /\ Life!NoneForgotten
LifeInv == ChainInv /\ HostsInv

LEMMA LifeInit == ASSUME Life!ServiceAssumption PROVE Life!Init => LifeInv
  BY DEF Life!ServiceAssumption, Life!Init, LifeInv, ChainInv, HostsInv,
         Life!RollbackPair, Life!NoneForgotten

LEMMA ChainKept == ChainInv /\ UNCHANGED <<Life!keys, shape>> => ChainInv'
  BY DEF ChainInv, Life!RollbackPair, Life!keys

LEMMA LifeDeploy ==
  ASSUME Life!ServiceAssumption, LifeInv, NEW hs \in SUBSET Hosts,
         NEW i \in Images, NEW c \in Configs, Life!deploy(hs, i, c)
  PROVE  LifeInv'
<1>1. CASE Life!Commit(hs, i, c) /\ Life!CleanUp(hs, i)
  <2>1. ChainInv'
    BY <1>1 DEF LifeInv, Life!ServiceAssumption, ChainInv, Life!Commit, Life!PrevConfig, Life!RollbackPair
  <2>2. target' = target \cup hs /\ image' # None /\ misread' = misread
    BY <1>1 DEF Life!Commit, Life!ServiceAssumption
  <2>3. PICK done \in SUBSET hs :
          /\ web' = [h \in Hosts |-> IF h \in done THEN i ELSE web[h]]
          /\ own' = [h \in Hosts |-> IF h \in hs \ done THEN i ELSE own[h]]
    BY <1>1 DEF Life!CleanUp
  <2>4. HostsInv'
    BY <2>2, <2>3 DEF LifeInv, HostsInv, Life!NoneForgotten
  <2> QED  BY <2>1, <2>4 DEF LifeInv
<1>2. CASE /\ \E left \in (SUBSET hs) \ {{}} :
                own' = [h \in Hosts |-> IF h \in left THEN i ELSE own[h]]
           /\ UNCHANGED <<Life!keys, target, web, shape, misread>>
  <2>1. ChainInv'
    BY <1>2, ChainKept DEF LifeInv
  <2>2. HostsInv'
    BY <1>2 DEF LifeInv, HostsInv, Life!NoneForgotten, Life!keys
  <2> QED  BY <2>1, <2>2 DEF LifeInv
<1> QED  BY <1>1, <1>2 DEF Life!deploy

(* A rollback deploys an image and a config that are there.                  *)
LEMMA LifeRollback ==
  ASSUME Life!ServiceAssumption, LifeInv, NEW wanted \in SUBSET Hosts,
         NEW i \in Images \cup {None}, Life!rollback(wanted, i)
  PROVE  LifeInv'
<1> DEFINE hs == Life!RollbackHosts(wanted)
           to == Life!RollbackImage(i)
<1>1. hs \in SUBSET Hosts
  BY DEF LifeInv, HostsInv, Life!RollbackHosts
<1>2. to \in Images
  BY DEF LifeInv, ChainInv, Life!rollback, Life!RollbackImage
<1>3. PICK c \in IF config = None THEN Configs ELSE {Life!Replay(to)} : Life!deploy(hs, to, c)
  BY DEF Life!rollback
<1>4. c \in Configs
  BY <1>3 DEF LifeInv, ChainInv, Life!Replay
<1> QED  BY <1>1, <1>2, <1>3, <1>4, LifeDeploy

LEMMA LifeReconcile ==
  ASSUME LifeInv, NEW h \in Hosts, Life!Reconcile(h) PROVE LifeInv'
<1>1. ChainInv'
  BY ChainKept DEF LifeInv, Life!Reconcile
<1>2. HostsInv'
  BY DEF LifeInv, HostsInv, Life!NoneForgotten, Life!Reconcile, Life!keys
<1> QED  BY <1>1, <1>2 DEF LifeInv

(* A removal forgets the hosts that were reported rid of the container, and the
   service only where that goes for all of them: one that still has it was misread. *)
LEMMA LifeRemove ==
  ASSUME LifeInv, NEW wanted \in SUBSET Hosts, NEW purge \in BOOLEAN, Life!remove(wanted, purge)
  PROVE  LifeInv'
<1>1. PICK gone \in SUBSET Life!RemoveHosts(wanted), removed \in SUBSET Life!RemoveHosts(wanted) :
        /\ web' = [h \in Hosts |-> IF h \in gone THEN None ELSE web[h]]
        /\ misread' = (misread \cup ((target \ target') \cap removed)) \ {h \in Hosts : web'[h] = None}
        /\ \/ Life!purge_state(Life!RemoveHosts(wanted), removed)
           \/ UNCHANGED <<Life!keys, target, transition>>
  BY DEF Life!remove
<1>2. own' = own /\ shape' = shape
  BY DEF Life!remove
<1>3. CASE UNCHANGED <<Life!keys, target, transition>>
  <2>1. ChainInv'
    BY <1>2, <1>3, ChainKept DEF LifeInv
  <2>2. HostsInv'
    BY <1>1, <1>2, <1>3 DEF LifeInv, HostsInv, Life!NoneForgotten, Life!keys
  <2> QED  BY <2>1, <2>2 DEF LifeInv
<1>4. CASE target \subseteq removed /\ image' = None /\ config' = None /\ prev' = None
           /\ prev_config' = None /\ target' = {}
  BY <1>1, <1>2, <1>4 DEF LifeInv, ChainInv, HostsInv, Life!NoneForgotten, Life!RollbackPair
<1>5. CASE target' = target \ removed /\ UNCHANGED Life!keys
  <2>1. ChainInv'
    BY <1>2, <1>5, ChainKept DEF LifeInv
  <2>2. HostsInv'
    BY <1>1, <1>2, <1>5 DEF LifeInv, HostsInv, Life!NoneForgotten, Life!keys
  <2> QED  BY <2>1, <2>2 DEF LifeInv
<1> QED  BY <1>1, <1>3, <1>4, <1>5 DEF Life!purge_state, Life!purge_globals

LEMMA LifeStep ==
  ASSUME Life!ServiceAssumption PROVE LifeInv /\ [Life!Next]_Life!vars => LifeInv'
<1> SUFFICES ASSUME LifeInv, [Life!Next]_Life!vars PROVE LifeInv'
  OBVIOUS
<1>1. CASE UNCHANGED Life!vars
  <2>1. ChainInv'
    BY <1>1, ChainKept DEF LifeInv, Life!vars
  <2>2. HostsInv'
    BY <1>1 DEF LifeInv, HostsInv, Life!NoneForgotten, Life!vars, Life!keys
  <2> QED  BY <2>1, <2>2 DEF LifeInv
<1>2. CASE \E hs \in (SUBSET Hosts) \ {{}}, i \in Images, c \in Configs : Life!deploy(hs, i, c)
  BY <1>2, LifeDeploy
<1>3. CASE \E wanted \in SUBSET Hosts, i \in Images \cup {None} : Life!rollback(wanted, i)
  BY <1>3, LifeRollback
<1>4. CASE \E h \in Hosts : Life!Reconcile(h)
  BY <1>4, LifeReconcile
<1>5. CASE \E wanted \in {{}} \cup {{h} : h \in Hosts}, purge \in BOOLEAN : Life!remove(wanted, purge)
  BY <1>5, LifeRemove
<1> QED  BY <1>1, <1>2, <1>3, <1>4, <1>5 DEF Life!Next

(* lib/deploy.rhai and cli/remove.rs: for any hosts, images and configs, and any
   sequence of deploys, rollbacks and removals, the rollback target is another
   image than the current one and goes with the config it last ran with, and a
   host with a container of the service is recorded, unless a removal took its
   failure for an absent container.                                          *)
LEMMA LifeHolds ==
  ASSUME Life!ServiceAssumption
  PROVE  Life!Spec => [](Life!RollbackPair /\ Life!NoneForgotten)
<1>1. LifeInv => Life!RollbackPair /\ Life!NoneForgotten
  BY DEF LifeInv, ChainInv, HostsInv
<1> QED  BY <1>1, LifeInit, LifeStep, PTL DEF Life!Spec
-----------------------------------------------------------------------------
(* ------------------------- Release directories -------------------------- *)
Holds(r)  == step[r] \notin {"idle", "lock"}
Working   == {"previous", "mkdir", "verify", "prepare", "switch", "activate", "check", "undo",
              "restart", "deactivate", "recheck", "settled", "prune", "release"}
Settled   == \/ current = running /\ (current # None => healthy)
             \/ current = None /\ ~Deactivate
Restless  == {"activate", "check", "undo", "restart", "deactivate", "recheck", "settled"}

(* What a run relies on at the step s.                                       *)
Stands(r, s) ==
  /\ s \in {"mkdir", "verify", "prepare", "switch"} => Release!old(r) = current
  /\ s \in Restless \cup {"prepare", "switch", "prune"} =>
       Release!v(r) \in releases /\ Release!old(r) \in releases \cup {None}
  /\ s \in {"activate", "check"} => current = Release!v(r)
  /\ s = "check" => running = current
  /\ s \in {"restart", "deactivate", "recheck", "settled"} => current = Release!old(r)
  /\ s = "recheck" => running = current
  /\ s \in {"deactivate", "settled"} => current = None
  /\ s = "settled" => running = None
  /\ s = "prune" => current = Release!v(r) /\ replaced = Release!old(r)
RunInv(r) ==
  /\ Holds(r) <=> holder = r
  /\ step[r] \in Working \cup {"lock"} =>
       op[r] \in [kind : {"deploy", "rollback"}, version : Versions, keep : Keeps,
                  old : Versions \cup {None}]
  /\ Stands(r, step[r])
ReleaseInv ==
  /\ step \in [Procs -> Working \cup {"idle", "lock", "dead"}] /\ op = [r \in Procs |-> op[r]]
  /\ holder \in Procs \cup {None} /\ failures \in Nat
  /\ unsettled \in BOOLEAN /\ releases \subseteq Versions
  /\ {current, replaced} \subseteq releases \cup {None}
  /\ \A r \in Procs : RunInv(r)
  /\ (\A r \in Procs : step[r] \notin Restless) /\ ~unsettled => Settled

LEMMA ReleaseInit == ASSUME Release!ReleaseAssumption, Release!Init PROVE ReleaseInv
<1>1. /\ step = [r \in Procs |-> "idle"] /\ op = [r \in Procs |-> None]
      /\ holder = None /\ None \notin Procs
  BY DEF Release!Init, Release!ReleaseAssumption
<1>2. \A r \in Procs : RunInv(r)
  BY <1>1 DEF RunInv, Stands, Holds, Working, Restless
<1>3. Settled /\ {current, replaced} \subseteq releases \cup {None} /\ releases \subseteq Versions
      /\ failures \in Nat /\ unsettled \in BOOLEAN
  BY DEF Release!Init, Settled
<1> QED  BY <1>1, <1>2, <1>3 DEF ReleaseInv

(* The lock is one, so nothing else moves while a run is at work.            *)
LEMMA ReleaseMove ==
  ASSUME ReleaseInv, NEW r \in Procs, Holds(r), None \notin Procs,
         NEW s \in Working \cup {"idle", "dead"}, step' = [step EXCEPT ![r] = s],
         op' = [q \in Procs |-> op'[q]], \A q \in Procs \ {r} : op'[q] = op[q],
         holder' = IF s = "idle" THEN None ELSE r,
         failures' \in Nat, unsettled' \in BOOLEAN,
         releases' \subseteq Versions, {current', replaced'} \subseteq releases' \cup {None},
         RunInv(r)', s \notin Restless /\ ~unsettled' => Settled'
  PROVE  ReleaseInv'
<1>1. holder = r /\ \A q \in Procs \ {r} : ~Holds(q)
  BY DEF ReleaseInv, RunInv
<1>2. step \in [Procs -> Working \cup {"idle", "lock", "dead"}] /\ op = [q \in Procs |-> op[q]]
  BY DEF ReleaseInv
<1>3. ASSUME NEW q \in Procs, q # r PROVE RunInv(q)'
  <2>1. step'[q] = step[q] /\ op'[q] = op[q] /\ step[q] \in {"idle", "lock"}
    BY <1>1, <1>2, <1>3 DEF Holds
  <2>2. step[q] = "lock" => op[q] \in [kind : {"deploy", "rollback"}, version : Versions, keep : Keeps,
                                       old : Versions \cup {None}]
    BY DEF ReleaseInv, RunInv
  <2>3. holder' # q
    BY <1>3
  <2> QED  BY <2>1, <2>2, <2>3 DEF RunInv, Stands, Holds, Working, Restless
<1>4. step'[r] = s /\ step' \in [Procs -> Working \cup {"idle", "lock", "dead"}]
  BY <1>2
<1>5. (\A q \in Procs : step'[q] \notin Restless) /\ ~unsettled' => Settled'
  BY <1>4
<1> QED  BY <1>2, <1>3, <1>4, <1>5 DEF ReleaseInv

(* A run that is not at work moves without touching anything.                *)
LEMMA ReleaseIdle ==
  ASSUME ReleaseInv, NEW r \in Procs, NEW s \in {"idle", "lock"},
         step' = [step EXCEPT ![r] = s], ~Holds(r),
         op' = [q \in Procs |-> op'[q]], \A q \in Procs \ {r} : op'[q] = op[q],
         s = "lock" => op'[r] \in [kind : {"deploy", "rollback"}, version : Versions, keep : Keeps,
                                   old : Versions \cup {None}],
         failures' = failures,
         UNCHANGED <<releases, current, running, healthy, holder, replaced, unsettled>>
  PROVE  ReleaseInv'
<1>1. step'[r] = s /\ \A q \in Procs \ {r} : step'[q] = step[q]
  BY DEF ReleaseInv
<1>2. RunInv(r)'
  BY <1>1 DEF ReleaseInv, RunInv, Stands, Holds, Working, Restless
<1>3. ASSUME NEW q \in Procs, q # r PROVE RunInv(q)'
  <2>1. RunInv(q) /\ step'[q] = step[q] /\ op'[q] = op[q]
    BY <1>1, <1>3 DEF ReleaseInv
  <2> QED  BY <2>1 DEF RunInv, Stands, Holds, Release!v, Release!old
<1>4. (\A q \in Procs : step'[q] \notin Restless) => \A q \in Procs : step[q] \notin Restless
  BY <1>1 DEF Holds, Restless
<1>5. Settled' = Settled
  BY DEF Settled
<1> QED  BY <1>1, <1>2, <1>3, <1>4, <1>5 DEF ReleaseInv

(* What a run at work may rely on.                                           *)
LEMMA AtWork ==
  ASSUME ReleaseInv, NEW r \in Procs, step[r] \in Working
  PROVE  /\ Holds(r) /\ holder = r /\ RunInv(r) /\ failures \in Nat /\ unsettled \in BOOLEAN
         /\ op[r] \in [kind : {"deploy", "rollback"}, version : Versions, keep : Keeps,
                       old : Versions \cup {None}]
         /\ Release!v(r) \in Versions /\ Release!old(r) \in Versions \cup {None}
         /\ step[r] \notin Restless /\ ~unsettled => Settled
         /\ releases \subseteq Versions /\ {current, replaced} \subseteq releases \cup {None}
         /\ op = [q \in Procs |-> op[q]]
         /\ step = [q \in Procs |-> step[q]]
<1>1. Holds(r)
  BY DEF Holds, Working
<1>2. holder = r /\ \A q \in Procs \ {r} : ~Holds(q)
  BY <1>1 DEF ReleaseInv, RunInv
<1>3. \A q \in Procs \ {r} : step[q] \notin Restless
  BY <1>2 DEF Holds, Restless
<1> QED  BY <1>1, <1>2, <1>3 DEF ReleaseInv, RunInv, Release!v, Release!old

LEMMA ReleaseGo ==
  ASSUME Release!ReleaseAssumption, ReleaseInv, NEW r \in Procs, step[r] \in Working,
         NEW s \in Working, step' = [step EXCEPT ![r] = s], UNCHANGED <<op, holder>>,
         failures' \in Nat, unsettled' \in BOOLEAN,
         releases' \subseteq Versions, {current', replaced'} \subseteq releases' \cup {None},
         Stands(r, s)', s \notin Restless /\ ~unsettled' => Settled'
  PROVE  ReleaseInv'
<1>1. step'[r] = s /\ op' = [q \in Procs |-> op'[q]]
  BY AtWork
<1>2. s # "idle" /\ s \notin {"idle", "lock"} /\ None \notin Procs
  BY DEF Working, Release!ReleaseAssumption
<1>3. RunInv(r)'
  BY <1>1, <1>2, AtWork DEF RunInv, Holds
<1> QED  BY <1>1, <1>2, <1>3, AtWork, ReleaseMove

(* It gives up: whatever it did is undone, was never begun, or is on record
   as unsettled.                                                             *)
LEMMA ReleaseGiveUp ==
  ASSUME Release!ReleaseAssumption, ReleaseInv, NEW r \in Procs, step[r] \in Working,
         step' = [step EXCEPT ![r] = "release"], UNCHANGED <<op, holder>>,
         failures' \in Nat, unsettled' \in BOOLEAN,
         releases' \subseteq Versions, {current', replaced'} \subseteq releases' \cup {None},
         ~unsettled' => Settled'
  PROVE  ReleaseInv'
<1>1. Stands(r, "release")' /\ "release" \in Working
  BY DEF Stands, Working, Restless
<1> QED  BY <1>1, ReleaseGo

LEMMA ReleaseBegin == ASSUME ReleaseInv, NEW r \in Procs, Release!Begin(r) PROVE ReleaseInv'
<1>1. step[r] = "idle" /\ ~Holds(r)
  BY DEF Release!Begin, Holds
<1>2. PICK k \in {"deploy", "rollback"}, w \in Versions, n \in Keeps :
        op' = [op EXCEPT ![r] = [kind |-> k, version |-> w, keep |-> n, old |-> None]]
  BY DEF Release!Begin
<1>3. op = [q \in Procs |-> op[q]]
  BY DEF ReleaseInv
<1>4. /\ op' = [q \in Procs |-> op'[q]] /\ \A q \in Procs \ {r} : op'[q] = op[q]
      /\ op'[r] \in [kind : {"deploy", "rollback"}, version : Versions, keep : Keeps,
                     old : Versions \cup {None}]
  BY <1>2, <1>3
<1> QED  BY <1>1, <1>4, ReleaseIdle
          DEF Release!Begin, Release!Goto, Release!disk, Release!app, Release!ghost

LEMMA ReleaseAcquire ==
  ASSUME Release!ReleaseAssumption, ReleaseInv, NEW r \in Procs, Release!remote_lock_acquire(r)
  PROVE  ReleaseInv'
<1>1. /\ step[r] = "lock" /\ ~Holds(r) /\ op = [q \in Procs |-> op[q]] /\ None \notin Procs
      /\ op[r] \in [kind : {"deploy", "rollback"}, version : Versions, keep : Keeps,
                    old : Versions \cup {None}]
  BY DEF Release!remote_lock_acquire, Holds, ReleaseInv, RunInv, Release!ReleaseAssumption
<1>2. CASE holder # None /\ UNCHANGED holder /\ Release!Goto(r, "idle") /\ op' = [op EXCEPT ![r] = None]
  <2>1. op' = [q \in Procs |-> op'[q]] /\ \A q \in Procs \ {r} : op'[q] = op[q]
    BY <1>1, <1>2
  <2> QED  BY <1>1, <1>2, <2>1, ReleaseIdle
            DEF Release!remote_lock_acquire, Release!Goto, Release!disk, Release!app, Release!ghost
<1>3. CASE holder = None /\ holder' = r /\ Release!Goto(r, "previous") /\ UNCHANGED op
  <2>1. /\ step' = [step EXCEPT ![r] = "previous"] /\ holder' = r /\ holder = None /\ op' = op
        /\ UNCHANGED <<releases, current, running, healthy, replaced, unsettled, failures>>
    BY <1>3 DEF Release!remote_lock_acquire, Release!Goto, Release!disk, Release!app, Release!ghost
  <2>2. step'[r] = "previous" /\ \A q \in Procs \ {r} : step'[q] = step[q]
    BY <2>1 DEF ReleaseInv
  <2>3. \A q \in Procs : ~Holds(q)
    BY <1>1, <2>1 DEF ReleaseInv, RunInv
  <2>4. RunInv(r)'
    BY <1>1, <2>1, <2>2 DEF RunInv, Stands, Holds, Working, Restless
  <2>5. ASSUME NEW q \in Procs, q # r PROVE RunInv(q)'
    <3>1. RunInv(q) /\ step'[q] = step[q] /\ step[q] \in {"idle", "lock"}
      BY <2>2, <2>3, <2>5 DEF ReleaseInv, Holds
    <3> QED  BY <2>1, <2>5, <3>1 DEF RunInv, Stands, Holds, Working, Restless
  <2>6. \A q \in Procs : step[q] \notin Restless
    BY <2>3 DEF Holds, Restless
  <2>7. Settled' = Settled
    BY <2>1 DEF Settled
  <2>8. step' \in [Procs -> Working \cup {"idle", "lock", "dead"}]
    BY <2>1 DEF ReleaseInv, Working
  <2> QED  BY <2>1, <2>4, <2>5, <2>6, <2>7, <2>8 DEF ReleaseInv
<1> QED  BY <1>2, <1>3 DEF Release!remote_lock_acquire

LEMMA ReleasePrevious ==
  ASSUME Release!ReleaseAssumption, ReleaseInv, NEW r \in Procs, Release!previous(r)
  PROVE  ReleaseInv'
<1>0. step[r] = "previous" /\ step[r] \in Working /\ step[r] \notin Restless /\ None \notin Procs
  BY DEF Release!previous, Working, Restless, Release!ReleaseAssumption
<1>1. /\ UNCHANGED <<releases, current, running, healthy, holder, replaced, unsettled>>
      /\ failures' \in Nat
  BY <1>0, AtWork DEF Release!previous, Release!disk, Release!app, Release!ghost, Release!Fault
<1>2. ~unsettled' => Settled'
  BY <1>0, <1>1, AtWork DEF Settled
<1>3. CASE op' = [op EXCEPT ![r].old = current] /\ Release!Goto(r, Release!First(r))
  <2> DEFINE s == Release!First(r)
  <2>1. s \in {"mkdir", "verify"}
    BY DEF Release!First
  <2>2. /\ op' = [q \in Procs |-> op'[q]] /\ \A q \in Procs \ {r} : op'[q] = op[q]
        /\ op'[r] = [op[r] EXCEPT !.old = current]
    BY <1>0, <1>3, AtWork
  <2>3. /\ op'[r] \in [kind : {"deploy", "rollback"}, version : Versions, keep : Keeps,
                       old : Versions \cup {None}]
        /\ op'[r].old = current
    <3>1. current \in Versions \cup {None}
      BY <1>0, AtWork
    <3> QED  BY <1>0, <2>2, <3>1, AtWork
  <2> HIDE DEF s
  <2>4. step' = [step EXCEPT ![r] = s] /\ step'[r] = s
    BY <1>0, <1>3, AtWork DEF Release!Goto, s
  <2>5. RunInv(r)'
    BY <1>0, <1>1, <2>1, <2>3, <2>4, AtWork DEF RunInv, Stands, Holds, Working, Restless, Release!old
  <2>6. s \in Working \ {"idle"}
    BY <2>1 DEF Working
  <2> QED  BY <1>0, <1>1, <1>2, <2>2, <2>4, <2>5, <2>6, AtWork, ReleaseMove
<1>4. CASE UNCHANGED op /\ Release!Goto(r, "release")
  BY <1>0, <1>1, <1>2, <1>4, AtWork, ReleaseGiveUp DEF Release!Goto
<1> QED  BY <1>3, <1>4 DEF Release!previous

LEMMA ReleaseMkdir ==
  ASSUME Release!ReleaseAssumption, ReleaseInv, NEW r \in Procs, Release!mkdir(r)
  PROVE  ReleaseInv'
<1>1. /\ step[r] = "mkdir" /\ step[r] \in Working /\ step[r] \notin Restless
      /\ UNCHANGED <<current, running, healthy, holder, replaced, unsettled, op>>
  BY DEF Release!mkdir, Release!ssh_step, Working, Restless, Release!app, Release!ghost
<1>2. /\ releases' \in {releases, releases \cup {Release!v(r)}} /\ releases \subseteq releases'
      /\ failures' \in Nat
  BY <1>1, AtWork DEF Release!mkdir, Release!ssh_step, Release!Fault
<1>3. /\ releases' \subseteq Versions /\ {current', replaced'} \subseteq releases' \cup {None}
      /\ ~unsettled' => Settled'
  BY <1>1, <1>2, AtWork DEF Settled
<1>4. CASE releases' = releases \cup {Release!v(r)} /\ Release!Goto(r, "prepare")
  <2>1. Stands(r, "prepare")'
    BY <1>1, <1>2, <1>3, <1>4, AtWork DEF RunInv, Stands, Release!v, Release!old, Working, Restless
  <2>2. "prepare" \in Working
    BY DEF Working
  <2> QED  BY <1>1, <1>2, <1>3, <1>4, <2>1, <2>2, AtWork, ReleaseGo DEF Release!Goto
<1>5. CASE Release!Goto(r, "release")
  BY <1>1, <1>2, <1>3, <1>5, AtWork, ReleaseGiveUp DEF Release!Goto
<1> QED  BY <1>4, <1>5 DEF Release!mkdir, Release!ssh_step

(* The version exists, or does not; a step before the switch fails.          *)
LEMMA ReleasePrepare ==
  ASSUME Release!ReleaseAssumption, ReleaseInv, NEW r \in Procs,
         Release!Refused(r) \/ Release!Prepare(r)
  PROVE  ReleaseInv'
<1>1. /\ step[r] \in {"mkdir", "verify", "prepare"}
      /\ step[r] \in Working /\ step[r] \notin Restless
      /\ UNCHANGED <<releases, current, running, healthy, holder, replaced, unsettled, op>>
  BY DEF Release!Refused, Release!Prepare, Working, Restless, Release!disk, Release!app, Release!ghost
<1>2. /\ failures' \in Nat /\ releases' \subseteq Versions
      /\ {current', replaced'} \subseteq releases' \cup {None}
      /\ ~unsettled' => Settled'
  BY <1>1, AtWork DEF Release!Refused, Release!Prepare, Release!Fault, Settled
<1>3. CASE Release!Goto(r, "release")
  BY <1>1, <1>2, <1>3, AtWork, ReleaseGiveUp DEF Release!Goto
<1>4. CASE /\ step[r] = "prepare" \/ (step[r] = "verify" /\ ~Release!Exclusive(r))
           /\ Release!Goto(r, "switch")
  <2>1. Release!v(r) \in releases
    BY <1>1, <1>4, AtWork DEF RunInv, Stands, Restless, Release!Exclusive
  <2>2. Release!old(r) = current /\ Release!old(r) \in releases \cup {None}
    BY <1>1, AtWork DEF RunInv, Stands
  <2>3. Stands(r, "switch")'
    BY <1>1, <2>1, <2>2 DEF Stands, Release!v, Release!old, Restless
  <2>4. "switch" \in Working
    BY DEF Working
  <2> QED  BY <1>1, <1>2, <1>4, <2>3, <2>4, AtWork, ReleaseGo DEF Release!Goto
<1> QED  BY <1>3, <1>4 DEF Release!Refused, Release!Prepare

(* The steps between the switch of the link and the end of the compensation
   leave the directories alone and know the version and the old one.         *)
LEMMA Knows ==
  ASSUME ReleaseInv, NEW r \in Procs, step[r] \in Restless \cup {"switch", "prune"}
  PROVE  /\ step[r] \in Working
         /\ Release!v(r) \in releases /\ Release!old(r) \in releases \cup {None}
<1>1. step[r] \in Working
  BY DEF Working, Restless
<1> QED  BY <1>1, AtWork DEF RunInv, Stands

LEMMA ReleaseActivate ==
  ASSUME Release!ReleaseAssumption, ReleaseInv, NEW r \in Procs, Release!activate(r)
  PROVE  ReleaseInv'
<1>1. /\ step[r] \in {"switch", "activate"} /\ step[r] \in Restless \cup {"switch", "prune"}
      /\ UNCHANGED <<releases, holder, replaced, unsettled, op>>
  BY DEF Release!activate, Release!switch_link, Release!Started, Release!ssh_step, Restless,
         Release!disk, Release!ghost
<1>2. /\ step[r] \in Working /\ Release!v(r) \in releases /\ Release!old(r) \in releases \cup {None}
      /\ Release!v(r)' = Release!v(r) /\ Release!old(r)' = Release!old(r)
  BY <1>1, Knows DEF Release!v, Release!old
<1>3. failures' \in Nat /\ current' \in {current, Release!v(r)}
  BY <1>1, <1>2, AtWork
     DEF Release!activate, Release!switch_link, Release!Started, Release!ssh_step, Release!disk, Release!Fault
<1>4. releases' \subseteq Versions /\ {current', replaced'} \subseteq releases' \cup {None}
  BY <1>1, <1>2, <1>3, AtWork
<1>5. \/ Release!Goto(r, "undo")
      \/ Release!Goto(r, "activate") /\ current' = Release!v(r)
      \/ Release!Goto(r, "check") /\ current' = Release!v(r) /\ running' = Release!v(r)
  <2>1. CASE Release!switch_link(r, "switch", Release!v(r), "activate", "undo")
    BY <2>1 DEF Release!switch_link, Release!ssh_step
  <2>2. CASE Release!Started(r, "activate", Release!v(r), "check", "undo")
    BY <1>2, <2>2, AtWork DEF Release!Started, Release!ssh_step, Release!disk, RunInv, Stands
  <2> QED  BY <2>1, <2>2 DEF Release!activate
<1>6. PICK s \in {"undo", "activate", "check"} :
        /\ step' = [step EXCEPT ![r] = s]
        /\ s \in {"activate", "check"} => current' = Release!v(r)
        /\ s = "check" => running' = Release!v(r)
  BY <1>5 DEF Release!Goto
<1>7. Stands(r, s)' /\ s \in Working /\ s \in Restless
  BY <1>1, <1>2, <1>6 DEF Stands, Working, Restless
<1> QED  BY <1>1, <1>2, <1>3, <1>4, <1>6, <1>7, AtWork, ReleaseGo

LEMMA ReleaseCheck ==
  ASSUME Release!ReleaseAssumption, ReleaseInv, NEW r \in Procs, Release!Check(r)
  PROVE  ReleaseInv'
<1>1. /\ step[r] = "check" /\ step[r] \in Restless \cup {"switch", "prune"}
      /\ UNCHANGED <<releases, current, running, holder, op>>
  BY DEF Release!Check, Restless, Release!disk
<1>2. /\ step[r] \in Working /\ Release!v(r) \in releases /\ Release!old(r) \in releases \cup {None}
      /\ Release!v(r)' = Release!v(r) /\ Release!old(r)' = Release!old(r)
  BY <1>1, Knows DEF Release!v, Release!old
<1>3. current = Release!v(r) /\ running = current /\ failures \in Nat
  BY <1>1, <1>2, AtWork DEF RunInv, Stands
<1>4. CASE healthy' = TRUE /\ UNCHANGED failures /\ replaced' = Release!old(r) /\ unsettled' = FALSE
           /\ Release!Goto(r, IF op[r].kind = "deploy" /\ op[r].keep # 0 THEN "prune" ELSE "release")
  <2>1. Settled' /\ {current', replaced'} \subseteq releases' \cup {None} /\ releases' \subseteq Versions
    BY <1>1, <1>2, <1>3, <1>4, AtWork DEF Settled
  <2>2. PICK s \in {"prune", "release"} : step' = [step EXCEPT ![r] = s]
    BY <1>4 DEF Release!Goto
  <2>3. Stands(r, s)' /\ s \in Working
    BY <1>1, <1>2, <1>3, <1>4, <2>2 DEF Stands, Working, Restless
  <2> QED  BY <1>1, <1>2, <1>3, <1>4, <2>1, <2>2, <2>3, AtWork, ReleaseGo
<1>5. CASE UNCHANGED <<healthy, Release!ghost>> /\ Release!Goto(r, "undo") /\ Release!Fault
  <2>1. Stands(r, "undo")' /\ "undo" \in Working /\ "undo" \in Restless
    BY <1>1, <1>2 DEF Stands, Working, Restless
  <2>2. failures' \in Nat /\ UNCHANGED <<replaced, unsettled>>
    BY <1>3, <1>5 DEF Release!Fault, Release!ghost
  <2>3. releases' \subseteq Versions /\ {current', replaced'} \subseteq releases' \cup {None}
    BY <1>1, <1>2, <2>2, AtWork
  <2> QED  BY <1>1, <1>2, <1>5, <2>1, <2>2, <2>3, AtWork, ReleaseGo DEF Release!Goto
<1> QED  BY <1>4, <1>5 DEF Release!Check

(* A step of the compensation that fails ends it and is on record; one that
   works leads to the next, or leaves the host without a release.            *)
LEMMA ReleaseUndo ==
  ASSUME Release!ReleaseAssumption, ReleaseInv, NEW r \in Procs, Release!Undo(r)
  PROVE  ReleaseInv'
<1>1. /\ step[r] \in {"undo", "restart", "deactivate"} /\ step[r] \in Restless \cup {"switch", "prune"}
      /\ UNCHANGED <<releases, holder, replaced, op>>
      /\ unsettled' = (unsettled \/ failures' # failures)
  BY DEF Release!Undo, Release!switch_link, Release!Started, Release!ssh_step, Restless,
         Release!disk, Release!Unsettles
<1>2. /\ step[r] \in Working /\ Release!v(r) \in releases /\ Release!old(r) \in releases \cup {None}
      /\ Release!v(r)' = Release!v(r) /\ Release!old(r)' = Release!old(r)
  BY <1>1, Knows DEF Release!v, Release!old
<1>3. failures' \in Nat /\ current' \in {current, Release!old(r)} /\ unsettled' \in BOOLEAN
  BY <1>1, <1>2, AtWork
     DEF Release!Undo, Release!switch_link, Release!Started, Release!ssh_step, Release!disk, Release!Fault
<1>4. releases' \subseteq Versions /\ {current', replaced'} \subseteq releases' \cup {None}
  BY <1>1, <1>2, <1>3, AtWork
<1>5. CASE Release!Goto(r, "release") /\ Release!Fault
  <2>1. failures' # failures
    BY <1>2, <1>5, AtWork DEF Release!Fault
  <2>2. unsettled'
    BY <1>1, <2>1
  <2> QED  BY <1>1, <1>2, <1>3, <1>4, <1>5, <2>2, AtWork, ReleaseGiveUp DEF Release!Goto
<1>6. CASE step[r] = "undo" /\ current' = Release!old(r) /\ Release!Goto(r, Release!AfterLink(r))
  <2>1. PICK s \in {"restart", "deactivate", "release"} :
          /\ step' = [step EXCEPT ![r] = s]
          /\ s # "restart" => Release!old(r) = None
          /\ s = "release" => ~Deactivate
    BY <1>6 DEF Release!Goto, Release!AfterLink
  <2>2. s \in Working /\ (s # "release" <=> s \in Restless)
    BY <2>1 DEF Working, Restless
  <2>3. Stands(r, s)'
    BY <1>1, <1>2, <1>6, <2>1 DEF Stands, Restless
  <2>4. s \notin Restless => Settled'
    BY <1>6, <2>1, <2>2 DEF Settled
  <2> QED  BY <1>1, <1>2, <1>3, <1>4, <2>1, <2>2, <2>3, <2>4, AtWork, ReleaseGo
<1>7. CASE /\ step[r] = "restart" /\ running' = Release!old(r) /\ current' = current
           /\ Release!Goto(r, "recheck")
  <2>1. Stands(r, "recheck")' /\ "recheck" \in Working /\ "recheck" \in Restless
    BY <1>1, <1>2, <1>7, AtWork DEF RunInv, Stands, Working, Restless
  <2> QED  BY <1>1, <1>2, <1>3, <1>4, <1>7, <2>1, AtWork, ReleaseGo DEF Release!Goto
<1>8. CASE /\ step[r] = "deactivate" /\ running' = None /\ current' = current
           /\ Release!Goto(r, "settled")
  <2>1. Stands(r, "settled")' /\ "settled" \in Working /\ "settled" \in Restless
    BY <1>1, <1>2, <1>8, AtWork DEF RunInv, Stands, Working, Restless
  <2> QED  BY <1>1, <1>2, <1>3, <1>4, <1>8, <2>1, AtWork, ReleaseGo DEF Release!Goto
<1>9. CASE Release!switch_link(r, "undo", Release!old(r), Release!AfterLink(r), "release")
  BY <1>5, <1>6, <1>9 DEF Release!switch_link, Release!ssh_step
<1>10. CASE Release!Started(r, "restart", Release!old(r), "recheck", "release")
  BY <1>5, <1>7, <1>10 DEF Release!Started, Release!ssh_step, Release!disk
<1>11. CASE Release!Started(r, "deactivate", None, "settled", "release")
  BY <1>5, <1>8, <1>11 DEF Release!Started, Release!ssh_step, Release!disk
<1> QED  BY <1>9, <1>10, <1>11 DEF Release!Undo

LEMMA ReleaseRecheck ==
  ASSUME Release!ReleaseAssumption, ReleaseInv, NEW r \in Procs, Release!Recheck(r)
  PROVE  ReleaseInv'
<1>1. /\ step[r] \in {"recheck", "settled"} /\ step[r] \in Restless \cup {"switch", "prune"}
      /\ UNCHANGED <<releases, current, running, holder, replaced, op>> /\ Release!Goto(r, "release")
  BY DEF Release!Recheck, Restless, Release!disk
<1>2. step[r] \in Working
  BY <1>1, Knows
<1>3. failures' \in Nat /\ unsettled' \in BOOLEAN
  <2>1. failures' \in Nat
    BY <1>2, AtWork DEF Release!Recheck, Release!Fault
  <2>2. unsettled' \in BOOLEAN
    BY DEF Release!Recheck
  <2> QED  BY <2>1, <2>2
<1>4. running = current /\ (step[r] = "settled" => current = None)
  BY <1>1, <1>2, AtWork DEF RunInv, Stands
<1>5. ~unsettled' => Settled'
  BY <1>1, <1>4 DEF Release!Recheck, Settled
<1> QED  BY <1>1, <1>2, <1>3, <1>5, AtWork, ReleaseGiveUp DEF Release!Goto

(* Neither the active release nor the one to go back to is among the others. *)
LEMMA ReleasePrune ==
  ASSUME Release!ReleaseAssumption, ReleaseInv, NEW r \in Procs, Release!prune(r)
  PROVE  ReleaseInv'
<1>1. /\ step[r] = "prune" /\ step[r] \in Restless \cup {"switch", "prune"} /\ step[r] \notin Restless
      /\ UNCHANGED <<current, running, healthy, holder, replaced, unsettled, op>>
      /\ Release!Goto(r, "release")
  BY DEF Release!prune, Restless, Release!app, Release!ghost
<1>2. step[r] \in Working
  BY <1>1, Knows
<1>3. PICK s \in SUBSET Release!Pruned(r) : releases' = releases \ s
  BY DEF Release!prune, Release!rm_rf
<1>4. s \cap {Release!v(r), Release!old(r)} = {}
  BY <1>3 DEF Release!Pruned, Release!Others, Release!Protected
<1>5. current = Release!v(r) /\ replaced = Release!old(r)
  BY <1>1, <1>2, AtWork DEF RunInv, Stands
<1>6. releases' \subseteq Versions /\ {current', replaced'} \subseteq releases' \cup {None}
  BY <1>1, <1>2, <1>3, <1>4, <1>5, AtWork
<1>7. failures' \in Nat /\ (~unsettled' => Settled')
  BY <1>1, <1>2, AtWork DEF Release!prune, Release!Fault, Settled
<1> QED  BY <1>1, <1>2, <1>6, <1>7, AtWork, ReleaseGiveUp DEF Release!Goto

LEMMA ReleaseRelease ==
  ASSUME Release!ReleaseAssumption, ReleaseInv, NEW r \in Procs,
         Release!remote_lock_release(r) \/ Release!Recover(r) \/ Release!Die(r)
  PROVE  ReleaseInv'
<1>1. /\ Holds(r) /\ None \notin Procs /\ step = [q \in Procs |-> step[q]]
      /\ UNCHANGED <<releases, current, running, healthy, replaced>>
      /\ op' \in {op, [op EXCEPT ![r] = None]}
  BY DEF Release!remote_lock_release, Release!Recover, Release!Die, Holds, ReleaseInv, RunInv,
         Release!ReleaseAssumption, Release!disk, Release!app, Release!ghost
<1>2. op' = [q \in Procs |-> op'[q]] /\ \A q \in Procs \ {r} : op'[q] = op[q]
  BY <1>1 DEF ReleaseInv
<1>3. holder = r /\ \A q \in Procs \ {r} : step[q] \notin Restless
  BY <1>1 DEF ReleaseInv, RunInv, Holds, Restless
<1>4. /\ releases' \subseteq Versions /\ {current', replaced'} \subseteq releases' \cup {None}
      /\ failures \in Nat /\ unsettled \in BOOLEAN
      /\ step[r] \notin Restless /\ ~unsettled => Settled'
  BY <1>1, <1>3 DEF ReleaseInv, Settled
<1>5. CASE Release!Die(r)
  <2>1. /\ failures' \in Nat /\ unsettled' \in BOOLEAN /\ holder' = r
        /\ step' = [step EXCEPT ![r] = "dead"]
        /\ unsettled' = (unsettled \/ step[r] \in Release!Activating)
    BY <1>3, <1>4, <1>5 DEF Release!Die, Release!Fault, Release!Goto
  <2>2. ~unsettled' => Settled'
    BY <1>4, <2>1 DEF Release!Activating, Restless
  <2>3. step'[r] = "dead"
    BY <1>1, <2>1
  <2>4. RunInv(r)'
    BY <2>1, <2>3 DEF RunInv, Stands, Holds, Working, Restless
  <2> QED  BY <1>1, <1>2, <1>4, <2>1, <2>2, <2>4, ReleaseMove
<1>6. CASE Release!remote_lock_release(r) \/ Release!Recover(r)
  <2>1. /\ UNCHANGED <<failures, unsettled>> /\ holder' = None
        /\ step' = [step EXCEPT ![r] = "idle"] /\ step[r] \in {"release", "dead"}
    BY <1>6 DEF Release!remote_lock_release, Release!Recover, Release!Goto, Release!ghost
  <2>2. ~unsettled' => Settled'
    BY <1>4, <2>1 DEF Restless
  <2>3. step'[r] = "idle"
    BY <1>1, <2>1
  <2>4. RunInv(r)'
    BY <1>1, <2>1, <2>3 DEF RunInv, Stands, Holds, Working, Restless
  <2> QED  BY <1>1, <1>2, <1>4, <2>1, <2>2, <2>4, ReleaseMove
<1> QED  BY <1>5, <1>6

LEMMA ReleaseStep ==
  ASSUME Release!ReleaseAssumption PROVE ReleaseInv /\ [Release!Next]_Release!vars => ReleaseInv'
<1> SUFFICES ASSUME ReleaseInv, [Release!Next]_Release!vars PROVE ReleaseInv'
  OBVIOUS
<1>1. CASE UNCHANGED Release!vars
  BY <1>1 DEF ReleaseInv, RunInv, Stands, Holds, Settled, Release!v, Release!old,
              Release!vars, Release!disk, Release!app, Release!ghost
<1>2. CASE Release!Next
  <2>1. PICK r \in Procs :
          \/ Release!Begin(r) \/ Release!remote_lock_acquire(r) \/ Release!previous(r)
          \/ Release!mkdir(r) \/ Release!Refused(r) \/ Release!Prepare(r) \/ Release!activate(r)
          \/ Release!Check(r) \/ Release!Undo(r) \/ Release!Recheck(r) \/ Release!prune(r)
          \/ Release!remote_lock_release(r) \/ Release!Die(r) \/ Release!Recover(r)
    BY <1>2 DEF Release!Next
  <2> QED  BY <2>1, ReleaseBegin, ReleaseAcquire, ReleasePrevious, ReleaseMkdir, ReleasePrepare,
              ReleaseActivate, ReleaseCheck, ReleaseUndo, ReleaseRecheck, ReleasePrune, ReleaseRelease
<1> QED  BY <1>1, <1>2

(* lib/release.rhai: for any runs, versions and values of keep, the link never
   dangles and the release to go back to is never pruned; and whenever nobody is
   at work and no activation died or failed to compensate, what the link names
   runs and has passed its check.                                            *)
LEMMA ReleaseHolds ==
  ASSUME Release!ReleaseAssumption PROVE Release!Spec => []Release!ReleaseKept
<1>1. ReleaseInv => Release!ReleaseKept
  <2> SUFFICES ASSUME ReleaseInv, holder = None, ~unsettled PROVE Settled
    BY DEF ReleaseInv, Release!ReleaseKept, Settled
  <2>1. None \notin Procs
    BY DEF Release!ReleaseAssumption
  <2>2. \A r \in Procs : ~Holds(r)
    BY <2>1 DEF ReleaseInv, RunInv
  <2> QED  BY <2>2 DEF ReleaseInv, Holds, Restless
<1> QED  BY <1>1, ReleaseInit, ReleaseStep, PTL DEF Release!Spec
-----------------------------------------------------------------------------
(* ------------------------------ HTTP calls ------------------------------ *)
Request   == [shape : Http!Shapes, own_type : BOOLEAN]
Malformed == \E i \in DOMAIN batch :
               \/ batch[i].shape = "header is not a string"
               \/ verb = "http_patch_all" /\ batch[i].shape # "ok"

(* A request that was not handed to a thread yet, or flies: nothing of it was
   done that the script could learn of.                                      *)
RequestInv(i) ==
  /\ acted[i] \in 0 .. 1 /\ types[i] \in 0 .. 1
  /\ i > Len(answers) => acted[i] = 0 /\ types[i] = 0
  /\ i <= Len(answers) =>
       \/ answers[i] = Http!Waiting /\ acted[i] = 0
       \/ answers[i].of = i /\ (answers[i].status # 0 => acted[i] = 1)
ResponsesInv ==
  outcome = "returned" =>
    /\ ~Malformed /\ DOMAIN responses = DOMAIN batch
    /\ \A i \in DOMAIN batch :
         responses[i].of = i /\ (~planning /\ responses[i].status # 0 => acted[i] = 1)
    /\ planning => Len(notes) = Len(batch)
HttpInv ==
  /\ verb \in Http!Reads \cup Http!Writes /\ planning \in BOOLEAN
  /\ batch \in Seq(Request)
  /\ verb = "http_patch_all" \/ Len(batch) = 1
  /\ answers \in Seq([of : Nat, status : Nat]) /\ Len(answers) <= Len(batch)
  /\ acted = [i \in DOMAIN batch |-> acted[i]] /\ types = [i \in DOMAIN batch |-> types[i]]
  /\ answers # <<>> => Http!Parsed /\ ~Http!Assumed
  /\ \E low \in Nat : Len(answers) <= low + Chunk /\ Http!Flying \subseteq low + 1 .. Len(answers)
  /\ \A i \in DOMAIN batch : RequestInv(i)
  /\ ResponsesInv

LEMMA HttpInit == ASSUME Http!HttpAssumption, Http!Init PROVE HttpInv
<1>1. /\ batch \in Seq(Request) /\ answers = <<>> /\ outcome = "open"
      /\ acted = [i \in DOMAIN batch |-> 0] /\ types = acted
      /\ verb = "http_patch_all" \/ Len(batch) = 1
      /\ verb \in Http!Reads \cup Http!Writes /\ planning \in BOOLEAN
  BY DEF Http!Init, Http!HttpAssumption, Request
<1>2. Len(answers) = 0 /\ DOMAIN answers = {} /\ Len(batch) \in Nat
  BY <1>1
<1>3. answers \in Seq([of : Nat, status : Nat]) /\ Len(answers) <= Len(batch)
  BY <1>1, <1>2
<1>4. 0 \in Nat /\ Len(answers) <= 0 + Chunk /\ Http!Flying \subseteq 0 + 1 .. Len(answers)
  BY <1>2 DEF Http!Flying, Http!HttpAssumption
<1>5. \A i \in DOMAIN batch : RequestInv(i)
  BY <1>1, <1>2 DEF RequestInv
<1> QED  BY <1>1, <1>3, <1>4, <1>5 DEF HttpInv, ResponsesInv

LEMMA Wellformed == HttpInv => (Http!Parsed <=> ~Malformed)
<1> SUFFICES ASSUME HttpInv PROVE Http!Parsed <=> ~Malformed
  OBVIOUS
<1>1. \A i \in DOMAIN batch : batch[i].shape \in Http!Shapes
  <2>1. \A i \in DOMAIN batch : batch[i] \in Request
    BY DEF HttpInv
  <2> QED  BY <2>1 DEF Request
<1> QED  BY <1>1 DEF Http!Parsed, Malformed, Http!headers_from_dynamic, Http!parse_patch_request, Http!Shapes

LEMMA ListIsSeq ==
  ASSUME NEW S, NEW a, NEW n \in Nat, a = [i \in 1 .. n |-> a[i]], \A i \in 1 .. n : a[i] \in S
  PROVE  a \in Seq(S) /\ Len(a) = n /\ DOMAIN a = 1 .. n
  OBVIOUS

LEMMA SameSize == ASSUME NEW S PROVE Http!Cardinality(S) = Cardinality(S)
  BY DEF Http!Cardinality, Cardinality

(* At most a chunk of requests flies.                                        *)
LEMMA FewFly == ASSUME Http!HttpAssumption, HttpInv PROVE Http!Cardinality(Http!Flying) <= Chunk
<1>1. PICK low \in Nat : Len(answers) <= low + Chunk /\ Http!Flying \subseteq low + 1 .. Len(answers)
  BY DEF HttpInv
<1>2. Chunk \in Nat /\ Http!Flying \subseteq low + 1 .. low + Chunk
  BY <1>1 DEF Http!HttpAssumption, HttpInv
<1>3. IsFiniteSet(low + 1 .. low + Chunk) /\ Cardinality(low + 1 .. low + Chunk) = Chunk
  BY <1>2, FS_Interval
<1> QED  BY <1>2, <1>3, FS_Subset, SameSize, ZenonT(40)

LEMMA HttpReal == ASSUME Http!HttpAssumption, HttpInv PROVE Http!AnswersAreReal
<1>1. Http!Cardinality(Http!Flying) <= Chunk
  BY FewFly
<1>2. \A i \in DOMAIN batch : acted[i] <= 1 /\ types[i] <= 1
  BY DEF HttpInv, RequestInv
<1>3. ASSUME Malformed \/ (planning /\ verb \in Http!Writes), NEW i \in DOMAIN batch
      PROVE  acted[i] = 0
  <2>1. answers = <<>>
    BY <1>3, Wellformed DEF HttpInv, Http!Assumed, Http!Writes
  <2>2. Len(answers) = 0 /\ i > 0
    BY <2>1 DEF HttpInv
  <2> QED  BY <2>2 DEF HttpInv, RequestInv
<1>4. ResponsesInv
  BY DEF HttpInv
<1>5. Malformed \/ (planning /\ verb \in Http!Writes) => \A i \in DOMAIN batch : acted[i] = 0
  BY <1>3
<1>6. outcome = "returned" =>
          /\ ~Malformed /\ DOMAIN responses = DOMAIN batch
          /\ \A i \in DOMAIN batch :
               /\ responses[i].of = i
               /\ ~planning /\ responses[i].status # 0 => acted[i] = 1
          /\ planning => Len(notes) = Len(batch)
  BY <1>4 DEF ResponsesInv
<1> QED  BY <1>1, <1>2, <1>5, <1>6 DEF Http!AnswersAreReal, Malformed

(* The steps that change neither a request nor what was done of it.          *)
LEMMA HttpKept ==
  ASSUME HttpInv, UNCHANGED <<Http!given, answers, acted, types>>, ResponsesInv'
  PROVE  HttpInv'
<1>1. \A i : RequestInv(i)' = RequestInv(i)
  BY DEF Http!given, RequestInv, Http!Waiting
<1> QED  BY <1>1 DEF HttpInv, Http!given, Http!Flying, Http!Waiting, Http!Parsed, Http!Assumed,
           Http!headers_from_dynamic, Http!parse_patch_request

LEMMA HttpOver ==
  ASSUME HttpInv, Http!Throw \/ Http!write_verb_response \/ Http!Return PROVE HttpInv'
<1>1. UNCHANGED <<Http!given, answers, acted, types>> /\ Malformed' = Malformed
  BY DEF Http!Throw, Http!write_verb_response, Http!Return, Http!given, Malformed
<1>2. DOMAIN batch = 1 .. Len(batch) /\ Len(batch) \in Nat
  BY DEF HttpInv
<1>3. CASE Http!Throw
  BY <1>1, <1>3, HttpKept DEF Http!Throw, ResponsesInv
<1>4. CASE Http!write_verb_response
  <2>1. /\ responses' = [i \in 1 .. Len(batch) |-> [of |-> i, status |-> 200]]
        /\ notes' = [i \in 1 .. Len(batch) |-> i]
        /\ ~Malformed /\ planning
    BY <1>2, <1>4, Wellformed DEF Http!write_verb_response, Http!Assumed
  <2>2. Len(notes') = Len(batch) /\ DOMAIN responses' = DOMAIN batch
    BY <1>2, <2>1
  <2>3. \A i \in DOMAIN batch : responses'[i].of = i
    BY <1>2, <2>1
  <2>4. ResponsesInv'
    BY <1>1, <2>1, <2>2, <2>3 DEF ResponsesInv, Http!given
  <2> QED  BY <1>1, <2>4, HttpKept
<1>5. CASE Http!Return
  <2>1. /\ Http!Flying = {} /\ Len(answers) = Len(batch) /\ ~Malformed /\ ~Http!Assumed
        /\ responses' = answers /\ notes' = IF planning THEN <<1>> ELSE <<>>
    BY <1>5, Wellformed DEF Http!Return, Http!Sent
  <2>2. DOMAIN answers = DOMAIN batch
    BY <2>1 DEF HttpInv
  <2>3. ASSUME NEW i \in DOMAIN batch
        PROVE  answers[i].of = i /\ (answers[i].status # 0 => acted[i] = 1)
    <3>1. answers[i] # Http!Waiting /\ i <= Len(answers)
      BY <1>2, <2>1, <2>2 DEF Http!Flying
    <3> QED  BY <3>1 DEF HttpInv, RequestInv
  <2>4. planning => Len(batch) = 1 /\ Len(notes') = 1
    BY <2>1 DEF HttpInv, Http!Assumed
  <2>5. ResponsesInv'
    BY <1>1, <2>1, <2>2, <2>3, <2>4 DEF ResponsesInv, Http!given
  <2> QED  BY <1>1, <2>5, HttpKept
<1> QED  BY <1>3, <1>4, <1>5

LEMMA HttpSpawn == ASSUME Http!HttpAssumption, HttpInv, Http!Spawn PROVE HttpInv'
<1>0. Len(answers) \in Nat /\ Len(batch) \in Nat /\ DOMAIN batch = 1 .. Len(batch)
  BY DEF HttpInv
<1>1. PICK n \in Nat, b \in Nat : n = Len(answers) /\ b = Len(batch) /\ DOMAIN batch = 1 .. b
  BY <1>0
<1>2. PICK upto \in Nat :
        /\ upto \in n + 1 .. b /\ upto <= n + Chunk
        /\ answers' = [i \in 1 .. upto |-> IF i <= n THEN answers[i] ELSE Http!Waiting]
        /\ types' = [i \in DOMAIN batch |->
                       IF i \in n + 1 .. upto THEN Http!do_body_request(batch[i]) ELSE types[i]]
  <2>1. PICK m \in {b, n + Chunk} : m = Http!Min({b, n + Chunk}) /\ m <= b /\ m <= n + Chunk
    <3>1. Chunk \in Nat /\ \E m \in {b, n + Chunk} : \A y \in {b, n + Chunk} : m <= y
      BY DEF Http!HttpAssumption
    <3> QED  BY <3>1 DEF Http!Min
  <2>2. n < b /\ Chunk \in Nat \ {0}
    BY <1>1 DEF Http!Spawn, Http!Sent, Http!HttpAssumption
  <2>3. m \in Nat /\ m \in n + 1 .. b
    BY <2>1, <2>2
  <2>4. /\ answers' = [i \in 1 .. m |-> IF i <= n THEN answers[i] ELSE Http!Waiting]
        /\ types' = [i \in DOMAIN batch |->
                       IF i \in n + 1 .. m THEN Http!do_body_request(batch[i]) ELSE types[i]]
    BY <1>1, <2>1 DEF Http!Spawn, Http!Sent
  <2> QED  BY <2>1, <2>3, <2>4
<1>3. /\ UNCHANGED <<Http!given, outcome, responses, acted, notes>>
      /\ Http!Flying = {} /\ Http!Parsed /\ ~Http!Assumed /\ outcome = "open"
  BY DEF Http!Spawn, Http!Open
<1>4. /\ answers \in Seq([of : Nat, status : Nat]) /\ DOMAIN answers = 1 .. n
      /\ types = [i \in DOMAIN batch |-> types[i]]
      /\ \A i \in DOMAIN batch : RequestInv(i)
  BY <1>1 DEF HttpInv
<1>5. /\ Len(answers') = upto /\ DOMAIN answers' = 1 .. upto
      /\ answers' \in Seq([of : Nat, status : Nat])
  <2>1. Http!Waiting \in [of : Nat, status : Nat]
    BY DEF Http!Waiting
  <2>2. \A i \in 1 .. upto : (IF i <= n THEN answers[i] ELSE Http!Waiting) \in [of : Nat, status : Nat]
    <3>1. \A i \in 1 .. n : answers[i] \in [of : Nat, status : Nat]
      BY <1>4, ElementOfSeq, <1>1
    <3>2. \A i \in 1 .. upto : i <= n => i \in 1 .. n
      OBVIOUS
    <3> QED  BY <2>1, <3>1, <3>2
  <2>3. PICK w : w = Http!Waiting
    OBVIOUS
  <2>4. /\ answers' = [i \in 1 .. upto |-> IF i <= n THEN answers[i] ELSE w]
        /\ \A i \in 1 .. upto : (IF i <= n THEN answers[i] ELSE w) \in [of : Nat, status : Nat]
    BY <1>2, <2>2, <2>3
  <2>5. /\ DOMAIN answers' = 1 .. upto /\ upto \in Nat
        /\ \A i \in 1 .. upto : answers'[i] \in [of : Nat, status : Nat]
        /\ answers' = [i \in 1 .. upto |-> answers'[i]]
    BY <2>4
  <2> QED  BY <2>5, ListIsSeq
<1>6. Http!Flying' \subseteq n + 1 .. upto
  <2>1. \A i \in 1 .. n : answers'[i] = answers[i] /\ answers[i] # Http!Waiting
    BY <1>2, <1>3, <1>4 DEF Http!Flying
  <2>2. Http!Flying' \subseteq 1 .. upto
    BY <1>5 DEF Http!Flying
  <2>3. \A i \in 1 .. n : i \notin Http!Flying'
    BY <2>1 DEF Http!Flying, Http!Waiting
  <2> QED  BY <2>2, <2>3
<1>7. ASSUME NEW i \in DOMAIN batch PROVE RequestInv(i)'
  <2>1. RequestInv(i) /\ acted'[i] = acted[i] /\ i \in 1 .. b
    BY <1>1, <1>3, <1>4
  <2>2. types'[i] = IF i \in n + 1 .. upto THEN Http!do_body_request(batch[i]) ELSE types[i]
    BY <1>2
  <2>3. Http!do_body_request(batch[i]) \in 0 .. 1
    BY DEF Http!do_body_request
  <2>4. CASE i <= n
    <3>1. answers'[i] = answers[i] /\ types'[i] = types[i]
      BY <1>2, <2>1, <2>2, <2>4
    <3> QED  BY <1>1, <1>2, <1>5, <2>1, <2>4, <3>1 DEF RequestInv, Http!Waiting
  <2>5. CASE i > n /\ i <= upto
    <3>1. answers'[i] = Http!Waiting /\ acted[i] = 0
      BY <1>1, <1>2, <2>1, <2>5 DEF RequestInv
    <3> QED  BY <1>5, <2>1, <2>2, <2>3, <2>5, <3>1 DEF RequestInv, Http!Waiting
  <2>6. CASE i > upto
    <3>1. acted[i] = 0 /\ types[i] = 0 /\ types'[i] = types[i]
      BY <1>1, <1>2, <2>1, <2>2, <2>6 DEF RequestInv
    <3> QED  BY <1>5, <2>1, <2>6, <3>1 DEF RequestInv
  <2> QED  BY <1>2, <2>1, <2>4, <2>5, <2>6
<1>8. types' = [i \in DOMAIN batch |-> types'[i]]
  BY <1>2
<1>9. Http!Parsed' /\ ~Http!Assumed'
  BY <1>3 DEF Http!given, Http!Parsed, Http!Assumed, Http!headers_from_dynamic, Http!parse_patch_request
<1>10. ResponsesInv'
  BY <1>3 DEF ResponsesInv
<1>11. batch' = batch /\ acted' = acted /\ verb' = verb /\ planning' = planning
  BY <1>3 DEF Http!given
<1>12. Len(answers') <= n + Chunk /\ Len(answers') <= b /\ Http!Flying' \subseteq n + 1 .. Len(answers')
  BY <1>2, <1>5, <1>6
<1>13. acted' = [i \in DOMAIN batch' |-> acted'[i]]
  BY <1>11 DEF HttpInv
<1>14. \A i \in DOMAIN batch' : RequestInv(i)'
  BY <1>7, <1>11
<1>15. /\ verb' \in Http!Reads \cup Http!Writes /\ planning' \in BOOLEAN
       /\ batch' \in Seq(Request) /\ (verb' = "http_patch_all" \/ Len(batch') = 1)
  BY <1>11 DEF HttpInv
<1> HIDE DEF HttpInv
<1>16. Len(answers') <= Len(batch') /\ types' = [i \in DOMAIN batch' |-> types'[i]]
  BY <1>1, <1>8, <1>11, <1>12
<1>17. \E low \in Nat : Len(answers') <= low + Chunk /\ Http!Flying' \subseteq low + 1 .. Len(answers')
  BY <1>1, <1>12
<1>18. answers' \in Seq([of : Nat, status : Nat])
  BY <1>5
<1> QED  BY <1>9, <1>10, <1>13, <1>14, <1>15, <1>16, <1>17, <1>18 DEF HttpInv

LEMMA HttpServe ==
  ASSUME Http!HttpAssumption, HttpInv, NEW k \in Http!Flying, Http!Serve(k)
  PROVE  HttpInv'
<1>1. PICK status \in Nat, once \in 0 .. 1 :
        Http!finish(k, status, once) /\ (status # 0 => once = 1)
  <2>1. Statuses \subseteq Nat
    BY DEF Http!HttpAssumption
  <2> QED  BY <2>1 DEF Http!Serve
<1>2. /\ answers' = [answers EXCEPT ![k] = [of |-> k, status |-> status]]
      /\ acted'   = [acted EXCEPT ![k] = @ + once]
      /\ UNCHANGED <<Http!given, outcome, responses, types, notes>>
  BY <1>1 DEF Http!finish
<1>3. /\ answers \in Seq([of : Nat, status : Nat]) /\ Len(answers) \in Nat /\ Len(batch) \in Nat
      /\ DOMAIN answers = 1 .. Len(answers) /\ DOMAIN batch = 1 .. Len(batch)
      /\ Len(answers) <= Len(batch)
  BY DEF HttpInv
<1>4. k \in DOMAIN answers /\ answers[k] = Http!Waiting /\ k \in Nat /\ k # 0 /\ k \in DOMAIN batch
  BY <1>3 DEF Http!Flying
<1>5. answers # <<>> /\ Http!Parsed /\ ~Http!Assumed
  BY <1>3, <1>4 DEF HttpInv
<1>6. /\ answers' \in Seq([of : Nat, status : Nat]) /\ Len(answers') = Len(answers)
      /\ DOMAIN answers' = DOMAIN answers
  BY <1>2, <1>3, <1>4
<1>7. \A i \in DOMAIN answers : answers'[i] = IF i = k THEN [of |-> k, status |-> status] ELSE answers[i]
  BY <1>2
<1>8. acted = [i \in DOMAIN batch |-> acted[i]] /\ \A i \in DOMAIN batch : RequestInv(i)
  BY DEF HttpInv
<1>9. /\ acted' = [i \in DOMAIN batch |-> acted'[i]]
      /\ \A i \in DOMAIN batch : acted'[i] = IF i = k THEN acted[i] + once ELSE acted[i]
  BY <1>2, <1>8
<1>10. acted[k] = 0
  BY <1>3, <1>4, <1>8 DEF RequestInv, Http!Waiting
<1>11. ASSUME NEW i \in DOMAIN batch PROVE RequestInv(i)'
  <2>1. RequestInv(i) /\ types' = types
    BY <1>2, <1>8
  <2>2. CASE i = k
    BY <1>1, <1>3, <1>4, <1>6, <1>7, <1>9, <1>10, <2>1, <2>2 DEF RequestInv
  <2>3. CASE i # k
    <3>1. acted'[i] = acted[i] /\ types'[i] = types[i] /\ (i <= Len(answers) => answers'[i] = answers[i])
      BY <1>3, <1>7, <1>9, <2>1, <2>3
    <3> QED  BY <1>6, <2>1, <3>1 DEF RequestInv, Http!Waiting
  <2> QED  BY <2>2, <2>3
<1>12. Http!Flying' \subseteq Http!Flying
  BY <1>4, <1>6, <1>7 DEF Http!Flying, Http!Waiting
<1>13. Http!Parsed' /\ ~Http!Assumed'
  BY <1>2, <1>5 DEF Http!given, Http!Parsed, Http!Assumed, Http!headers_from_dynamic, Http!parse_patch_request
<1>14. ResponsesInv'
  <2>1. Malformed' = Malformed /\ batch' = batch /\ planning' = planning
    BY <1>2 DEF Malformed, Http!given
  <2>2. ASSUME NEW i \in DOMAIN batch, acted[i] = 1 PROVE acted'[i] = 1
    BY <1>9, <1>10, <2>2
  <2> QED  BY <1>2, <2>1, <2>2 DEF ResponsesInv, HttpInv
<1>15. \E low \in Nat : Len(answers') <= low + Chunk /\ Http!Flying' \subseteq low + 1 .. Len(answers')
  BY <1>6, <1>12 DEF HttpInv
<1>16. batch' = batch /\ verb' = verb /\ planning' = planning /\ types' = types
  BY <1>2 DEF Http!given
<1>17. /\ verb' \in Http!Reads \cup Http!Writes /\ planning' \in BOOLEAN
       /\ batch' \in Seq(Request) /\ (verb' = "http_patch_all" \/ Len(batch') = 1)
       /\ types' = [i \in DOMAIN batch' |-> types'[i]]
  BY <1>16 DEF HttpInv
<1> HIDE DEF HttpInv
<1>18. Len(answers') <= Len(batch') /\ acted' = [i \in DOMAIN batch' |-> acted'[i]]
  BY <1>3, <1>6, <1>9, <1>16
<1>19. \A i \in DOMAIN batch' : RequestInv(i)'
  BY <1>11, <1>16
<1> QED  BY <1>6, <1>13, <1>14, <1>15, <1>17, <1>18, <1>19 DEF HttpInv

LEMMA HttpStep ==
  ASSUME Http!HttpAssumption, HttpInv, [Http!Next]_Http!vars PROVE HttpInv'
<1>1. CASE UNCHANGED Http!vars
  <2>1. ResponsesInv'
    BY <1>1 DEF Http!vars, Http!given, HttpInv, ResponsesInv, Malformed
  <2> QED  BY <1>1, <2>1, HttpKept DEF Http!vars
<1>2. CASE Http!Throw \/ Http!write_verb_response \/ Http!Return
  BY <1>2, HttpOver
<1>3. CASE Http!Spawn
  BY <1>3, HttpSpawn
<1>4. ASSUME NEW k \in Http!Flying, Http!Serve(k) PROVE HttpInv'
  BY <1>4, HttpServe
<1> QED  BY <1>1, <1>2, <1>3, <1>4 DEF Http!Next

(* http.rs, for batches of any length and chunks of any size: the answers a
   script gets are real, its requests go out at most once, a malformed batch and
   a write of a dry run not at all.                                           *)
LEMMA HttpHolds == ASSUME Http!HttpAssumption PROVE Http!Spec => []Http!AnswersAreReal
<1>1. Http!Init => HttpInv
  BY HttpInit
<1>2. HttpInv /\ [Http!Next]_Http!vars => HttpInv'
  BY HttpStep
<1>3. HttpInv => Http!AnswersAreReal
  BY HttpReal
<1> QED  BY <1>1, <1>2, <1>3, PTL DEF Http!Spec
-----------------------------------------------------------------------------
(* ----------------------------- Health gates ----------------------------- *)
(* The streak counts the good probes at the end, and nothing before them; a
   gate that still waits has not enough of them, and attempts left.          *)
StreakInv ==
  /\ streak \in 0 .. Len(probed)
  /\ \A i \in Len(probed) - streak + 1 .. Len(probed) : probed[i] = cfg.expected
  /\ streak < Len(probed) => probed[Len(probed) - streak] # cfg.expected
GateInv ==
  /\ probed \in Seq(Int) /\ cfg.attempts \in Int /\ cfg.consecutive \in Int /\ cfg.expected \in Nat
  /\ (~Gate!Counts) => cfg.consecutive = 1
  /\ StreakInv
  /\ opened = "waiting" /\ probed # <<>> => /\ ~Gate!Refused /\ streak < cfg.consecutive
                                           /\ Len(probed) < cfg.attempts
  /\ Gate!PassesInARow

LEMMA GateInit == ASSUME Gate!GateAssumption, Gate!Init PROVE GateInv
<1>1. /\ probed = <<>> /\ streak = 0 /\ opened = "waiting"
      /\ cfg \in [attempts : Limits, consecutive : Limits, timeout : Limits, expected : Statuses]
      /\ Gate!Counts \/ (cfg.consecutive = 1 /\ cfg.timeout = 1 /\ cfg.expected = Gate!Ok)
  BY DEF Gate!Init
<1>2. /\ probed \in Seq(Int) /\ Len(probed) = 0 /\ DOMAIN probed = {}
      /\ cfg.attempts \in Int /\ cfg.consecutive \in Int /\ cfg.expected \in Nat
  <2>1. probed \in Seq(Int) /\ Len(probed) = 0 /\ DOMAIN probed = {}
    BY <1>1
  <2>2. Limits \subseteq Int /\ Statuses \subseteq Nat
    BY DEF Gate!GateAssumption
  <2> QED  BY <1>1, <2>1, <2>2
<1> QED  BY <1>1, <1>2 DEF GateInv, StreakInv, Gate!PassesInARow

LEMMA GateRefuse == ASSUME GateInv, Gate!Refuse PROVE GateInv'
  BY DEF GateInv, StreakInv, Gate!Refuse, Gate!given, Gate!Counts, Gate!Refused, Gate!PassesInARow, Gate!InARow

(* A gate that waits has never seen enough in a row.                         *)
LEMMA GateProbe == ASSUME Gate!GateAssumption, GateInv, Gate!Probe PROVE GateInv'
<1>0. PICK n \in Nat, need \in Int : n = Len(probed) /\ need = cfg.consecutive
  BY DEF GateInv
<1>1. /\ opened = "waiting" /\ ~Gate!Refused /\ UNCHANGED Gate!given
      /\ cfg.attempts >= 1 /\ need >= 1 /\ n < cfg.attempts
      /\ n \in Nat /\ streak \in 0 .. n /\ need \in Int /\ cfg.attempts \in Int
      /\ probed \in Seq(Int) /\ DOMAIN probed = 1 .. n
  BY <1>0 DEF GateInv, StreakInv, Gate!Probe, Gate!Refused
<1>2. PICK p \in Gate!Probes :
        /\ probed' = Append(probed, p) /\ streak' = IF p = cfg.expected THEN streak + 1 ELSE 0
        /\ opened' = IF p = Gate!Amiss THEN "no"
                     ELSE IF p = cfg.expected /\ streak' >= need THEN "yes"
                     ELSE IF Len(probed') = cfg.attempts THEN "no" ELSE "waiting"
  BY <1>0 DEF Gate!Probe, Gate!Streak
<1>3. p \in Int
  <2>1. Gate!Ok \in Int /\ Gate!Mute \in Int /\ Gate!Amiss \in Int /\ Statuses \subseteq Int
    BY DEF Gate!Ok, Gate!Mute, Gate!Amiss, Gate!GateAssumption
  <2>2. probed # <<>> => probed[1] \in Int
    BY <1>1
  <2> QED  BY <1>2, <2>1, <2>2 DEF Gate!Probes
<1>4. /\ probed' \in Seq(Int) /\ Len(probed') = n + 1 /\ DOMAIN probed' = 1 .. n + 1
      /\ probed'[n + 1] = p /\ \A i \in 1 .. n : probed'[i] = probed[i]
  BY <1>0, <1>1, <1>2, <1>3
<1>5. cfg' = cfg /\ need = cfg.consecutive /\ Gate!Counts' = Gate!Counts /\ Gate!Refused' = Gate!Refused
  BY <1>0, <1>1 DEF Gate!given, Gate!Counts, Gate!Refused
<1>6. ~(\E i \in 1 .. n : Gate!InARow(i))
  BY <1>1 DEF GateInv, Gate!PassesInARow
<1>7. \A i \in 1 .. n : Gate!InARow(i)' = Gate!InARow(i)
  <2> SUFFICES ASSUME NEW i \in 1 .. n PROVE Gate!InARow(i)' = Gate!InARow(i)
    OBVIOUS
  <2>1. need \in 1 .. i => i - need + 1 .. i \subseteq 1 .. n
    BY <1>1
  <2> QED  BY <1>4, <1>5, <2>1 DEF Gate!InARow
<1>8. PICK t \in 0 .. n + 1 :
        /\ t = streak' /\ (p = cfg.expected <=> t > 0)
        /\ \A i \in n + 1 - t + 1 .. n + 1 : probed'[i] = cfg.expected
        /\ t < n + 1 => probed'[n + 1 - t] # cfg.expected
  <2>1. CASE p = cfg.expected
    <3>1. PICK s \in 0 .. n : s = streak
      BY <1>1
    <3>2. streak' = s + 1 /\ s + 1 \in 0 .. n + 1 /\ s + 1 > 0
      BY <1>2, <2>1, <3>1
    <3>3. /\ \A i \in n - s + 1 .. n : probed[i] = cfg.expected
          /\ s < n => probed[n - s] # cfg.expected
      BY <1>0, <3>1 DEF GateInv, StreakInv
    <3>4. \A i \in n + 1 - (s + 1) + 1 .. n + 1 : i = n + 1 \/ (i \in n - s + 1 .. n /\ i \in 1 .. n)
      BY <3>1
    <3>5. \A i \in n + 1 - (s + 1) + 1 .. n + 1 : probed'[i] = cfg.expected
      BY <1>4, <2>1, <3>3, <3>4
    <3>6. s + 1 < n + 1 => n + 1 - (s + 1) \in 1 .. n /\ n + 1 - (s + 1) = n - s /\ s < n
      BY <3>1
    <3>7. s + 1 < n + 1 => probed'[n + 1 - (s + 1)] # cfg.expected
      BY <1>4, <3>3, <3>6
    <3> QED  BY <2>1, <3>2, <3>5, <3>7
  <2>2. CASE p # cfg.expected
    <3>1. streak' = 0 /\ n + 1 - 0 = n + 1 /\ n + 1 - 0 + 1 .. n + 1 = {}
      BY <1>2, <2>2
    <3>2. probed'[n + 1 - 0] # cfg.expected
      BY <1>4, <2>2, <3>1
    <3> QED  BY <2>2, <3>1, <3>2
  <2> QED  BY <2>1, <2>2
<1>9. Gate!InARow(n + 1)' <=> p = cfg.expected /\ t >= need
  <2>1. CASE t >= need
    <3>1. /\ need \in 1 .. n + 1
          /\ \A i \in n + 1 - need + 1 .. n + 1 : i \in n + 1 - t + 1 .. n + 1
      BY <1>1, <2>1
    <3>2. \A i \in n + 1 - need + 1 .. n + 1 : probed'[i] = cfg.expected
      BY <1>8, <3>1
    <3>3. t > 0
      BY <1>1, <2>1
    <3> QED  BY <1>5, <1>8, <2>1, <3>1, <3>2, <3>3 DEF Gate!InARow
  <2>2. CASE ~(t >= need)
    <3>1. need \in 1 .. n + 1 => t < n + 1 /\ n + 1 - t \in n + 1 - need + 1 .. n + 1
      BY <1>1, <2>2
    <3> QED  BY <1>5, <1>8, <2>2, <3>1 DEF Gate!InARow
  <2> QED  BY <2>1, <2>2
<1>10. p = cfg.expected => p # Gate!Amiss
  BY DEF GateInv, Gate!Amiss
<1>11. Gate!PassesInARow'
  <2>1. \A i \in 1 .. n + 1 : Gate!InARow(i)' <=> opened' = "yes" /\ i = n + 1
    <3>1. opened' = "yes" <=> p = cfg.expected /\ t >= need
      BY <1>2, <1>8, <1>10
    <3>2. Gate!InARow(n + 1)' <=> opened' = "yes"
      BY <1>9, <3>1
    <3>3. \A i \in 1 .. n : ~Gate!InARow(i)'
      BY <1>6, <1>7
    <3>4. \A i \in 1 .. n + 1 : i = n + 1 \/ (i \in 1 .. n /\ i # n + 1)
      OBVIOUS
    <3> QED  BY <3>2, <3>3, <3>4
  <2>2. opened' = "yes" => n + 1 \in 1 .. cfg.attempts
    BY <1>1
  <2>3. opened' = "no" => n + 1 = cfg.attempts \/ p = Gate!Amiss
    BY <1>2, <1>4
  <2>4. probed' # <<>>
    BY <1>4
  <2> QED  BY <1>4, <1>5, <2>1, <2>2, <2>3, <2>4 DEF Gate!PassesInARow
<1>12. opened' = "waiting" => t < need /\ n + 1 < cfg.attempts
  BY <1>1, <1>2, <1>4, <1>8
<1>13. StreakInv'
  <2>1. streak' \in 0 .. Len(probed') /\ n + 1 = Len(probed') /\ streak' = t
    BY <1>4, <1>8
  <2>2. \A i \in Len(probed') - streak' + 1 .. Len(probed') : probed'[i] = cfg'.expected
    <3>1. Len(probed') - streak' + 1 .. Len(probed') = n + 1 - t + 1 .. n + 1
      BY <2>1
    <3> QED  BY <1>5, <1>8, <3>1
  <2>3. streak' < Len(probed') => probed'[Len(probed') - streak'] # cfg'.expected
    BY <1>5, <1>8, <2>1
  <2> QED  BY <2>1, <2>2, <2>3 DEF StreakInv
<1> QED  BY <1>1, <1>4, <1>5, <1>8, <1>11, <1>12, <1>13 DEF GateInv

LEMMA GateStep ==
  ASSUME Gate!GateAssumption PROVE GateInv /\ [Gate!Next]_Gate!vars => GateInv'
<1>1. GateInv /\ UNCHANGED Gate!vars => GateInv'
  BY DEF GateInv, StreakInv, Gate!vars, Gate!given, Gate!Counts, Gate!Refused, Gate!PassesInARow, Gate!InARow
<1>2. GateInv /\ Gate!Interrupt => GateInv'
  BY DEF GateInv, StreakInv, Gate!Interrupt, Gate!given, Gate!Counts, Gate!Refused, Gate!PassesInARow, Gate!InARow
<1> QED  BY <1>1, <1>2, GateRefuse, GateProbe DEF Gate!Next

(* lib/healthcheck.rhai: with any limits and against any answers, a gate opens
   at the first moment it has seen as many good probes in a row as it was asked
   for, and one that does not has used up its attempts.                      *)
LEMMA GateHolds == ASSUME Gate!GateAssumption PROVE Gate!Spec => []Gate!PassesInARow
<1>1. GateInv => Gate!PassesInARow
  BY DEF GateInv
<1> QED  BY <1>1, GateInit, GateStep, PTL DEF Gate!Spec
-----------------------------------------------------------------------------
(* --------------------------- ssh connections ---------------------------- *)
(* A master is logged in where the alias that made it points, on a host that
   was let in; it listens only where sockets are shared.                     *)
LetIn(e) == e \in trusted \/ policy \in {"accept-new", "no", "off"}
MasterInv(m) ==
  \E a \in DOMAIN Aliases : /\ m.socket = Ssh!Socket(a) /\ m.account = Aliases[a]
                            /\ LetIn(Ssh!Endpoint(a))
SshInv ==
  /\ \A e \in known : LetIn(e)
  /\ \A m \in masters : MasterInv(m)
  /\ Ssh!RightMachine

LEMMA SshInit == Ssh!Init => SshInv
  BY DEF Ssh!Init, SshInv, LetIn, Ssh!RightMachine

(* One socket is one account, or one host where an override says so.         *)
LEMMA OneAccount ==
  ASSUME NEW a, NEW b, Ssh!Shares, Ssh!Socket(a) = Ssh!Socket(b)
  PROVE  /\ Aliases[a].host = Aliases[b].host
         /\ path # "%h" => Aliases[a] = Aliases[b]
<1>1. Ssh!control_path_template \in {"%C", "%h"}
  BY DEF Ssh!Shares, Ssh!control_path_template
<1>2. Ssh!control_path_template = "%h" => path = "%h"
  BY DEF Ssh!control_path_template
<1>3. CASE Ssh!control_path_template = "%C"
  <2>1. <<Aliases[a]>> = <<Aliases[b]>>
    BY <1>3 DEF Ssh!Socket
  <2>2. Aliases[a] = Aliases[b]
    BY <2>1
  <2> QED  BY <2>2
<1>4. CASE Ssh!control_path_template = "%h"
  <2>1. <<Aliases[a].host>> = <<Aliases[b].host>>
    BY <1>4 DEF Ssh!Socket
  <2> QED  BY <1>2, <1>4, <2>1
<1> QED  BY <1>1, <1>3, <1>4

LEMMA SshSame ==
  ASSUME UNCHANGED Ssh!settings
  PROVE  /\ \A e : LetIn(e)' <=> LetIn(e)
         /\ \A m : MasterInv(m)' <=> MasterInv(m)
  BY DEF Ssh!settings, LetIn, MasterInv, Ssh!Socket, Ssh!control_path_template, Ssh!Endpoint

LEMMA SshAttach ==
  ASSUME SshInv, NEW a \in DOMAIN Aliases, Ssh!Attach(a) PROVE SshInv'
<1>1. UNCHANGED Ssh!settings /\ UNCHANGED <<known, masters>>
  BY DEF Ssh!Attach
<1>2. PICK m \in masters : /\ Ssh!Shares /\ m.socket = Ssh!Socket(a)
                           /\ last' = [alias |-> a, account |-> m.account]
  BY DEF Ssh!Attach, Ssh!Master, Ssh!Ran
<1>3. PICK b \in DOMAIN Aliases : /\ m.socket = Ssh!Socket(b) /\ m.account = Aliases[b]
                                  /\ LetIn(Ssh!Endpoint(b))
  BY DEF SshInv, MasterInv
<1>4. Aliases[b].host = Aliases[a].host /\ (path # "%h" => Aliases[b] = Aliases[a])
  BY <1>2, <1>3, OneAccount
<1>5. path # "%h" => LetIn(Ssh!Endpoint(a))
  BY <1>3, <1>4 DEF Ssh!Endpoint
<1>6. last'.alias = a /\ last'.account = Aliases[b]
  BY <1>2, <1>3
<1>7. Ssh!RightMachine'
  BY <1>1, <1>4, <1>5, <1>6 DEF Ssh!RightMachine, LetIn, Ssh!settings, Ssh!Endpoint
<1> QED  BY <1>1, <1>7, SshSame DEF SshInv

LEMMA SshConnect ==
  ASSUME SshInv, NEW a \in DOMAIN Aliases, Ssh!Connect(a) PROVE SshInv'
<1>1. UNCHANGED Ssh!settings
  BY DEF Ssh!Connect
<1>2. CASE Ssh!Welcome(a)
  <2>1. LetIn(Ssh!Endpoint(a))
    BY <1>2 DEF Ssh!Welcome, Ssh!host_key_checking, LetIn, SshInv
  <2>2. /\ last'.alias = a /\ last'.account = Aliases[a]
        /\ known' = known \cup {Ssh!Endpoint(a)}
        /\ masters' \subseteq masters \cup {[socket |-> Ssh!Socket(a), account |-> Aliases[a]]}
    BY <1>2 DEF Ssh!Connect, Ssh!Ran
  <2>3. MasterInv([socket |-> Ssh!Socket(a), account |-> Aliases[a]])
    BY <2>1 DEF MasterInv
  <2>4. Ssh!RightMachine'
    BY <1>1, <2>1, <2>2 DEF Ssh!RightMachine, LetIn, Ssh!settings, Ssh!Endpoint
  <2> QED  BY <1>1, <2>1, <2>2, <2>3, <2>4, SshSame DEF SshInv
<1>3. CASE ~Ssh!Welcome(a)
  <2>1. last'.account = Ssh!Nowhere /\ UNCHANGED <<known, masters>>
    BY <1>3 DEF Ssh!Connect, Ssh!Ran
  <2> QED  BY <1>1, <2>1, SshSame DEF SshInv, Ssh!RightMachine, Ssh!Nowhere
<1> QED  BY <1>2, <1>3

LEMMA SshStep == SshInv /\ [Ssh!Next]_Ssh!vars => SshInv'
<1> SUFFICES ASSUME SshInv, [Ssh!Next]_Ssh!vars PROVE SshInv'
  OBVIOUS
<1>1. CASE UNCHANGED Ssh!vars
  <2>1. UNCHANGED Ssh!settings /\ UNCHANGED <<known, masters, last>>
    BY <1>1 DEF Ssh!vars
  <2> QED  BY <2>1, SshSame DEF SshInv, Ssh!RightMachine, Ssh!settings, Ssh!Endpoint, Ssh!Nowhere
<1>2. CASE Ssh!looks_like_option
  <2>1. last'.account = Ssh!Nowhere /\ UNCHANGED Ssh!settings /\ UNCHANGED <<known, masters>>
    BY <1>2 DEF Ssh!looks_like_option, Ssh!Ran
  <2> QED  BY <2>1, SshSame DEF SshInv, Ssh!RightMachine, Ssh!Nowhere
<1>3. CASE Ssh!Expire
  <2>1. /\ masters' \subseteq masters /\ UNCHANGED Ssh!settings /\ UNCHANGED <<known, last>>
    BY <1>3 DEF Ssh!Expire
  <2> QED  BY <2>1, SshSame DEF SshInv, Ssh!RightMachine, Ssh!settings, Ssh!Endpoint, Ssh!Nowhere
<1>4. CASE \E a \in DOMAIN Aliases : Ssh!Attach(a) \/ Ssh!Connect(a)
  BY <1>4, SshAttach, SshConnect
<1> QED  BY <1>1, <1>2, <1>3, <1>4 DEF Ssh!Next

(* runner.rs: for any aliases, settings and number of commands, a command that
   runs runs on the host of its alias, as its account unless an override names
   sockets by host alone, and on an unknown host only if the policy says so.  *)
LEMMA SshHolds == Ssh!Spec => []Ssh!RightMachine
<1>1. SshInv => Ssh!RightMachine
  BY DEF SshInv
<1> QED  BY <1>1, SshInit, SshStep, PTL DEF Ssh!Spec
-----------------------------------------------------------------------------
(* ------------------------ The routes of a Caddy ------------------------- *)
Routed == [match : Domains \cup {None}, to : Upstreams \cup {Proxy!Suspended}]
Nodes  == [id : Services, match : Domains \cup {None}, to : Upstreams \cup {Proxy!Suspended}]
Asked  == [what : {"deploy", "set_tls", "resume", "boot", "stop", "remove", "suspend"},
           to : Upstreams \cup {None, Proxy!Suspended}, domain : Domains \cup {None}]

(* The route of s in a list, and what the script of s may believe it is.     *)
Route(list, i) == [match |-> list[i].match, to |-> list[i].to]
Believed(list, s, beliefs) ==
  /\ (\A i \in 1 .. Len(list) : list[i].id # s) => None \in beliefs
  /\ \A i \in 1 .. Len(list) : list[i].id = s => Route(list, i) \in beliefs
Apart(list) == \A i, j \in 1 .. Len(list) : list[i].id = list[j].id => i = j
(* The script of s is in a call that its step belongs to; it adds a route only
   where there is none.                                                      *)
StageInv(s) ==
  /\ stage[s] # "idle" => call[s] \in Proxy!Calls /\ (call[s].what = "resume" => call[s].to # None)
  /\ stage[s] \in {"send", "create"} => call[s].what \notin {"boot", "stop"}
  /\ stage[s] = "create" =>
       call[s].what = "deploy" /\ \A i \in 1 .. Len(saved.routes) : saved.routes[i].id # s
  /\ stage[s] = "stop" => call[s].what = "stop"
  /\ stage[s] \in {"look", "clear", "run", "enforce"} => call[s].what = "boot"
ProxyInv ==
  /\ saved \in [routes : Seq(Nodes), listen : {"https", "http"}]
  /\ Apart(saved.routes)
  /\ stage = [s \in Services |-> stage[s]] /\ call = [s \in Services |-> call[s]]
  /\ claims = [s \in Services |-> claims[s]]
  /\ \A s \in Services : StageInv(s) /\ Believed(saved.routes, s, claims[s])
  /\ secured => saved.listen = "https"

(* What becomes of the routes in a list of which one is dropped, replaced or added:
   those of the other services stay as they are.                             *)
Swapped(list, i, node, new) == new = [list EXCEPT ![i] = node]
Added(list, node, new) == new = Append(list, node)
Stay(list, new, s) == \A q : q # s =>
  /\ (\A j \in 1 .. Len(list) : list[j].id # q) => \A j \in 1 .. Len(new) : new[j].id # q
  /\ \A b : Believed(list, q, b) => Believed(new, q, b)

LEMMA DropNode ==
  ASSUME NEW list \in Seq(Nodes), Apart(list), NEW i \in 1 .. Len(list),
         NEW new, new = Proxy!RemoveAt(list, i)
  PROVE  /\ new \in Seq(Nodes) /\ Apart(new)
         /\ \A j \in 1 .. Len(new) : new[j].id # list[i].id
         /\ Stay(list, new, list[i].id)
<1>1. PICK n \in Nat : n = Len(list) /\ i \in 1 .. n
  OBVIOUS
<1> DEFINE front == SubSeq(list, 1, i - 1)
           back  == SubSeq(list, i + 1, n)
<1>2. /\ front \in Seq(Nodes) /\ Len(front) = i - 1 /\ \A j \in 1 .. i - 1 : front[j] = list[j]
      /\ back \in Seq(Nodes) /\ Len(back) = n - i /\ \A j \in 1 .. n - i : back[j] = list[j + i]
  BY <1>1
<1>3. new = front \o back
  BY <1>1 DEF Proxy!RemoveAt
<1> HIDE DEF front, back
<1>4. /\ new \in Seq(Nodes) /\ Len(new) = n - 1
      /\ \A j \in 1 .. n - 1 : new[j] = IF j < i THEN list[j] ELSE list[j + 1]
  <2>1. /\ front \o back \in Seq(Nodes) /\ Len(front \o back) = Len(front) + Len(back)
        /\ \A j \in 1 .. Len(front) + Len(back) :
             (front \o back)[j] = IF j <= Len(front) THEN front[j] ELSE back[j - Len(front)]
    BY <1>2, ConcatProperties
  <2>2. Len(front) + Len(back) = n - 1
    BY <1>1, <1>2
  <2>3. ASSUME NEW j \in 1 .. n - 1 PROVE new[j] = IF j < i THEN list[j] ELSE list[j + 1]
    <3>0. new[j] = IF j <= Len(front) THEN front[j] ELSE back[j - Len(front)]
      BY <1>3, <2>1, <2>2
    <3>1. CASE j < i
      <4>1. j \in 1 .. i - 1 /\ j <= Len(front)
        BY <1>1, <1>2, <3>1
      <4> QED  BY <1>2, <3>0, <3>1, <4>1
    <3>2. CASE j >= i
      <4>1. j - (i - 1) \in 1 .. n - i /\ (j - (i - 1)) + i = j + 1 /\ ~(j <= i - 1) /\ ~(j < i)
        BY <1>1, <3>2
      <4>2. back[j - (i - 1)] = list[(j - (i - 1)) + i]
        BY <1>2, <4>1
      <4> QED  BY <1>2, <3>0, <4>1, <4>2
    <3> QED  BY <1>1, <3>1, <3>2
  <2> QED  BY <1>1, <1>3, <2>1, <2>2, <2>3
<1>5. Apart(new)
  BY <1>1, <1>4, SMTT(30) DEF Apart
<1>6. \A j \in 1 .. Len(new) : new[j].id # list[i].id
  BY <1>1, <1>4 DEF Apart
<1>7. \A j \in 1 .. n : j # i => \E m \in 1 .. n - 1 : new[m] = list[j]
  <2> SUFFICES ASSUME NEW j \in 1 .. n, j # i PROVE \E m \in 1 .. n - 1 : new[m] = list[j]
    OBVIOUS
  <2>1. CASE j < i
    BY <1>1, <1>4, <2>1
  <2>2. CASE j > i
    <3>1. j - 1 \in 1 .. n - 1 /\ new[j - 1] = list[j]
      BY <1>1, <1>4, <2>2
    <3> QED  BY <3>1
  <2> QED  BY <1>1, <2>1, <2>2
<1>8. \A m \in 1 .. n - 1 : \E j \in 1 .. n : new[m] = list[j]
  BY <1>1, <1>4
<1>9. ASSUME NEW q, q # list[i].id
      PROVE  /\ (\A j \in 1 .. Len(list) : list[j].id # q) => \A j \in 1 .. Len(new) : new[j].id # q
             /\ \A b : Believed(list, q, b) => Believed(new, q, b)
  <2>1. (\A j \in 1 .. Len(list) : list[j].id # q) => \A j \in 1 .. Len(new) : new[j].id # q
    BY <1>1, <1>4, <1>8
  <2>2. (\A j \in 1 .. Len(new) : new[j].id # q) => \A j \in 1 .. Len(list) : list[j].id # q
    BY <1>1, <1>4, <1>7, <1>9, ZenonT(40)
  <2>3. \A j \in 1 .. Len(new) : \E m \in 1 .. Len(list) : new[j].id = list[m].id /\ Route(new, j) = Route(list, m)
    BY <1>1, <1>4, <1>8 DEF Route
  <2> QED  BY <2>1, <2>2, <2>3 DEF Believed
<1> QED  BY <1>4, <1>5, <1>6, <1>9 DEF Stay

LEMMA PutNode ==
  ASSUME NEW list \in Seq(Nodes), Apart(list), NEW i \in 1 .. Len(list),
         NEW node \in Nodes, node.id = list[i].id, NEW new, Swapped(list, i, node, new)
  PROVE  /\ new \in Seq(Nodes) /\ Apart(new) /\ Route(new, i) = [match |-> node.match, to |-> node.to]
         /\ i \in 1 .. Len(new) /\ new[i].id = node.id
         /\ Stay(list, new, node.id)
<1>1. /\ new \in Seq(Nodes) /\ Len(new) = Len(list)
      /\ \A j \in 1 .. Len(list) : new[j] = IF j = i THEN node ELSE list[j]
  BY ExceptSeq DEF Swapped
<1>2. Apart(new) /\ Route(new, i) = [match |-> node.match, to |-> node.to] /\ new[i].id = node.id
  BY <1>1 DEF Apart, Route
<1>3. ASSUME NEW q, q # node.id
      PROVE  /\ (\A j \in 1 .. Len(list) : list[j].id # q) => \A j \in 1 .. Len(new) : new[j].id # q
             /\ \A b : Believed(list, q, b) => Believed(new, q, b)
  <2>1. \A j \in 1 .. Len(list) : new[j].id = list[j].id
    BY <1>1
  <2>2. \A j \in 1 .. Len(list) : new[j].id = q => Route(new, j) = Route(list, j)
    BY <1>1, <1>3, <2>1 DEF Route
  <2> QED  BY <1>1, <2>1, <2>2 DEF Believed
<1> QED  BY <1>1, <1>2, <1>3 DEF Stay

LEMMA AddNode ==
  ASSUME NEW list \in Seq(Nodes), Apart(list), NEW node \in Nodes,
         \A j \in 1 .. Len(list) : list[j].id # node.id, NEW new, Added(list, node, new)
  PROVE  /\ new \in Seq(Nodes) /\ Apart(new)
         /\ \A j \in 1 .. Len(new) : new[j].id = node.id => Route(new, j) = [match |-> node.match, to |-> node.to]
         /\ \E j \in 1 .. Len(new) : new[j].id = node.id
         /\ Stay(list, new, node.id)
<1>1. PICK n \in Nat : n = Len(list)
  OBVIOUS
<1>2. /\ new \in Seq(Nodes) /\ Len(new) = n + 1 /\ new[n + 1] = node
      /\ \A j \in 1 .. n : new[j] = list[j]
  BY <1>1 DEF Added
<1>3. \A j \in 1 .. n + 1 : j \in 1 .. n \/ j = n + 1
  BY <1>1
<1>4. Apart(new)
  BY <1>1, <1>2, <1>3 DEF Apart
<1>5. \A j \in 1 .. Len(new) : new[j].id = node.id => Route(new, j) = [match |-> node.match, to |-> node.to]
  BY <1>1, <1>2, <1>3 DEF Route
<1>6. \E j \in 1 .. Len(new) : new[j].id = node.id
  <2>1. n + 1 \in 1 .. Len(new)
    BY <1>2
  <2> QED  BY <1>2, <2>1
<1>7. ASSUME NEW q, q # node.id
      PROVE  /\ (\A j \in 1 .. Len(list) : list[j].id # q) => \A j \in 1 .. Len(new) : new[j].id # q
             /\ \A b : Believed(list, q, b) => Believed(new, q, b)
  <2>1. \A j \in 1 .. n : new[j].id = list[j].id /\ Route(new, j) = Route(list, j)
    BY <1>2 DEF Route
  <2>2. \A j \in 1 .. n : j \in 1 .. Len(new)
    BY <1>2
  <2> QED  BY <1>1, <1>2, <1>3, <1>7, <2>1, <2>2 DEF Believed
<1> QED  BY <1>2, <1>4, <1>5, <1>6, <1>7 DEF Stay

Needs(c) == c.what \in {"set_tls", "suspend", "resume"}
Others(s) == \A q \in Services \ {s} :
  /\ (\A i \in 1 .. Len(saved.routes) : saved.routes[i].id # q)
       => \A i \in 1 .. Len(saved'.routes) : saved'.routes[i].id # q
  /\ \A b : Believed(saved.routes, q, b) => Believed(saved'.routes, q, b)

LEMMA ReportTells ==
  ASSUME ProxyInv, NEW s \in Services, NEW ok \in BOOLEAN, Proxy!Report(s, ok)
  PROVE  /\ claims' = [q \in Services |-> claims'[q]]
         /\ \A q \in Services \ {s} : claims'[q] = claims[q] /\ stage'[q] = stage[q] /\ call'[q] = call[q]
         /\ stage' = [q \in Services |-> stage'[q]] /\ call' = [q \in Services |-> call'[q]]
         /\ stage'[s] = "idle"
         /\ secured' => secured \/ (ok /\ call[s].what = "boot")
         /\ ~ok => claims[s] \subseteq claims'[s]
         /\ \A b \in claims[s] :
              (ok /\ Needs(call[s]) => b # None) => Proxy!Made(call[s], b) \in claims'[s]
<1>1. /\ claims = [q \in Services |-> claims[q]] /\ stage = [q \in Services |-> stage[q]]
      /\ call = [q \in Services |-> call[q]]
  BY DEF ProxyInv
<1>2. PICK after :
        /\ claims' = [claims EXCEPT ![s] = IF ok THEN after ELSE @ \cup after]
        /\ after = {Proxy!Made(call[s], r) : r \in IF ok /\ Needs(call[s]) THEN claims[s] \ {None} ELSE claims[s]}
  BY DEF Proxy!Report, Needs
<1>3. \A b \in claims[s] :
        (ok /\ Needs(call[s]) => b # None) => Proxy!Made(call[s], b) \in after
  BY <1>2
<1>4. claims'[s] = IF ok THEN after ELSE claims[s] \cup after
  BY <1>1, <1>2
<1>5. claims' = [q \in Services |-> claims'[q]] /\ \A q \in Services \ {s} : claims'[q] = claims[q]
  BY <1>1, <1>2
<1>6. stage' = [stage EXCEPT ![s] = "idle"] /\ call' = [call EXCEPT ![s] = None]
  BY DEF Proxy!Report
<1>7. secured' => secured \/ (ok /\ call[s].what = "boot")
  BY DEF Proxy!Report
<1> QED  BY <1>1, <1>3, <1>4, <1>5, <1>6, <1>7

LEMMA ProxyReport ==
  ASSUME ProxyInv, NEW s \in Services, NEW ok \in BOOLEAN, Proxy!Report(s, ok), Others(s),
         saved' \in [routes : Seq(Nodes), listen : {"https", "http"}], Apart(saved'.routes),
         Believed(saved'.routes, s, claims'[s]),
         secured \/ (ok /\ call[s].what = "boot") => saved'.listen = "https"
  PROVE  ProxyInv'
<1>1. /\ claims' = [q \in Services |-> claims'[q]]
      /\ \A q \in Services \ {s} : claims'[q] = claims[q] /\ stage'[q] = stage[q] /\ call'[q] = call[q]
      /\ stage' = [q \in Services |-> stage'[q]] /\ call' = [q \in Services |-> call'[q]]
      /\ stage'[s] = "idle"
      /\ secured' => secured \/ (ok /\ call[s].what = "boot")
  BY ReportTells
<1>2. ASSUME NEW q \in Services PROVE StageInv(q)' /\ Believed(saved'.routes, q, claims'[q])
  <2>1. CASE q = s
    BY <1>1, <2>1 DEF StageInv
  <2>2. CASE q # s
    <3>1. StageInv(q) /\ Believed(saved.routes, q, claims[q])
      BY DEF ProxyInv
    <3>2. Believed(saved'.routes, q, claims'[q])
      BY <1>1, <2>2, <3>1 DEF Others
    <3> QED  BY <1>1, <2>2, <3>1, <3>2 DEF StageInv, Others, Proxy!Calls
  <2> QED  BY <2>1, <2>2
<1>3. ASSUME NEW q \in Services PROVE Believed(saved.routes, q, claims[q])'
  BY <1>2 DEF Believed, Route
<1>4. Apart(saved.routes)'
  BY DEF Apart
<1> QED  BY <1>1, <1>2, <1>3, <1>4 DEF ProxyInv

(* A call that ends without a change of a route, and was not told of one.     *)
LEMMA ProxyNothing ==
  ASSUME ProxyInv, NEW s \in Services, NEW ok \in BOOLEAN, Proxy!Report(s, ok),
         saved' \in [routes : Seq(Nodes), listen : {"https", "http"}], saved'.routes = saved.routes,
         secured \/ (ok /\ call[s].what = "boot") => saved'.listen = "https",
         \/ ~ok \/ call[s].what \in {"boot", "stop"}
         \/ /\ call[s].what = "remove" /\ \A i \in 1 .. Len(saved.routes) : saved.routes[i].id # s
  PROVE  ProxyInv'
<1>1. Believed(saved.routes, s, claims[s]) /\ Apart(saved.routes)
  BY DEF ProxyInv
<1>2. Believed(saved.routes, s, claims'[s])
  <2>1. CASE ~ok
    BY <1>1, <2>1, ReportTells DEF Believed
  <2>2. CASE call[s].what \in {"boot", "stop"}
    <3>1. \A b \in claims[s] : Proxy!Made(call[s], b) = b
      BY <2>2 DEF Proxy!Made
    <3>2. \A b \in claims[s] : b \in claims'[s]
      BY <2>2, <3>1, ReportTells DEF Needs
    <3> QED  BY <1>1, <3>2 DEF Believed
  <2>3. CASE call[s].what = "remove" /\ \A i \in 1 .. Len(saved.routes) : saved.routes[i].id # s
    <3>1. None \in claims[s] /\ Proxy!Made(call[s], None) = None
      BY <1>1, <2>3 DEF Believed, Proxy!Made
    <3>2. None \in claims'[s]
      BY <2>3, <3>1, ReportTells DEF Needs
    <3> QED  BY <2>3, <3>2 DEF Believed
  <2> QED  BY <2>1, <2>2, <2>3
<1>3. Others(s)
  BY DEF Others
<1> QED  BY <1>1, <1>2, <1>3, ProxyReport

LEMMA ProxyGo ==
  ASSUME ProxyInv, NEW s \in Services, NEW go, Proxy!GoTo(s, go), saved' = saved,
         stage[s] # "idle", go \notin {"send", "stop"},
         go \in {"look", "clear", "run", "enforce"} => call[s].what = "boot",
         go = "create" =>
           call[s].what = "deploy" /\ \A i \in 1 .. Len(saved.routes) : saved.routes[i].id # s
  PROVE  ProxyInv'
<1>1. /\ stage' = [stage EXCEPT ![s] = go] /\ call' = call /\ claims' = claims /\ secured' = secured
      /\ stage = [q \in Services |-> stage[q]]
  BY DEF Proxy!GoTo, ProxyInv
<1>2. stage' = [q \in Services |-> stage'[q]] /\ \A q \in Services : stage'[q] = IF q = s THEN go ELSE stage[q]
  BY <1>1
<1>3. ASSUME NEW q \in Services PROVE StageInv(q)'
  <2>1. StageInv(q)
    BY DEF ProxyInv
  <2> QED  BY <1>1, <1>2, <2>1 DEF StageInv, Proxy!Calls
<1>4. ASSUME NEW q \in Services PROVE Believed(saved.routes, q, claims[q])'
  <2>1. Believed(saved.routes, q, claims[q])
    BY DEF ProxyInv
  <2> QED  BY <1>1, <2>1 DEF Believed, Route
<1> QED  BY <1>1, <1>2, <1>3, <1>4 DEF ProxyInv, Apart

LEMMA ProxyBegin == ASSUME ProxyInv, NEW s \in Services, Proxy!Begin(s) PROVE ProxyInv'
<1>1. PICK c \in Proxy!Calls :
        /\ call' = [call EXCEPT ![s] = c] /\ stage' = [stage EXCEPT ![s] = Proxy!FirstStep(c)]
        /\ UNCHANGED <<saved, claims, secured>>
        /\ c.what = "resume" => c.to # None
  BY DEF Proxy!Begin
<1>2. /\ stage = [q \in Services |-> stage[q]] /\ call = [q \in Services |-> call[q]]
      /\ stage' = [q \in Services |-> stage'[q]] /\ call' = [q \in Services |-> call'[q]]
      /\ \A q \in Services : /\ stage'[q] = IF q = s THEN Proxy!FirstStep(c) ELSE stage[q]
                             /\ call'[q] = IF q = s THEN c ELSE call[q]
  BY <1>1 DEF ProxyInv
<1>3. ASSUME NEW q \in Services PROVE StageInv(q)'
  <2>1. StageInv(q)
    BY DEF ProxyInv
  <2> QED  BY <1>1, <1>2, <2>1 DEF StageInv, Proxy!FirstStep, Proxy!Calls
<1>4. ASSUME NEW q \in Services PROVE Believed(saved.routes, q, claims[q])'
  <2>1. Believed(saved.routes, q, claims[q])
    BY DEF ProxyInv
  <2> QED  BY <1>1, <2>1 DEF Believed, Route
<1> QED  BY <1>1, <1>2, <1>3, <1>4 DEF ProxyInv, Apart

(* Nothing moved but the container.                                          *)
LEMMA ProxyStill ==
  ASSUME ProxyInv, UNCHANGED <<saved, stage, call, claims, secured>> PROVE ProxyInv'
<1>1. ASSUME NEW q \in Services PROVE StageInv(q)' /\ Believed(saved.routes, q, claims[q])'
  <2>1. StageInv(q) /\ Believed(saved.routes, q, claims[q])
    BY DEF ProxyInv
  <2> QED  BY <2>1 DEF StageInv, Believed, Route, Proxy!Calls
<1> QED  BY <1>1 DEF ProxyInv, Apart

LEMMA ProxyBoot ==
  ASSUME Proxy!CaddyAssumption, ProxyInv, NEW s \in Services,
         \/ Proxy!Look(s) \/ Proxy!Clear(s) \/ Proxy!RunCaddy(s)
         \/ Proxy!enforce_https_listener(s) \/ Proxy!proxy_stop(s)
  PROVE  ProxyInv'
<1>1. saved \in [routes : Seq(Nodes), listen : {"https", "http"}] /\ (secured => saved.listen = "https") /\ StageInv(s)
  BY DEF ProxyInv
<1>2. CASE saved' = saved /\ Proxy!Report(s, FALSE)
  BY <1>1, <1>2, ProxyNothing
<1>3. ASSUME NEW go \in {"enforce", "clear", "run"}, stage[s] \in {"look", "clear", "run"}, saved' = saved, Proxy!GoTo(s, go)
      PROVE  ProxyInv'
  BY <1>1, <1>3, ProxyGo DEF StageInv
<1>4. ASSUME NEW ok \in BOOLEAN, stage[s] = "stop", saved' = saved, Proxy!Report(s, ok) PROVE ProxyInv'
  BY <1>1, <1>4, ProxyNothing DEF StageInv
<1>5. ASSUME NEW ok \in BOOLEAN, stage[s] = "enforce", Proxy!Report(s, ok),
             saved' = [saved EXCEPT !.listen = "https"]
      PROVE  ProxyInv'
  <2>1. /\ saved' \in [routes : Seq(Nodes), listen : {"https", "http"}]
        /\ saved'.routes = saved.routes /\ saved'.listen = "https"
    BY <1>1, <1>5
  <2>2. call[s].what = "boot"
    BY <1>1, <1>5 DEF StageInv
  <2> QED  BY <1>5, <2>1, <2>2, ProxyNothing
<1> QED  BY <1>2, <1>3, <1>4, <1>5 DEF Proxy!Look, Proxy!Clear, Proxy!RunCaddy, Proxy!Resumed,
         Proxy!enforce_https_listener, Proxy!proxy_stop

(* A request that changed the one route of s, with the answer lost or not.    *)
LEMMA ProxyRewritten ==
  ASSUME Proxy!CaddyAssumption, ProxyInv, NEW s \in Services, NEW ok \in BOOLEAN, stage[s] = "send",
         Proxy!RoutesOf(s) # {}, saved' = Proxy!Rewritten(s), Proxy!Report(s, ok)
  PROVE  ProxyInv'
<1> DEFINE list == saved.routes
           c    == call[s]
<1>1. /\ saved \in [routes : Seq(Nodes), listen : {"https", "http"}] /\ list \in Seq(Nodes)
      /\ Apart(list) /\ StageInv(s) /\ Believed(list, s, claims[s]) /\ (secured => saved.listen = "https")
  BY DEF ProxyInv
<1>2. PICK i \in 1 .. Len(list) : list[i].id = s /\ i = CHOOSE j \in Proxy!RoutesOf(s) : TRUE
  BY <1>1 DEF Proxy!RoutesOf
<1>3. Route(list, i) \in claims[s] /\ Route(list, i) \in Routed /\ Route(list, i) # None
  <2>1. list[i] \in Nodes
    BY <1>1
  <2>2. Route(list, i) \in Routed
    BY <2>1 DEF Route, Routed, Nodes
  <2>3. Route(list, i) \in claims[s]
    BY <1>1, <1>2 DEF Believed
  <2>4. None \notin Routed
    BY DEF Routed, Proxy!CaddyAssumption
  <2> QED  BY <2>2, <2>3, <2>4
<1>4. c \in Proxy!Calls /\ (c.what = "resume" => c.to # None) /\ c.what \notin {"boot", "stop"}
  BY <1>1 DEF StageInv
<1>5. Proxy!Made(c, Route(list, i)) \in claims'[s]
  BY <1>3, ReportTells
<1>6. PICK new :
        /\ saved' = [saved EXCEPT !.routes = new]
        /\ new = IF c.what = "remove" THEN Proxy!RemoveAt(list, i)
                 ELSE [list EXCEPT ![i] = [id |-> s, match |-> Proxy!Made(c, Route(list, i)).match,
                                           to |-> Proxy!Made(c, Route(list, i)).to]]
  BY <1>2 DEF Proxy!Rewritten, Route
<1>7. /\ new \in Seq(Nodes) => saved' \in [routes : Seq(Nodes), listen : {"https", "http"}]
      /\ saved'.routes = new /\ saved'.listen = saved.listen
  BY <1>1, <1>6
<1>8. /\ new \in Seq(Nodes) /\ Apart(new) /\ Believed(new, s, claims'[s])
      /\ Stay(list, new, s)
  <2>1. CASE c.what = "remove"
    <3>1. Proxy!Made(c, Route(list, i)) = None
      BY <2>1 DEF Proxy!Made
    <3>2. new = Proxy!RemoveAt(list, i)
      BY <1>6, <2>1
    <3> HIDE DEF list, c
    <3>0. list[i].id = s
      BY <1>2
    <3>3. /\ new \in Seq(Nodes) /\ Apart(new)
          /\ \A j \in 1 .. Len(new) : new[j].id # s
          /\ Stay(list, new, s)
      BY <1>1, <3>0, <3>2, DropNode
    <3> QED  BY <1>5, <3>1, <3>3 DEF Believed
  <2>2. CASE c.what # "remove"
    <3>1. PICK made : made = Proxy!Made(c, Route(list, i))
      OBVIOUS
    <3>2. made \in Routed
      <4>1. CASE c.what = "deploy"
        BY <1>4, <3>1, <4>1 DEF Proxy!Made, Proxy!Calls, Proxy!Call, Routed
      <4>2. CASE c.what = "set_tls"
        BY <1>3, <1>4, <3>1, <4>2 DEF Proxy!Made, Proxy!Calls, Proxy!Call, Routed
      <4>3. CASE c.what \in {"suspend", "resume"}
        <5>1. c.to \in Upstreams \cup {Proxy!Suspended}
          BY <1>4, <4>3 DEF Proxy!Calls, Proxy!Call
        <5> QED  BY <1>3, <3>1, <4>3, <5>1 DEF Proxy!Made, Routed
      <4>4. c.what \in {"deploy", "set_tls", "suspend", "resume", "remove"}
        BY <1>4 DEF Proxy!Calls, Proxy!Call
      <4> QED  BY <2>2, <4>1, <4>2, <4>3, <4>4
    <3>3. PICK node \in Nodes : /\ node = [id |-> s, match |-> made.match, to |-> made.to]
                              /\ node.id = s /\ [match |-> node.match, to |-> node.to] = made
      <4>1. /\ made.match \in Domains \cup {None} /\ made.to \in Upstreams \cup {Proxy!Suspended}
            /\ made = [match |-> made.match, to |-> made.to]
        BY <3>2 DEF Routed
      <4>2. [id |-> s, match |-> made.match, to |-> made.to] \in Nodes
        BY <4>1 DEF Nodes
      <4> QED  BY <4>1, <4>2
    <3>4. Swapped(list, i, node, new)
      BY <1>6, <2>2, <3>1, <3>3 DEF Swapped
    <3> HIDE DEF list, c
    <3>0. list[i].id = s
      BY <1>2
    <3>5. /\ new \in Seq(Nodes) /\ Apart(new) /\ Route(new, i) = made
          /\ i \in 1 .. Len(new) /\ new[i].id = s
          /\ Stay(list, new, s)
      <4>1. node.id = list[i].id /\ [match |-> node.match, to |-> node.to] = made
        BY <3>0, <3>3
      <4> QED  BY <1>1, <3>0, <3>3, <3>4, <4>1, PutNode
    <3>6. Believed(new, s, claims'[s])
      <4>1. \A j \in 1 .. Len(new) : new[j].id = s => j = i
        BY <3>5 DEF Apart
      <4> QED  BY <1>5, <3>1, <3>5, <4>1 DEF Believed
    <3> QED  BY <3>5, <3>6
  <2> QED  BY <2>1, <2>2
<1>9. Others(s)
  BY <1>7, <1>8 DEF Others, Stay
<1>10. secured \/ (ok /\ call[s].what = "boot") => saved'.listen = "https"
  BY <1>1, <1>4, <1>7
<1> QED  BY <1>7, <1>8, <1>9, <1>10, ProxyReport

LEMMA ProxySend ==
  ASSUME Proxy!CaddyAssumption, ProxyInv, NEW s \in Services, Proxy!Send(s) PROVE ProxyInv'
<1>1. PICK a \in Proxy!Answers(s) :
        /\ saved' = IF a.changed THEN Proxy!Rewritten(s) ELSE saved
        /\ IF call[s].what = "deploy" /\ Proxy!NotThere(a.status) THEN Proxy!GoTo(s, "create")
           ELSE Proxy!Report(s, a.status = "2xx" \/ (call[s].what = "remove" /\ a.status = "404"))
  BY DEF Proxy!Send
<1>2. stage[s] = "send"
  BY DEF Proxy!Send
<1>3. /\ a.changed \in BOOLEAN
      /\ a.changed => Proxy!RoutesOf(s) # {} /\ a.status # "404"
      /\ ~a.changed => a.status # "2xx"
      /\ a.status = "404" => Proxy!RoutesOf(s) = {}
  <2>1. \/ a \in {[status |-> "000", changed |-> FALSE]}
        \/ Proxy!RoutesOf(s) = {} /\ a \in {[status |-> "404", changed |-> FALSE], [status |-> "5xx", changed |-> FALSE]}
        \/ /\ Proxy!RoutesOf(s) # {}
           /\ a \in {[status |-> "2xx", changed |-> TRUE], [status |-> "000", changed |-> TRUE],
                     [status |-> "5xx", changed |-> FALSE]}
    BY DEF Proxy!Answers
  <2>2. ASSUME NEW status, a = [status |-> status, changed |-> FALSE]
        PROVE  a.status = status /\ a.changed = FALSE
    BY <2>2
  <2>3. ASSUME NEW status, a = [status |-> status, changed |-> TRUE]
        PROVE  a.status = status /\ a.changed = TRUE
    BY <2>3
  <2>4. \/ a.status \in {"000", "5xx"} /\ a.changed = FALSE
        \/ Proxy!RoutesOf(s) = {} /\ a.status = "404" /\ a.changed = FALSE
        \/ Proxy!RoutesOf(s) # {} /\ a.status \in {"000", "2xx"} /\ a.changed = TRUE
    BY <2>1, <2>2, <2>3
  <2> QED  BY <2>4
<1>4. CASE a.changed
  <2>1. Proxy!Report(s, a.status = "2xx")
    BY <1>1, <1>3, <1>4 DEF Proxy!NotThere
  <2> QED  BY <1>1, <1>2, <1>3, <1>4, <2>1, ProxyRewritten
<1>5. CASE ~a.changed
  <2>1. saved' = saved
    BY <1>1, <1>5
  <2>2. a.status = "404" => \A i \in 1 .. Len(saved.routes) : saved.routes[i].id # s
    BY <1>3 DEF Proxy!RoutesOf, ProxyInv
  <2>3. CASE call[s].what = "deploy" /\ Proxy!NotThere(a.status)
    <3>1. Proxy!GoTo(s, "create")
      BY <1>1, <2>3
    <3> QED  BY <1>2, <2>1, <2>2, <2>3, <3>1, ProxyGo DEF Proxy!NotThere
  <2>4. CASE ~(call[s].what = "deploy" /\ Proxy!NotThere(a.status))
    <3>1. PICK ok \in BOOLEAN : Proxy!Report(s, ok) /\ (ok => call[s].what = "remove" /\ a.status = "404")
      <4>1. Proxy!Report(s, a.status = "2xx" \/ (call[s].what = "remove" /\ a.status = "404"))
        BY <1>1, <2>4
      <4> QED  BY <1>3, <1>5, <4>1
    <3>2. /\ saved' \in [routes : Seq(Nodes), listen : {"https", "http"}] /\ saved'.routes = saved.routes
          /\ (secured \/ (ok /\ call[s].what = "boot") => saved'.listen = "https")
      BY <2>1, <3>1 DEF ProxyInv
    <3> QED  BY <2>1, <2>2, <3>1, <3>2, ProxyNothing
  <2> QED  BY <2>3, <2>4
<1> QED  BY <1>3, <1>4, <1>5

LEMMA ProxyCreate ==
  ASSUME Proxy!CaddyAssumption, ProxyInv, NEW s \in Services, Proxy!Create(s) PROVE ProxyInv'
<1> DEFINE list == saved.routes
           c    == call[s]
<1>1. /\ saved \in [routes : Seq(Nodes), listen : {"https", "http"}] /\ list \in Seq(Nodes)
      /\ Apart(list) /\ StageInv(s) /\ Believed(list, s, claims[s]) /\ (secured => saved.listen = "https")
  BY DEF ProxyInv
<1>2. /\ stage[s] = "create" /\ c \in Proxy!Calls /\ c.what = "deploy"
      /\ \A i \in 1 .. Len(list) : list[i].id # s
  BY <1>1 DEF StageInv, Proxy!Create
<1>3. CASE saved' = saved /\ Proxy!Report(s, FALSE)
  BY <1>1, <1>3, ProxyNothing
<1>4. ASSUME NEW ok \in BOOLEAN, Proxy!Report(s, ok), saved' = Proxy!Appended(s) PROVE ProxyInv'
  <2>1. PICK node \in Nodes : /\ node = [id |-> s, match |-> c.domain, to |-> c.to] /\ node.id = s
                            /\ [match |-> node.match, to |-> node.to] = [match |-> c.domain, to |-> c.to]
    <3>1. c.domain \in Domains \cup {None} /\ c.to \in Upstreams
      BY <1>2 DEF Proxy!Calls, Proxy!Call
    <3>2. [id |-> s, match |-> c.domain, to |-> c.to] \in Nodes
      BY <3>1 DEF Nodes
    <3> QED  BY <3>2
  <2>2. PICK new : new = Append(list, node) /\ saved' = [saved EXCEPT !.routes = new]
    BY <1>4, <2>1 DEF Proxy!Appended
  <2>3. None \in claims[s] /\ Proxy!Made(c, None) = [match |-> c.domain, to |-> c.to]
    BY <1>1, <1>2 DEF Believed, Proxy!Made
  <2>4. [match |-> c.domain, to |-> c.to] \in claims'[s]
    BY <1>2, <1>4, <2>3, ReportTells DEF Needs
  <2>5. /\ new \in Seq(Nodes) => saved' \in [routes : Seq(Nodes), listen : {"https", "http"}]
        /\ saved'.routes = new /\ saved'.listen = saved.listen
    BY <1>1, <2>2
  <2>6. secured \/ (ok /\ call[s].what = "boot") => saved'.listen = "https"
    BY <1>1, <1>2, <2>5
  <2>7. /\ new \in Seq(Nodes) /\ Apart(new)
        /\ \A j \in 1 .. Len(new) : new[j].id = s => Route(new, j) = [match |-> node.match, to |-> node.to]
        /\ \E j \in 1 .. Len(new) : new[j].id = s
        /\ Stay(list, new, s)
    <3> HIDE DEF list, c
    <3>1. \A i \in 1 .. Len(list) : list[i].id # node.id
      BY <1>2, <2>1
    <3>2. node.id = s /\ Added(list, node, new)
      BY <2>1, <2>2 DEF Added
    <3>3. /\ new \in Seq(Nodes) /\ Apart(new)
          /\ \A j \in 1 .. Len(new) : new[j].id = node.id => Route(new, j) = [match |-> node.match, to |-> node.to]
          /\ \E j \in 1 .. Len(new) : new[j].id = node.id
          /\ Stay(list, new, node.id)
      BY <1>1, <2>1, <3>1, <3>2, AddNode
    <3> QED  BY <3>2, <3>3
  <2>8. Believed(new, s, claims'[s])
    BY <2>1, <2>4, <2>7 DEF Believed
  <2>9. Others(s)
    BY <2>5, <2>7 DEF Others, Stay
  <2> QED  BY <1>4, <2>5, <2>6, <2>7, <2>8, <2>9, ProxyReport
<1> QED  BY <1>3, <1>4 DEF Proxy!Create

LEMMA ProxyInit == ASSUME Proxy!Init PROVE ProxyInv
<1>1. /\ saved \in [routes : {<<>>}, listen : {"https", "http"}] /\ secured = FALSE
      /\ stage = [s \in Services |-> "idle"] /\ call = [s \in Services |-> None]
      /\ claims = [s \in Services |-> {None}]
  BY DEF Proxy!Init
<1>2. saved.routes = <<>> /\ Len(saved.routes) = 0
  BY <1>1
<1>3. \A s \in Services : StageInv(s) /\ Believed(saved.routes, s, claims[s])
  BY <1>1, <1>2 DEF StageInv, Believed
<1>4. saved \in [routes : Seq(Nodes), listen : {"https", "http"}]
  <2>1. <<>> \in Seq(Nodes)
    BY EmptySeq
  <2> QED  BY <1>1, <2>1
<1>5. Apart(saved.routes)
  BY <1>2 DEF Apart
<1> QED  BY <1>1, <1>3, <1>4, <1>5 DEF ProxyInv

LEMMA ProxyStep ==
  ASSUME Proxy!CaddyAssumption, ProxyInv, [Proxy!Next]_Proxy!vars PROVE ProxyInv'
<1>1. CASE UNCHANGED Proxy!vars
  BY <1>1, ProxyStill DEF Proxy!vars, Proxy!place
<1>2. CASE Proxy!Down \/ Proxy!Restart
  BY <1>2, ProxyStill DEF Proxy!Down, Proxy!Restart, Proxy!Resumed, Proxy!place
<1>3. CASE \E s \in Services :
       \/ Proxy!Begin(s) \/ Proxy!Send(s) \/ Proxy!Create(s) \/ Proxy!Look(s) \/ Proxy!Clear(s)
       \/ Proxy!RunCaddy(s) \/ Proxy!enforce_https_listener(s) \/ Proxy!proxy_stop(s)
  BY <1>3, ProxyBegin, ProxySend, ProxyCreate, ProxyBoot
<1> QED  BY <1>1, <1>2, <1>3 DEF Proxy!Next

LEMMA ProxyReported == ASSUME ProxyInv PROVE Proxy!RoutesAsReported
<1>1. ASSUME NEW s \in Services
      PROVE  /\ Proxy!Cardinality(Proxy!RoutesOf(s)) <= 1
             /\ stage[s] = "idle" =>
                  IF Proxy!RoutesOf(s) = {} THEN None \in claims[s]
                  ELSE \A i \in Proxy!RoutesOf(s) :
                         [match |-> saved.routes[i].match, to |-> saved.routes[i].to] \in claims[s]
  <2>1. /\ Apart(saved.routes) /\ Believed(saved.routes, s, claims[s])
        /\ Proxy!RoutesOf(s) = {i \in 1 .. Len(saved.routes) : saved.routes[i].id = s}
    BY DEF ProxyInv, Proxy!RoutesOf
  <2>2. Proxy!RoutesOf(s) = {} \/ \E i : Proxy!RoutesOf(s) = {i}
    BY <2>1, ZenonT(40) DEF Apart
  <2>3. Proxy!Cardinality(Proxy!RoutesOf(s)) = Cardinality(Proxy!RoutesOf(s))
    BY DEF Proxy!Cardinality, Cardinality
  <2>4. Cardinality(Proxy!RoutesOf(s)) \in {0, 1}
    BY <2>2, FS_EmptySet, FS_Singleton
  <2> QED  BY <2>1, <2>3, <2>4 DEF Believed, Route
<1> QED  BY <1>1 DEF ProxyInv, Proxy!RoutesAsReported

(* caddy.rhai: the routes of a host's proxy are what its scripts may believe
   they are, a service has one at most, and a boot that succeeded leaves HTTPS
   alone: for every number of services, domains, targets and calls.          *)
LEMMA ProxyHolds == ASSUME Proxy!CaddyAssumption PROVE Proxy!Spec => []Proxy!RoutesAsReported
<1>1. Proxy!Spec => []ProxyInv
  BY ProxyInit, ProxyStep, PTL DEF Proxy!Spec
<1> QED  BY <1>1, ProxyReported, PTL
-----------------------------------------------------------------------------
(* ------------------------------- Reports -------------------------------- *)
World == [reach : BOOLEAN, runtime : {"none", "docker", "podman"}, pulls : BOOLEAN,
          container : {"absent", "stopped", "plain", "healthy", "unhealthy"}]
Good(h) ==
  /\ fleet[h].reach
  /\ tool = "status" => fleet[h].container \in {"plain", "healthy"}
  /\ tool = "doctor" /\ (option \/ Report!images(h) # {}) =>
       /\ fleet[h].runtime # "none"
       /\ Report!images(h) # {} /\ fleet[h].runtime = "docker" => fleet[h].pulls

(* What was seen of a host is so; where setup saw no runtime it installed one, or
   saw that fail.                                                            *)
SeenInv(h) ==
  /\ tool # "setup" /\ seen[h] \in Report!Fine[tool] => Good(h)
  /\ tool = "setup" =>
       /\ seen[h] \in {"unasked", "unreachable", "no runtime", "docker", "podman", "not installed"}
       /\ seen[h] \in {"no runtime", "docker", "podman"} => fleet[h].reach
       /\ seen[h] \in {"docker", "podman"} => fleet[h].runtime # "none"
       /\ seen[h] = "no runtime" /\ h \in installed => fleet[h].runtime # "none"
       /\ h \in installed => seen[h] \in {"no runtime", "not installed"}
ReportInv ==
  /\ tool \in Report!Tools /\ asked \subseteq Hosts /\ (tool = "setup" => asked # {})
  /\ record \in Records
  /\ fleet \in [Hosts -> World] /\ seen = [h \in Hosts |-> seen[h]]
  /\ \A h \in Hosts : SeenInv(h)
  /\ installed # {} => tool = "setup"

LEMMA ToldApart ==
  /\ Report!Fine["status"] = {"running"} /\ Report!Fine["logs"] = {"streamed"}
  /\ Report!Fine["doctor"] = {"reached", "docker", "podman"}
  BY DEF Report!Fine

LEMMA RunningIsSeen ==
  ASSUME NEW w \in World, NEW reply \in Report!Inspected(w), Report!parse_probe_output(reply) = "running"
  PROVE  w.reach /\ w.container \in {"plain", "healthy"}
<1>1. reply = <<0, "true|none">> \/ reply = <<0, "true|healthy">>
  BY DEF Report!parse_probe_output
<1>2. reply[1] = 0 /\ reply[2] \in {"true|none", "true|healthy"}
  BY <1>1
<1>3. ASSUME NEW exitCode, NEW says, reply = <<exitCode, says>>
      PROVE  exitCode = 0 /\ says \in {"true|none", "true|healthy"}
  BY <1>2, <1>3
<1>4. w.reach
  <2>1. ~w.reach => reply = <<255, "ssh">>
    BY DEF Report!Inspected, Report!Lost
  <2>2. reply = <<255, "ssh">> => 255 = 0
    BY <1>3
  <2>3. 255 # 0
    OBVIOUS
  <2> QED  BY <2>1, <2>2, <2>3
<1>5. reply # <<1, "daemon">> /\ reply # <<0, "banner">> /\ reply # <<255, "ssh">> /\ reply # <<127, "not found">>
      /\ reply # <<1, "no such object:">> /\ reply # <<0, "false|none">> /\ reply # <<0, "true|unhealthy">>
  <2>1. /\ reply = <<1, "daemon">> => 1 = 0
        /\ reply = <<0, "banner">> => "banner" \in {"true|none", "true|healthy"}
        /\ reply = <<255, "ssh">> => 255 = 0
        /\ reply = <<127, "not found">> => 127 = 0
        /\ reply = <<1, "no such object:">> => 1 = 0
        /\ reply = <<0, "false|none">> => "false|none" \in {"true|none", "true|healthy"}
        /\ reply = <<0, "true|unhealthy">> => "true|unhealthy" \in {"true|none", "true|healthy"}
    BY <1>3
  <2>2. ~(1 = 0) /\ ~(255 = 0) /\ ~(127 = 0)
    OBVIOUS
  <2>3. {"banner", "false|none", "true|unhealthy"} \cap {"true|none", "true|healthy"} = {}
    OBVIOUS
  <2> QED  BY <2>1, <2>2, <2>3
<1>6. w.container \in {"absent", "stopped", "plain", "healthy", "unhealthy"}
  BY DEF World
<1>8. reply = IF w.runtime = "none" THEN <<127, "not found">>
            ELSE CASE w.container = "absent"     -> <<1, "no such object:">>
                   [] w.container = "stopped"    -> <<0, "false|none">>
                   [] w.container = "plain"      -> <<0, "true|none">>
                   [] w.container = "healthy"    -> <<0, "true|healthy">>
                   [] w.container = "unhealthy"  -> <<0, "true|unhealthy">>
  BY <1>4, <1>5 DEF Report!Inspected, Report!Lost
<1>9. w.container \notin {"absent", "stopped", "unhealthy"}
  BY <1>5, <1>8
<1> QED  BY <1>4, <1>6, <1>9

LEMMA RuntimeIsSeen ==
  ASSUME NEW w \in World, NEW pulls \in BOOLEAN, Report!Runtime(w, pulls) \in {"docker", "podman"}
  PROVE  w.runtime # "none" /\ (w.runtime = "docker" => pulls)
  BY DEF Report!Runtime, World

LEMMA ReportInit == ASSUME Report!ReportsAssumption PROVE Report!Init => ReportInv
<1> SUFFICES ASSUME Report!Init PROVE ReportInv
  OBVIOUS
<1>1. /\ tool \in Report!Tools /\ asked \subseteq Hosts /\ (tool = "setup" => asked # {}) /\ record \in Records
      /\ fleet \in Fleets /\ seen = [h \in Hosts |-> "unasked"] /\ installed = {}
  BY DEF Report!Init
<1>2. fleet \in [Hosts -> World]
  BY <1>1 DEF Report!ReportsAssumption, World
<1>3. \A h \in Hosts : seen[h] = "unasked"
  BY <1>1
<1>4. \A h \in Hosts : SeenInv(h)
  BY <1>1, <1>3, ToldApart DEF SeenInv, Report!Tools
<1> QED  BY <1>1, <1>2, <1>4 DEF ReportInv

LEMMA ReportProbe ==
  ASSUME Report!ReportsAssumption, ReportInv, Report!Probe PROVE ReportInv'
<1>1. PICK h \in Report!Asked : \E found \in Report!probe_host(h) : seen' = [seen EXCEPT ![h] = found]
  BY DEF Report!Probe
<1>2. PICK found \in Report!probe_host(h) : seen' = [seen EXCEPT ![h] = found]
  BY <1>1
<1>3. UNCHANGED <<tool, asked, option, record, fleet, installed>>
  BY DEF Report!Probe, Report!setting
<1>4. h \in Hosts /\ tool \in {"status", "doctor", "logs", "setup"}
  BY <1>1 DEF Report!Asked, Report!resolve_hosts, Report!hosts_for, ReportInv, Report!ReportsAssumption, Report!Tools
<1>5. PICK w \in World : w = fleet[h]
  BY <1>4 DEF ReportInv
<1>6. found = "unreachable" \/ w.reach
  BY <1>2, <1>5 DEF Report!probe_host
<1>7. ASSUME tool # "setup", found \in Report!Fine[tool] PROVE Good(h)
  <2>1. w.reach
    BY <1>4, <1>6, <1>7, ToldApart
  <2>2. CASE tool = "status"
    <3>0. found # "unreachable"
      BY <1>7, <2>2, ToldApart
    <3>1. PICK reply \in Report!Inspected(w) : found = Report!parse_probe_output(reply)
      BY <1>2, <1>5, <2>1, <2>2, <3>0 DEF Report!probe_host
    <3>2. Report!parse_probe_output(reply) = "running"
      BY <1>7, <2>2, <3>1, ToldApart
    <3> QED  BY <1>5, <2>2, <3>2, RunningIsSeen DEF Good
  <2>3. CASE tool = "logs"
    BY <1>5, <2>1, <2>3 DEF Good
  <2>4. CASE tool = "doctor"
    <3>1. CASE option \/ Report!images(h) # {}
      <4>1. found \in {"docker", "podman", "reached"}
        BY <1>7, <2>4, ToldApart
      <4>2. PICK pulls \in BOOLEAN : pulls = (w.pulls \/ Report!images(h) = {})
        OBVIOUS
      <4>3. found = Report!Runtime(w, pulls)
        BY <1>2, <1>5, <2>1, <2>4, <3>1, <4>1, <4>2 DEF Report!probe_host
      <4>4. found \in {"docker", "podman"}
        BY <4>1, <4>3 DEF Report!Runtime, World
      <4> QED  BY <1>5, <2>1, <2>4, <4>2, <4>3, <4>4, RuntimeIsSeen DEF Good
    <3>2. CASE ~(option \/ Report!images(h) # {})
      BY <1>5, <2>1, <2>4, <3>2 DEF Good
    <3> QED  BY <3>1, <3>2
  <2> QED  BY <1>4, <1>7, <2>2, <2>3, <2>4
<1>8. ASSUME tool = "setup"
      PROVE  /\ found \in {"unreachable", "no runtime", "docker", "podman"}
             /\ found \in {"docker", "podman"} => w.runtime # "none"
  <2>1. found \in {"unreachable", "no runtime", Report!Runtime(w, TRUE)}
    BY <1>2, <1>5, <1>8 DEF Report!probe_host, Report!setup_probe
  <2>2. Report!Runtime(w, TRUE) \in {"no runtime", "docker", "podman"}
    BY DEF Report!Runtime, World
  <2> QED  BY <2>1, <2>2, RuntimeIsSeen
<1>9. /\ seen' = [q \in Hosts |-> seen'[q]] /\ seen'[h] = found
      /\ \A q \in Hosts \ {h} : seen'[q] = seen[q]
  BY <1>2, <1>4 DEF ReportInv
<1>10. seen[h] = "unasked"
  BY <1>1 DEF Report!Asked
<1>11. ASSUME NEW q \in Hosts PROVE SeenInv(q)'
  <2>1. SeenInv(q)
    BY DEF ReportInv
  <2>2. CASE q # h
    BY <1>3, <1>9, <2>1, <2>2 DEF SeenInv, Good, Report!images
  <2>3. CASE q = h
    <3>1. seen'[q] = found /\ q = h /\ fleet'[q] = w
      BY <1>3, <1>5, <1>9, <2>3
    <3>2. tool' # "setup" /\ seen'[q] \in Report!Fine'[tool'] => Good(q)'
      BY <1>3, <1>5, <1>7, <3>1 DEF Good, Report!images, Report!Fine
    <3>3. tool = "setup" => q \notin installed
      BY <1>10, <2>1, <2>3 DEF SeenInv
    <3> QED  BY <1>3, <1>6, <1>8, <3>1, <3>2, <3>3 DEF SeenInv
  <2> QED  BY <2>2, <2>3
<1> QED  BY <1>3, <1>9, <1>11 DEF ReportInv

LEMMA ReportInstall ==
  ASSUME Report!ReportsAssumption, ReportInv, Report!install_docker
  PROVE  /\ ReportInv'
         /\ \A h \in Hosts : fleet'[h].reach = fleet[h].reach
                            /\ (fleet[h].runtime # "none" => fleet'[h].runtime # "none")
         /\ UNCHANGED <<tool, asked, option, rehearsing, store, record, booted, exit>>
         /\ tool = "setup" /\ option /\ ~rehearsing
<1>1. PICK h \in Report!Missing \ installed :
        /\ installed' = installed \cup {h}
        /\ \E works \in BOOLEAN :
             /\ fleet' = IF works THEN [fleet EXCEPT ![h].runtime = "docker"] ELSE fleet
             /\ seen' = IF works THEN seen ELSE [seen EXCEPT ![h] = "not installed"]
  BY DEF Report!install_docker
<1>2. /\ UNCHANGED <<tool, asked, option, rehearsing, store, record, booted, exit>>
      /\ tool = "setup" /\ option /\ ~rehearsing
  BY DEF Report!install_docker, Report!setting, Report!Ready
<1>3. h \in Hosts /\ seen[h] = "no runtime" /\ SeenInv(h)
  BY <1>1 DEF Report!Missing, ReportInv
<1>4. CASE fleet' = [fleet EXCEPT ![h].runtime = "docker"] /\ seen' = seen
  <2>1. PICK w \in World : w = fleet[h]
    BY <1>3 DEF ReportInv
  <2>2. PICK new \in World : /\ new = [w EXCEPT !.runtime = "docker"]
                            /\ new.reach = w.reach /\ new.runtime = "docker"
    <3>1. [w EXCEPT !.runtime = "docker"] \in World
      BY DEF World
    <3>2. [w EXCEPT !.runtime = "docker"].reach = w.reach /\ [w EXCEPT !.runtime = "docker"].runtime = "docker"
      BY DEF World
    <3> QED  BY <3>1, <3>2
  <2>3. /\ fleet' \in [Hosts -> World] /\ fleet'[h] = new
        /\ \A q \in Hosts \ {h} : fleet'[q] = fleet[q]
    BY <1>3, <1>4, <2>1, <2>2 DEF ReportInv
  <2>4. ASSUME NEW q \in Hosts PROVE SeenInv(q)'
    <3>1. SeenInv(q)
      BY DEF ReportInv
    <3>2. CASE q = h
      BY <1>2, <1>3, <1>4, <2>1, <2>2, <2>3, <3>2 DEF SeenInv
    <3>3. CASE q # h
      BY <1>1, <1>2, <1>4, <2>3, <3>1, <3>3 DEF SeenInv
    <3> QED  BY <3>2, <3>3
  <2>5. ReportInv'
    BY <1>2, <1>4, <2>3, <2>4 DEF ReportInv
  <2> QED  BY <1>2, <1>3, <2>1, <2>2, <2>3, <2>5
<1>5. CASE fleet' = fleet /\ seen' = [seen EXCEPT ![h] = "not installed"]
  <2>1. /\ seen' = [q \in Hosts |-> seen'[q]]
        /\ \A q \in Hosts : seen'[q] = IF q = h THEN "not installed" ELSE seen[q]
    BY <1>3, <1>5 DEF ReportInv
  <2>2. ASSUME NEW q \in Hosts PROVE SeenInv(q)'
    <3>1. SeenInv(q)
      BY DEF ReportInv
    <3> QED  BY <1>1, <1>2, <1>5, <2>1, <3>1 DEF SeenInv
  <2>3. ReportInv'
    BY <1>2, <1>5, <2>1, <2>2 DEF ReportInv
  <2> QED  BY <1>2, <1>5, <2>3
<1> QED  BY <1>1, <1>4, <1>5

LEMMA ReportVerdict ==
  ASSUME ReportInv, Report!Refuse \/ Report!Report \/ Report!GiveUp \/ Report!run_setup \/ UNCHANGED Report!vars
  PROVE  ReportInv'
<1>1. UNCHANGED <<tool, asked, option, record, fleet, seen, installed>>
  BY DEF Report!Refuse, Report!Report, Report!GiveUp, Report!run_setup, Report!vars, Report!setting
<1>2. ASSUME NEW h \in Hosts PROVE SeenInv(h)'
  <2>1. SeenInv(h)
    BY DEF ReportInv
  <2> QED  BY <1>1, <2>1 DEF SeenInv, Good, Report!images, Report!Fine
<1> QED  BY <1>1, <1>2 DEF ReportInv

LEMMA ReportInvStep == ASSUME Report!ReportsAssumption, ReportInv, [Report!Next]_Report!vars PROVE ReportInv'
  BY ReportProbe, ReportInstall, ReportVerdict DEF Report!Next

(* The promise, one part for each kind of command.                           *)
Looked ==
  exit = "success" /\ tool # "setup" =>
    /\ \A h \in Report!resolve_hosts : Good(h)
    /\ store # "corrupt"
    /\ tool = "status" => Report!recorded # {} /\ \A s \in Report!recorded : record[s].hosts # {}
    /\ tool = "logs" => Report!resolve_hosts # {}
Provisioned ==
  /\ installed # {} => option /\ ~rehearsing
  /\ booted => tool = "setup"
  /\ booted /\ ~rehearsing => \A h \in asked : fleet[h].reach /\ fleet[h].runtime # "none"
  /\ exit = "success" /\ tool = "setup" /\ ~booted => installed = {}

LEMMA ReportHosts == ASSUME Report!ReportsAssumption, ReportInv PROVE Report!resolve_hosts \subseteq Hosts
  BY DEF ReportInv, Report!ReportsAssumption, Report!resolve_hosts, Report!hosts_for

LEMMA LookedStep ==
  ASSUME Report!ReportsAssumption, ReportInv, Looked, [Report!Next]_Report!vars PROVE Looked'
<1>1. CASE Report!Report
  <2>1. UNCHANGED <<tool, asked, option, store, record, fleet, seen, amiss>> /\ tool # "setup"
        /\ exit' = IF Report!ok THEN "success" ELSE "failure"
    BY <1>1 DEF Report!Report, Report!setting
  <2>2. SUFFICES ASSUME Report!ok PROVE Looked'
    BY <2>1 DEF Looked
  <2>3. \A h \in Report!resolve_hosts : Good(h)
    <3>1. \A h \in Report!resolve_hosts : SeenInv(h)
      BY ReportHosts DEF ReportInv
    <3> QED  BY <2>1, <2>2, <3>1 DEF SeenInv, Report!ok
  <2>4. tool \in {"status", "doctor", "logs"}
    BY <2>1 DEF ReportInv, Report!Tools
  <2>5. ~Report!Refused
    BY <1>1 DEF Report!Report
  <2>6. /\ store # "corrupt"
        /\ tool = "status" => Report!recorded # {} /\ \A s \in Report!recorded : record[s].hosts # {}
        /\ tool = "logs" => Report!resolve_hosts # {}
    BY <2>2, <2>4, <2>5 DEF Report!ok, Report!Refused, Report!NothingToStream
  <2>7. Report!resolve_hosts' = Report!resolve_hosts /\ Report!recorded' = Report!recorded
    BY <2>1 DEF Report!resolve_hosts, Report!hosts_for, Report!recorded
  <2>8. \A h \in Report!resolve_hosts : Good(h)'
    BY <2>1, <2>3 DEF Good, Report!images
  <2> QED  BY <2>1, <2>6, <2>7, <2>8 DEF Looked
<1>2. CASE Report!GiveUp \/ Report!run_setup \/ Report!install_docker
  BY <1>2 DEF Report!GiveUp, Report!run_setup, Report!install_docker, Report!Ready, Report!setting, Looked
<1>3. CASE Report!Refuse \/ Report!Probe
  BY <1>3 DEF Report!Refuse, Report!Probe, Report!Running, Looked
<1>4. CASE UNCHANGED Report!vars
  <2>1. UNCHANGED <<tool, asked, option, store, record, fleet, exit>>
    BY <1>4 DEF Report!vars, Report!setting
  <2>2. Report!resolve_hosts' = Report!resolve_hosts /\ Report!recorded' = Report!recorded
    BY <2>1 DEF Report!resolve_hosts, Report!hosts_for, Report!recorded
  <2>3. \A h : Good(h)' = Good(h)
    BY <2>1 DEF Good, Report!images
  <2> QED  BY <2>1, <2>2, <2>3 DEF Looked
<1> QED  BY <1>1, <1>2, <1>3, <1>4 DEF Report!Next

LEMMA ProvisionedStep ==
  ASSUME Report!ReportsAssumption, ReportInv, Provisioned, [Report!Next]_Report!vars PROVE Provisioned'
<1>1. CASE Report!install_docker
  <2>1. \A h \in asked : h \in Hosts
    BY DEF ReportInv
  <2>2. exit = "none"
    BY <1>1 DEF Report!install_docker, Report!Ready, Report!Running
  <2> QED  BY <1>1, <2>1, <2>2, ReportInstall DEF Provisioned
<1>2. CASE Report!run_setup
  <2>1. UNCHANGED <<tool, asked, option, rehearsing, fleet, seen, installed>> /\ tool = "setup"
    BY <1>2 DEF Report!run_setup, Report!Ready, Report!setting
  <2>2. CASE Report!NotInstalled
    BY <1>2, <2>1, <2>2 DEF Report!run_setup, Provisioned
  <2>3. CASE ~Report!NotInstalled
    <3>1. booted' = TRUE
      BY <1>2, <2>3 DEF Report!run_setup
    <3>2. ASSUME ~rehearsing, NEW h \in asked PROVE fleet[h].reach /\ fleet[h].runtime # "none"
      <4>1. SeenInv(h) /\ h \in Report!resolve_hosts /\ h \in Hosts
        BY <3>2 DEF ReportInv, Report!resolve_hosts
      <4>2. seen[h] \notin {"unasked", "unreachable", "not installed"}
        BY <1>2, <2>3, <3>2, <4>1 DEF Report!run_setup, Report!Ready, Report!Asked, Report!Unreachable, Report!NotInstalled
      <4>3. seen[h] = "no runtime" => h \in installed
        BY <1>2, <3>2 DEF Report!run_setup, Report!Missing
      <4> QED  BY <2>1, <4>1, <4>2, <4>3 DEF SeenInv
    <3> QED  BY <2>1, <3>1, <3>2 DEF Provisioned
  <2> QED  BY <2>2, <2>3
<1>3. CASE Report!GiveUp
  <2>1. UNCHANGED <<tool, asked, option, rehearsing, fleet, installed, booted>>
        /\ (exit' = "failure" \/ ~option)
    BY <1>3 DEF Report!GiveUp, Report!setting
  <2> QED  BY <2>1 DEF Provisioned
<1>4. CASE Report!Report
  <2>1. UNCHANGED <<tool, asked, option, rehearsing, fleet, installed, booted>> /\ tool # "setup"
    BY <1>4 DEF Report!Report, Report!setting
  <2> QED  BY <2>1 DEF Provisioned
<1>5. CASE Report!Refuse
  <2>1. UNCHANGED <<tool, asked, option, rehearsing, fleet, installed, booted>> /\ exit' = "failure"
    BY <1>5 DEF Report!Refuse, Report!setting
  <2> QED  BY <2>1 DEF Provisioned
<1>6. CASE Report!Probe \/ UNCHANGED Report!vars
  <2>1. UNCHANGED <<tool, asked, option, rehearsing, fleet, installed, booted, exit>>
    BY <1>6 DEF Report!Probe, Report!vars, Report!setting
  <2> QED  BY <2>1 DEF Provisioned
<1> QED  BY <1>1, <1>2, <1>3, <1>4, <1>5, <1>6 DEF Report!Next

LEMMA PromiseParts == ASSUME ReportInv, Looked, Provisioned PROVE Report!ReportsHonest
  BY DEF ReportInv, Looked, Provisioned, Good, Report!ReportsHonest

LEMMA ReportPromiseInit == Report!Init => Looked /\ Provisioned
  BY DEF Report!Init, Looked, Provisioned

(* status.rs, doctor.rs, logs.rs, setup.rs: for any hosts, services and records, a
   command succeeds only over hosts that answered and were in order, and setup
   boots where each has a runtime and installs only what it was told to.     *)
LEMMA ReportHolds == ASSUME Report!ReportsAssumption PROVE Report!Spec => []Report!ReportsHonest
<1>1. Report!Spec => [](ReportInv /\ Looked /\ Provisioned)
  BY ReportInit, ReportPromiseInit, ReportInvStep, LookedStep, ProvisionedStep, PTL DEF Report!Spec
<1> QED  BY <1>1, PromiseParts, PTL
-----------------------------------------------------------------------------
(* ------------------------------ Rehearsals ------------------------------ *)
(* A set of natural numbers has a least one.                                *)
LEMMA Least ==
  ASSUME NEW T \in SUBSET Nat, T # {}
  PROVE  \E x \in T : \A y \in T : x <= y
<1> DEFINE Less == OpToRel(<, Nat)
<1>1. \A x, y \in Nat : <<x, y>> \in Less <=> x < y
  BY DEF OpToRel
<1>2. IsWellFoundedOn(Less, Nat)
  BY NatLessThanWellFounded
<1> HIDE DEF Less
<1>3. \E x \in T : \A y \in T : <<y, x>> \notin Less
  BY <1>2, WFMin
<1>4. PICK x \in T : \A y \in T : <<y, x>> \notin Less
  BY <1>3
<1>5. \A y \in T : ~(y < x)
  BY <1>1, <1>4
<1>6. \A y \in T : x <= y
  BY <1>5
<1> QED  BY <1>6

Of(s) == {s[i] : i \in 1 .. Len(s)}

LEMMA OfBoth ==
  ASSUME NEW S, NEW s \in Seq(S), NEW t \in Seq(S)
  PROVE  s \o t \in Seq(S) /\ Of(s \o t) = Of(s) \cup Of(t)
<1>1. PICK m, n, st : m = Len(s) /\ n = Len(t) /\ st = s \o t
  OBVIOUS
<1>2. /\ m \in Nat /\ n \in Nat /\ st \in Seq(S) /\ Len(st) = m + n
      /\ \A i \in 1 .. m + n : st[i] = IF i <= m THEN s[i] ELSE t[i - m]
  BY <1>1, ConcatProperties
<1>3. ASSUME NEW i \in 1 .. m + n PROVE st[i] \in Of(s) \cup Of(t)
  <2>1. i <= m => i \in 1 .. m
    BY <1>2
  <2>2. ~(i <= m) => i - m \in 1 .. n
    BY <1>2
  <2> QED  BY <1>1, <1>2, <2>1, <2>2 DEF Of
<1>4. ASSUME NEW i \in 1 .. m PROVE s[i] \in Of(st)
  <2>1. i \in 1 .. m + n /\ i <= m
    BY <1>2
  <2> QED  BY <1>2, <2>1 DEF Of
<1>5. ASSUME NEW i \in 1 .. n PROVE t[i] \in Of(st)
  <2>1. i + m \in 1 .. m + n /\ ~(i + m <= m) /\ (i + m) - m = i
    BY <1>2
  <2> QED  BY <1>2, <2>1 DEF Of
<1>6. Of(st) \subseteq Of(s) \cup Of(t)
  BY <1>2, <1>3 DEF Of
<1>7. Of(s) \subseteq Of(st)
  BY <1>1, <1>4 DEF Of
<1>8. Of(t) \subseteq Of(st)
  BY <1>1, <1>5 DEF Of
<1> QED  BY <1>1, <1>2, <1>6, <1>7, <1>8

(* The first n steps of a flattening.                                        *)
Flat(seqs, n, g) == g = [i \in 1 .. n |-> IF i = 1 THEN seqs[i] ELSE g[i - 1] \o seqs[i]]

LEMMA FlatChosen ==
  ASSUME NEW seqs, Len(seqs) # 0, \E g : Flat(seqs, Len(seqs), g)
  PROVE  \E g : Flat(seqs, Len(seqs), g) /\ Rehearse!FlattenSeq(seqs) = g[Len(seqs)]
<1> DEFINE f == CHOOSE g : g = [i \in 1 .. Len(seqs) |-> IF i = 1 THEN seqs[i] ELSE g[i - 1] \o seqs[i]]
<1>1. Flat(seqs, Len(seqs), f)
  BY DEF Flat
<1>2. Rehearse!FlattenSeq(seqs) = f[Len(seqs)]
  BY DEF Rehearse!FlattenSeq
<1> QED  BY <1>1, <1>2

LEMMA FlatExists == ASSUME NEW seqs, NEW n \in Nat PROVE \E g : Flat(seqs, n, g)
<1> DEFINE bad == {k \in Nat : ~ \E g : Flat(seqs, k, g)}
<1>1. SUFFICES bad = {}
  OBVIOUS
<1>2. SUFFICES ASSUME bad # {} PROVE FALSE
  OBVIOUS
<1>3. PICK k \in bad : \A y \in bad : k <= y
  <2>1. bad \in SUBSET Nat
    OBVIOUS
  <2> QED  BY <1>2, <2>1, Least
<1>4. k \in Nat /\ ~ \E g : Flat(seqs, k, g)
  OBVIOUS
<1>5. k # 0
  <2>1. SUFFICES \E g : Flat(seqs, 0, g)
    BY <1>4
  <2>2. PICK g : g = [i \in 1 .. 0 |-> 0]
    OBVIOUS
  <2>3. g = [i \in 1 .. 0 |-> IF i = 1 THEN seqs[i] ELSE g[i - 1] \o seqs[i]]
    BY <2>2
  <2> QED  BY <2>3 DEF Flat
<1>6. k - 1 \in Nat /\ ~(k <= k - 1)
  BY <1>4, <1>5
<1>7. PICK g : Flat(seqs, k - 1, g)
  BY <1>3, <1>6
<1>8. PICK top : top = IF k = 1 THEN seqs[k] ELSE g[k - 1] \o seqs[k]
  OBVIOUS
<1>9. PICK h : h = [i \in 1 .. k |-> IF i = k THEN top ELSE g[i]]
  OBVIOUS
<1>10. ASSUME NEW i \in 1 .. k
       PROVE  (IF i = k THEN top ELSE g[i]) = IF i = 1 THEN seqs[i] ELSE h[i - 1] \o seqs[i]
  <2>1. i = 1 \/ (i - 1 \in 1 .. k /\ i - 1 # k)
    BY <1>4
  <2>2. i # 1 => h[i - 1] = g[i - 1]
    BY <1>9, <2>1
  <2>3. i # k => i \in 1 .. k - 1
    BY <1>4
  <2>4. i # k => g[i] = IF i = 1 THEN seqs[i] ELSE g[i - 1] \o seqs[i]
    BY <1>7, <2>3 DEF Flat
  <2> QED  BY <1>8, <2>2, <2>4
<1>11. h = [i \in 1 .. k |-> IF i = 1 THEN seqs[i] ELSE h[i - 1] \o seqs[i]]
  BY <1>9, <1>10
<1> QED  BY <1>4, <1>11 DEF Flat

(* A flattening has what the sequences have, and nothing else.               *)
LEMMA FlatFacts ==
  ASSUME NEW S, NEW seqs \in Seq(Seq(S))
  PROVE  /\ Rehearse!FlattenSeq(seqs) \in Seq(S)
         /\ \A x : x \in Of(Rehearse!FlattenSeq(seqs)) <=> \E i \in 1 .. Len(seqs) : x \in Of(seqs[i])
<1>1. PICK n : n = Len(seqs) /\ n \in Nat
  OBVIOUS
<1>2. CASE n = 0
  <2>1. Rehearse!FlattenSeq(seqs) = seqs /\ Len(seqs) = 0
    BY <1>1, <1>2 DEF Rehearse!FlattenSeq
  <2>2. 1 .. 0 = {}
    OBVIOUS
  <2>3. seqs \in Seq(S)
    <3>1. seqs = <<>>
      BY <2>1
    <3>2. <<>> \in Seq(S)
      OBVIOUS
    <3> QED  BY <3>1, <3>2
  <2>4. Of(seqs) = {} /\ 1 .. Len(seqs) = {}
    BY <2>1, <2>2 DEF Of
  <2> QED  BY <2>1, <2>3, <2>4
<1>3. CASE n # 0
  <2>1. PICK g : Flat(seqs, n, g) /\ Rehearse!FlattenSeq(seqs) = g[n]
    BY <1>1, <1>3, FlatExists, FlatChosen
  <2>2. \A i \in 1 .. n : seqs[i] \in Seq(S)
    BY <1>1
  <2> DEFINE Right(k) == g[k] \in Seq(S) /\ \A x : x \in Of(g[k]) <=> \E i \in 1 .. k : x \in Of(seqs[i])
             bad == {k \in 1 .. n : ~Right(k)}
  <2>3. bad = {}
    <3>1. SUFFICES ASSUME bad # {} PROVE FALSE
      OBVIOUS
    <3>2. bad \in SUBSET Nat
      BY <1>1
    <3> HIDE DEF bad
    <3>3. PICK k \in bad : \A y \in bad : k <= y
      BY <3>1, <3>2, Least
    <3>4. k \in 1 .. n /\ ~Right(k)
      BY DEF bad
    <3> HIDE DEF Right
    <3>5. CASE k = 1
      <4>1. g[k] = seqs[1]
        BY <2>1, <3>4, <3>5 DEF Flat
      <4>2. 1 .. k = {1}
        BY <3>5
      <4> QED  BY <2>2, <3>4, <3>5, <4>1, <4>2 DEF Right
    <3>6. CASE k # 1
      <4>1. k - 1 \in 1 .. n /\ ~(k <= k - 1)
        BY <1>1, <3>4, <3>6
      <4>2. Right(k - 1)
        BY <3>3, <4>1 DEF bad
      <4>3. g[k] = g[k - 1] \o seqs[k]
        BY <2>1, <3>4, <3>6 DEF Flat
      <4>4. g[k] \in Seq(S) /\ Of(g[k]) = Of(g[k - 1]) \cup Of(seqs[k])
        BY <2>2, <3>4, <4>2, <4>3, OfBoth DEF Right
      <4>5. 1 .. k = 1 .. (k - 1) \cup {k}
        BY <1>1, <3>4, <3>6
      <4>6. ASSUME NEW x PROVE x \in Of(g[k]) <=> \E i \in 1 .. k : x \in Of(seqs[i])
        <5>1. x \in Of(g[k - 1]) <=> \E i \in 1 .. (k - 1) : x \in Of(seqs[i])
          BY <4>2 DEF Right
        <5>2. x \in Of(g[k]) <=> x \in Of(g[k - 1]) \/ x \in Of(seqs[k])
          BY <4>4
        <5>3. PICK A, B : A = 1 .. k /\ B = 1 .. (k - 1) /\ A = B \cup {k}
          BY <4>5
        <5>4. (\E i \in A : x \in Of(seqs[i])) <=> (\E i \in B : x \in Of(seqs[i])) \/ x \in Of(seqs[k])
          BY <5>3
        <5> QED  BY <5>1, <5>2, <5>3, <5>4
      <4> QED  BY <3>4, <4>4, <4>6 DEF Right
    <3> QED  BY <3>5, <3>6
  <2>4. n \in 1 .. n
    BY <1>1, <1>3
  <2>5. Right(n)
    BY <2>3, <2>4
  <2> QED  BY <1>1, <2>1, <2>5
<1> QED  BY <1>2, <1>3

Rows == [op : {"setup", "action", "check", "cleanup"}, fault : BOOLEAN, expect : Int,
         exited : Int, status : {"planned", "skipped", "passed", "failed"}]
Wanted(row) == row.fault => faults
Fresh(row)  == row.exited = Rehearse!NoExit /\ row.status = IF Wanted(row) THEN "planned" ELSE "skipped"
Ran(row)    == row.exited # Rehearse!NoExit

(* What validation leaves of a contract: fault scenarios have actions and checks,
   and only their actions expect a failure.                                  *)
PlannedRow(row) ==
  /\ row.fault => row.op \in {"action", "check"}
  /\ row.expect = 0 \/ (row.fault /\ row.op = "action")
CheckWanted == \E i \in 1 .. Len(rows) : rows[i].op = "check" /\ Wanted(rows[i])

(* Of a step that is behind: it ran unless it was not wanted, or something had
   failed or been interrupted; and until then all that ran did as expected.  *)
Passed(i) ==
  /\ Ran(rows[i]) => Wanted(rows[i])
  /\ rows[i].op = "cleanup" => Ran(rows[i])
  /\ Ran(rows[i]) /\ rows[i].op # "cleanup" =>
       \A j \in 1 .. i - 1 : Ran(rows[j]) => rows[j].exited = rows[j].expect
  /\ ~broken /\ Ran(rows[i]) => rows[i].exited = rows[i].expect
  /\ ~broken /\ signals = 0 /\ Wanted(rows[i]) => Ran(rows[i])

RehearsalInv ==
  /\ contract \in Contracts /\ faults \in BOOLEAN
  /\ rows \in Seq(Rows) /\ place \in 0 .. Len(rows) + 1 /\ signals \in Nat
  /\ \A i \in 1 .. Len(rows) :
       /\ PlannedRow(rows[i])
       /\ i >= place => Fresh(rows[i])
       /\ i < place => Passed(i)
  /\ started => place \in 1 .. Len(rows) /\ Wanted(rows[place])
                /\ (rows[place].op # "cleanup" => ~broken)
  /\ place > 0 => executing /\ CheckWanted
  /\ place = 0 => scratch = "none" /\ signals = 0
  /\ code # Rehearse!NoExit /\ place > 0 /\ signals < 2 => place > Len(rows)
  /\ code = 2 => place = 0
  /\ code = 0 /\ executing => place > Len(rows) /\ ~broken /\ signals = 0 /\ scratch = "removed"
  /\ code = 130 => signals > 0

LEMMA PlannedFacts ==
  ASSUME faults \in BOOLEAN, NEW expects \in Seq(Int), NEW kindOf \in {"setup", "action", "check", "cleanup"},
         NEW fault \in BOOLEAN, NEW p, p = Rehearse!Planned(expects, kindOf, fault)
  PROVE  /\ p \in Seq(Rows) /\ Len(p) = Len(expects)
         /\ \A i \in 1 .. Len(expects) :
              p[i].op = kindOf /\ p[i].fault = fault /\ p[i].expect = expects[i] /\ Fresh(p[i])
<1>1. PICK n : n = Len(expects) /\ n \in Nat /\ DOMAIN expects = 1 .. n
  OBVIOUS
<1>2. p = [i \in 1 .. n |->
             [op |-> kindOf, fault |-> fault, expect |-> expects[i], exited |-> Rehearse!NoExit,
              status |-> IF fault /\ ~faults THEN "skipped" ELSE "planned"]]
  BY <1>1 DEF Rehearse!Planned
<1>3. ASSUME NEW i \in 1 .. n
      PROVE  p[i] \in Rows /\ p[i].op = kindOf /\ p[i].fault = fault /\ p[i].expect = expects[i] /\ Fresh(p[i])
  <2>1. expects[i] \in Int /\ Rehearse!NoExit \in Int
    BY <1>1 DEF Rehearse!NoExit
  <2>2. PICK x, st : /\ x = p[i] /\ st = IF fault /\ ~faults THEN "skipped" ELSE "planned"
                     /\ x = [op |-> kindOf, fault |-> fault, expect |-> expects[i],
                             exited |-> Rehearse!NoExit, status |-> st]
    BY <1>2
  <2>3. x.op = kindOf /\ x.fault = fault /\ x.expect = expects[i] /\ x.exited = Rehearse!NoExit /\ x.status = st
    BY <2>2
  <2>4. x \in Rows
    BY <2>1, <2>2 DEF Rows
  <2>5. Fresh(x)
    BY <2>2, <2>3 DEF Fresh, Wanted
  <2> QED  BY <2>2, <2>3, <2>4, <2>5
<1>4. p \in [1 .. n -> Rows]
  BY <1>2, <1>3
<1> QED  BY <1>1, <1>3, <1>4

LEMMA ZerosFacts ==
  ASSUME NEW s \in Seq(Int), Rehearse!Zeros(s) PROVE \A i \in 1 .. Len(s) : s[i] = 0
  BY DEF Rehearse!Zeros, Rehearse!ToSet

(* The rows of one scenario.                                                 *)
Segment(s) == Rehearse!Planned(s.steps, "action", s.fault) \o Rehearse!Planned(s.checks, "check", s.fault)

LEMMA SegmentFacts ==
  ASSUME faults \in BOOLEAN, NEW s, s.steps \in Seq(Int), s.checks \in Seq(Int), s.fault \in BOOLEAN,
         s.checks # <<>>, Rehearse!Zeros(s.checks), s.fault \/ Rehearse!Zeros(s.steps)
  PROVE  /\ Segment(s) \in Seq(Rows)
         /\ \A x \in Of(Segment(s)) : PlannedRow(x) /\ Fresh(x)
         /\ \E x \in Of(Segment(s)) : x.op = "check" /\ x.fault = s.fault
<1>1. PICK a, c, acts, checks, fault :
        /\ a = Rehearse!Planned(acts, "action", fault) /\ c = Rehearse!Planned(checks, "check", fault)
        /\ acts = s.steps /\ checks = s.checks /\ fault = s.fault
  OBVIOUS
<1>2. /\ a \in Seq(Rows) /\ Len(a) = Len(acts)
      /\ \A i \in 1 .. Len(acts) :
           a[i].op = "action" /\ a[i].fault = fault /\ a[i].expect = acts[i] /\ Fresh(a[i])
  BY <1>1, PlannedFacts
<1>3. /\ c \in Seq(Rows) /\ Len(c) = Len(checks)
      /\ \A i \in 1 .. Len(checks) :
           c[i].op = "check" /\ c[i].fault = fault /\ c[i].expect = checks[i] /\ Fresh(c[i])
  BY <1>1, PlannedFacts
<1>4. PICK both : both = Segment(s) /\ both = a \o c
  BY <1>1 DEF Segment
<1>5. both \in Seq(Rows) /\ Of(both) = Of(a) \cup Of(c)
  BY <1>2, <1>3, <1>4, OfBoth
<1>6. ASSUME NEW x \in Of(a) PROVE PlannedRow(x) /\ Fresh(x)
  <2>1. PICK i \in 1 .. Len(acts) : x = a[i]
    BY <1>2 DEF Of
  <2>2. fault \/ acts[i] = 0
    BY <1>1, ZerosFacts
  <2> QED  BY <1>2, <2>1, <2>2 DEF PlannedRow
<1>7. ASSUME NEW x \in Of(c) PROVE PlannedRow(x) /\ Fresh(x)
  <2>1. PICK i \in 1 .. Len(checks) : x = c[i]
    BY <1>3 DEF Of
  <2>2. checks[i] = 0
    BY <1>1, ZerosFacts
  <2> QED  BY <1>3, <2>1, <2>2 DEF PlannedRow
<1>8. c[1] \in Of(c) /\ c[1].op = "check" /\ c[1].fault = fault
  <2>1. 1 \in 1 .. Len(checks)
    BY <1>1
  <2> QED  BY <1>3, <2>1 DEF Of
<1> QED  BY <1>1, <1>4, <1>5, <1>6, <1>7, <1>8

(* The rows of a contract that was accepted.                                 *)
LEMMA PlanFacts ==
  ASSUME Rehearse!RehearsalAssumption, contract \in Contracts, faults \in BOOLEAN, Rehearse!Accepted
  PROVE  /\ Rehearse!plan \in Seq(Rows)
         /\ \A x \in Of(Rehearse!plan) : PlannedRow(x) /\ Fresh(x)
         /\ executing => \E x \in Of(Rehearse!plan) : x.op = "check" /\ Wanted(x)
<1>1. PICK setup, cleanup, scenarios, n :
        /\ setup = contract.setup /\ cleanup = contract.cleanup /\ scenarios = contract.scenarios
        /\ n = Len(scenarios)
  OBVIOUS
<1>2. /\ setup \in Seq(Int) /\ cleanup \in Seq(Int) /\ scenarios \in Seq(Rehearse!ToSet(scenarios))
      /\ \A s \in Rehearse!ToSet(scenarios) : s.steps \in Seq(Int) /\ s.checks \in Seq(Int) /\ s.fault \in BOOLEAN
  BY <1>1 DEF Rehearse!RehearsalAssumption
<1>3. n \in Nat /\ DOMAIN scenarios = 1 .. n /\ \A i \in 1 .. n : scenarios[i] \in Rehearse!ToSet(scenarios)
  BY <1>1, <1>2 DEF Rehearse!ToSet
<1>4. /\ n > 0 /\ Rehearse!Zeros(setup) /\ Rehearse!Zeros(cleanup)
      /\ \A s \in Rehearse!ToSet(scenarios) :
           s.checks # <<>> /\ Rehearse!Zeros(s.checks) /\ (s.fault \/ Rehearse!Zeros(s.steps))
  <2>1. Len(contract.scenarios) \in 1 .. MaxScenarios /\ MaxScenarios \in Nat
    BY DEF Rehearse!Accepted, Rehearse!validate, Rehearse!RehearsalAssumption
  <2>2. n > 0
    BY <1>1, <2>1
  <2>3. /\ Rehearse!Zeros(setup) /\ Rehearse!Zeros(cleanup)
        /\ \A s \in Rehearse!ToSet(scenarios) :
             s.checks # <<>> /\ Rehearse!Zeros(s.checks) /\ (s.fault \/ Rehearse!Zeros(s.steps))
    BY <1>1 DEF Rehearse!Accepted, Rehearse!validate, Rehearse!Scenarios
  <2> QED  BY <2>2, <2>3
<1>5. PICK segs, mid, first, after :
        /\ segs = [i \in 1 .. n |-> Segment(scenarios[i])] /\ mid = Rehearse!FlattenSeq(segs)
        /\ first = Rehearse!Planned(setup, "setup", FALSE) /\ after = Rehearse!Planned(cleanup, "cleanup", FALSE)
  OBVIOUS
<1>6. ASSUME NEW i \in 1 .. n
      PROVE  /\ Segment(scenarios[i]) \in Seq(Rows)
             /\ \A x \in Of(Segment(scenarios[i])) : PlannedRow(x) /\ Fresh(x)
             /\ \E x \in Of(Segment(scenarios[i])) : x.op = "check" /\ x.fault = scenarios[i].fault
  <2>1. PICK s : s = scenarios[i] /\ s \in Rehearse!ToSet(scenarios)
    BY <1>3
  <2>2. /\ s.steps \in Seq(Int) /\ s.checks \in Seq(Int) /\ s.fault \in BOOLEAN
        /\ s.checks # <<>> /\ Rehearse!Zeros(s.checks) /\ (s.fault \/ Rehearse!Zeros(s.steps))
    BY <1>2, <1>4, <2>1
  <2>3. /\ Segment(s) \in Seq(Rows)
        /\ \A x \in Of(Segment(s)) : PlannedRow(x) /\ Fresh(x)
        /\ \E x \in Of(Segment(s)) : x.op = "check" /\ x.fault = s.fault
    BY <2>2, SegmentFacts
  <2> QED  BY <2>1, <2>3
<1>7. segs \in Seq(Seq(Rows)) /\ Len(segs) = n /\ \A i \in 1 .. n : segs[i] = Segment(scenarios[i])
  BY <1>3, <1>5, <1>6
<1>8. mid \in Seq(Rows) /\ \A x : x \in Of(mid) <=> \E i \in 1 .. n : x \in Of(Segment(scenarios[i]))
  BY <1>5, <1>7, FlatFacts
<1>9. \A x \in Of(mid) : PlannedRow(x) /\ Fresh(x)
  BY <1>6, <1>8
<1>10. /\ first \in Seq(Rows) /\ Len(first) = Len(setup)
       /\ \A i \in 1 .. Len(setup) :
            first[i].op = "setup" /\ first[i].fault = FALSE /\ first[i].expect = setup[i] /\ Fresh(first[i])
  <2>1. PICK kindOf, fault : kindOf = "setup" /\ fault = FALSE
    OBVIOUS
  <2>2. /\ first \in Seq(Rows) /\ Len(first) = Len(setup)
        /\ \A i \in 1 .. Len(setup) :
             first[i].op = kindOf /\ first[i].fault = fault /\ first[i].expect = setup[i] /\ Fresh(first[i])
    <3>1. /\ kindOf \in {"setup", "action", "check", "cleanup"} /\ fault \in BOOLEAN
          /\ first = Rehearse!Planned(setup, kindOf, fault) /\ setup \in Seq(Int)
      BY <1>2, <1>5, <2>1
    <3> QED  BY <3>1, PlannedFacts
  <2> QED  BY <2>1, <2>2
<1>11. /\ after \in Seq(Rows) /\ Len(after) = Len(cleanup)
       /\ \A i \in 1 .. Len(cleanup) :
            after[i].op = "cleanup" /\ after[i].fault = FALSE /\ after[i].expect = cleanup[i] /\ Fresh(after[i])
  <2>1. PICK kindOf, fault : kindOf = "cleanup" /\ fault = FALSE
    OBVIOUS
  <2>2. /\ after \in Seq(Rows) /\ Len(after) = Len(cleanup)
        /\ \A i \in 1 .. Len(cleanup) :
             after[i].op = kindOf /\ after[i].fault = fault /\ after[i].expect = cleanup[i] /\ Fresh(after[i])
    <3>1. /\ kindOf \in {"setup", "action", "check", "cleanup"} /\ fault \in BOOLEAN
          /\ after = Rehearse!Planned(cleanup, kindOf, fault) /\ cleanup \in Seq(Int)
      BY <1>2, <1>5, <2>1
    <3> QED  BY <3>1, PlannedFacts
  <2> QED  BY <2>1, <2>2
<1>12. \A x \in Of(first) : PlannedRow(x) /\ Fresh(x)
  BY <1>2, <1>4, <1>10, ZerosFacts DEF Of, PlannedRow
<1>13. \A x \in Of(after) : PlannedRow(x) /\ Fresh(x)
  BY <1>2, <1>4, <1>11, ZerosFacts DEF Of, PlannedRow
<1>14. PICK front, whole : front = first \o mid /\ whole = front \o after
  OBVIOUS
<1>15. Rehearse!plan = whole
  <2>1. segs = [i \in DOMAIN contract.scenarios |->
                  LET s == contract.scenarios[i]
                  IN Rehearse!Planned(s.steps, "action", s.fault) \o Rehearse!Planned(s.checks, "check", s.fault)]
    BY <1>1, <1>3, <1>5 DEF Segment
  <2> QED  BY <1>1, <1>5, <1>14, <2>1 DEF Rehearse!plan
<1>16. front \in Seq(Rows) /\ Of(front) = Of(first) \cup Of(mid)
  BY <1>8, <1>10, <1>14, OfBoth
<1>17. whole \in Seq(Rows) /\ Of(whole) = Of(front) \cup Of(after)
  <2>1. after \in Seq(Rows) /\ front \in Seq(Rows) /\ whole = front \o after
    BY <1>11, <1>14, <1>16
  <2> QED  BY <2>1, OfBoth
<1>18. ASSUME executing PROVE \E x \in Of(mid) : x.op = "check" /\ Wanted(x)
  <2>1. PICK i \in 1 .. n : faults \/ ~scenarios[i].fault
    BY <1>1, <1>3, <1>4, <1>18 DEF Rehearse!Accepted, Rehearse!Selected, Rehearse!Scenarios, Rehearse!ToSet
  <2>2. PICK x \in Of(Segment(scenarios[i])) : x.op = "check" /\ x.fault = scenarios[i].fault
    BY <1>6
  <2> QED  BY <1>8, <2>1, <2>2 DEF Wanted
<1> QED  BY <1>9, <1>12, <1>13, <1>15, <1>16, <1>17, <1>18

LEMMA RehearsalInit == ASSUME Rehearse!Init PROVE RehearsalInv
<1>1. Len(rows) = 0 /\ 1 .. 0 = {} /\ rows \in Seq(Rows)
  BY DEF Rehearse!Init
<1>2. place = 0 /\ 0 \in 0 .. 0 + 1
  BY DEF Rehearse!Init
<1> QED  BY <1>1, <1>2 DEF Rehearse!Init, RehearsalInv, Rehearse!NoExit

LEMMA PlanStep ==
  ASSUME Rehearse!RehearsalAssumption, RehearsalInv, Rehearse!Accepted, rows' = Rehearse!plan,
         UNCHANGED <<contract, faults, executing>>
  PROVE  /\ rows' \in Seq(Rows) /\ Len(rows') \in Nat
         /\ \A i \in 1 .. Len(rows') : PlannedRow(rows[i])' /\ Fresh(rows[i])'
         /\ executing => CheckWanted'
<1>1. PICK p : p = Rehearse!plan
  OBVIOUS
<1>2. /\ p \in Seq(Rows) /\ \A x \in Of(p) : PlannedRow(x) /\ Fresh(x)
      /\ executing => \E x \in Of(p) : x.op = "check" /\ Wanted(x)
  BY <1>1, PlanFacts DEF RehearsalInv
<1>3. /\ \A i \in 1 .. Len(p) : PlannedRow(p[i]) /\ Fresh(p[i])
      /\ executing => \E i \in 1 .. Len(p) : p[i].op = "check" /\ Wanted(p[i])
  BY <1>2 DEF Of
<1>4. Len(p) \in Nat
  BY <1>2
<1> QED  BY <1>1, <1>2, <1>3, <1>4 DEF PlannedRow, Fresh, Wanted, CheckWanted

LEMMA OpenKeeps ==
  ASSUME Rehearse!RehearsalAssumption, RehearsalInv, Rehearse!Validate \/ Rehearse!Open
  PROVE  RehearsalInv'
<1>1. /\ rows' = Rehearse!plan /\ place = 0 /\ Rehearse!Accepted /\ code = Rehearse!NoExit
      /\ UNCHANGED <<contract, executing, faults, started, broken, signals>>
      /\ \/ ~executing /\ code' = 0 /\ UNCHANGED <<place, scratch>>
         \/ executing /\ place' = 1 /\ scratch' = "there" /\ UNCHANGED code
         \/ executing /\ code' = 1 /\ UNCHANGED <<place, scratch>>
  BY DEF Rehearse!Validate, Rehearse!Open, Rehearse!given
<1>2. PICK n : n = Len(rows')
  OBVIOUS
<1>3. /\ rows' \in Seq(Rows) /\ n \in Nat
      /\ \A i \in 1 .. n : PlannedRow(rows[i])' /\ Fresh(rows[i])'
      /\ executing => CheckWanted'
  BY <1>1, <1>2, PlanStep
<1>4. \A i \in 1 .. n : ~(i < 0) /\ ~(i < 1)
  BY <1>3
<1>5. place' \in 0 .. n + 1 /\ ~started /\ signals = 0 /\ scratch = "none"
  BY <1>1, <1>3 DEF RehearsalInv
<1> QED  BY <1>1, <1>2, <1>3, <1>4, <1>5 DEF RehearsalInv, Rehearse!NoExit

LEMMA RefuseRehearsal == ASSUME RehearsalInv, Rehearse!Refuse PROVE RehearsalInv'
<1>1. /\ place = 0 /\ code' = 2
      /\ UNCHANGED <<contract, executing, faults, rows, place, started, broken, signals, scratch>>
  BY DEF Rehearse!Refuse, Rehearse!given
<1>2. 0 \in 0 .. Len(rows) + 1
  BY <1>1 DEF RehearsalInv
<1>3. ~started /\ \A i \in 1 .. Len(rows) : ~(i < 0)
  BY <1>1 DEF RehearsalInv
<1> QED  BY <1>1, <1>2, <1>3 DEF RehearsalInv, PlannedRow, Fresh, Wanted

(* The step at hand is over: what was behind is as it was.                   *)
LEMMA OneMore ==
  ASSUME RehearsalInv, place \in 1 .. Len(rows), code = Rehearse!NoExit,
         NEW row \in Rows, rows' = [rows EXCEPT ![place] = row],
         row.op = rows[place].op, row.fault = rows[place].fault, row.expect = rows[place].expect,
         place' = place + 1, started' = FALSE, broken => broken',
         UNCHANGED <<contract, executing, faults, signals, scratch, code>>,
         Ran(row) => Wanted(row), row.op = "cleanup" => Ran(row),
         Ran(row) /\ row.op # "cleanup" => ~broken,
         ~broken' /\ Ran(row) => row.exited = row.expect,
         ~broken' /\ signals = 0 /\ Wanted(row) => Ran(row)
  PROVE  RehearsalInv'
<1>1. PICK n : n = Len(rows) /\ n \in Nat /\ place \in 1 .. n
  BY DEF RehearsalInv
<1>2. /\ rows' \in Seq(Rows) /\ Len(rows') = n
      /\ rows'[place] = row /\ \A i \in 1 .. n : i # place => rows'[i] = rows[i]
  <2>1. rows \in Seq(Rows)
    BY DEF RehearsalInv
  <2> QED  BY <1>1, <2>1
<1>3. place + 1 \in 0 .. n + 1 /\ place + 1 > 0 /\ place + 1 # 0
  BY <1>1
<1>4. \A i \in 1 .. n : PlannedRow(rows[i])'
  BY <1>1, <1>2 DEF RehearsalInv, PlannedRow
<1>5. \A i \in 1 .. n : i >= place + 1 => Fresh(rows[i])'
  <2>1. \A i \in 1 .. n : i >= place + 1 => i # place /\ i >= place
    BY <1>1
  <2> QED  BY <1>1, <1>2, <2>1 DEF RehearsalInv, Fresh, Wanted
<1>6. ASSUME NEW i \in 1 .. n, i < place PROVE Passed(i)'
  <2>1. Passed(i) /\ i # place /\ \A j \in 1 .. i - 1 : j # place /\ j \in 1 .. n
    BY <1>1, <1>6 DEF RehearsalInv
  <2>2. rows'[i] = rows[i] /\ \A j \in 1 .. i - 1 : rows'[j] = rows[j]
    BY <1>2, <2>1
  <2> QED  BY <2>1, <2>2 DEF Passed, Ran, Wanted
<1>7. PICK p : p = place
  OBVIOUS
<1>12. Passed(p)'
  <2>1. ASSUME ~broken PROVE \A j \in 1 .. place - 1 : Ran(rows[j]) => rows[j].exited = rows[j].expect
    <3>1. \A j \in 1 .. place - 1 : j \in 1 .. n /\ j < place
      BY <1>1
    <3> QED  BY <1>1, <2>1, <3>1 DEF RehearsalInv, Passed
  <2>2. \A j \in 1 .. place - 1 : rows'[j] = rows[j]
    <3>1. \A j \in 1 .. place - 1 : j \in 1 .. n /\ j # place
      BY <1>1
    <3> QED  BY <1>2, <3>1
  <2> QED  BY <1>2, <1>7, <2>1, <2>2 DEF Passed, Ran, Wanted
<1>8. \A i \in 1 .. n : i < place + 1 => i < place \/ i = place
  BY <1>1
<1>9. \A i \in 1 .. n : i < place' => Passed(i)'
  BY <1>6, <1>7, <1>8, <1>12
<1>10. CheckWanted' /\ executing
  <2>1. CheckWanted /\ executing
    BY <1>1 DEF RehearsalInv
  <2>2. PICK i \in 1 .. n : rows[i].op = "check" /\ Wanted(rows[i])
    BY <1>1, <2>1 DEF CheckWanted
  <2>3. rows'[i].op = "check" /\ Wanted(rows'[i])
    BY <1>2, <2>2 DEF Wanted
  <2> QED  BY <1>2, <2>1, <2>3 DEF CheckWanted, Wanted
<1>11. contract' \in Contracts /\ faults' \in BOOLEAN /\ signals' \in Nat
  BY DEF RehearsalInv
<1> QED  BY <1>1, <1>2, <1>3, <1>4, <1>5, <1>9, <1>10, <1>11 DEF RehearsalInv, Rehearse!NoExit

LEMMA Renamed ==
  ASSUME NEW row \in Rows, NEW status \in {"planned", "skipped", "passed", "failed"}
  PROVE  \E x \in Rows : x = [row EXCEPT !.status = status] /\ x.op = row.op /\ x.fault = row.fault
                         /\ x.expect = row.expect /\ x.exited = row.exited
<1>1. PICK kindOf \in {"setup", "action", "check", "cleanup"}, fault \in BOOLEAN, expect \in Int,
           exited \in Int, was \in {"planned", "skipped", "passed", "failed"} :
        row = [op |-> kindOf, fault |-> fault, expect |-> expect, exited |-> exited, status |-> was]
  BY DEF Rows
<1>2. PICK x : x = [op |-> kindOf, fault |-> fault, expect |-> expect, exited |-> exited, status |-> status]
  OBVIOUS
<1>3. x = [row EXCEPT !.status = status]
  BY <1>1, <1>2
<1>4. x \in Rows /\ x.op = row.op /\ x.fault = row.fault /\ x.expect = row.expect /\ x.exited = row.exited
  BY <1>1, <1>2 DEF Rows
<1> QED  BY <1>3, <1>4

Ended(row, c, status, x) == x = [row EXCEPT !.exited = c, !.status = status]
LEMMA Recorded ==
  ASSUME NEW row \in Rows, NEW status \in {"planned", "skipped", "passed", "failed"}, NEW c \in Int,
         NEW x, Ended(row, c, status, x)
  PROVE  x \in Rows /\ x.op = row.op /\ x.fault = row.fault /\ x.expect = row.expect /\ x.exited = c
<1>1. PICK kindOf \in {"setup", "action", "check", "cleanup"}, fault \in BOOLEAN, expect \in Int,
           exited \in Int, was \in {"planned", "skipped", "passed", "failed"} :
        row = [op |-> kindOf, fault |-> fault, expect |-> expect, exited |-> exited, status |-> was]
  BY DEF Rows
<1>2. x = [op |-> kindOf, fault |-> fault, expect |-> expect, exited |-> c, status |-> status]
  <2>1. DOMAIN row = {"op", "fault", "expect", "exited", "status"}
    BY <1>1
  <2>2. x = [k \in {"op", "fault", "expect", "exited", "status"} |->
               IF k = "status" THEN status ELSE IF k = "exited" THEN c ELSE row[k]]
    BY <2>1 DEF Ended
  <2>3. \A k \in {"op", "fault", "expect", "exited", "status"} :
          (IF k = "status" THEN status ELSE IF k = "exited" THEN c ELSE row[k])
            = [op |-> kindOf, fault |-> fault, expect |-> expect, exited |-> c, status |-> status][k]
    BY <1>1
  <2> QED  BY <2>2, <2>3
<1> QED  BY <1>1, <1>2 DEF Rows

LEMMA SkipKeeps == ASSUME RehearsalInv, Rehearse!Skip PROVE RehearsalInv'
<1>1. /\ code = Rehearse!NoExit /\ place > 0 /\ ~started /\ place <= Len(rows)
      /\ rows[place].status = "skipped" \/ Rehearse!Halted
      /\ rows' = [rows EXCEPT ![place].status = "skipped"] /\ place' = place + 1
      /\ UNCHANGED <<contract, executing, faults, started, broken, signals, scratch, code>>
  BY DEF Rehearse!Skip, Rehearse!Live, Rehearse!given, Rehearse!Row
<1>2. place \in 1 .. Len(rows) /\ rows \in Seq(Rows)
  BY <1>1 DEF RehearsalInv
<1>3. PICK row, st : row = rows[place] /\ row \in Rows /\ st = "skipped"
  BY <1>2
<1>4. PICK x \in Rows : /\ x = [row EXCEPT !.status = st] /\ x.op = row.op /\ x.fault = row.fault
                        /\ x.expect = row.expect /\ x.exited = row.exited
  <2>1. st \in {"planned", "skipped", "passed", "failed"}
    BY <1>3
  <2> QED  BY <1>3, <2>1, Renamed
<1>5. rows' = [rows EXCEPT ![place] = x]
  BY <1>1, <1>3, <1>4
<1>6. Fresh(row) /\ PlannedRow(row)
  <2>1. place >= place
    BY <1>2
  <2> QED  BY <1>2, <1>3, <2>1 DEF RehearsalInv
<1>7. ~Ran(x)
  BY <1>4, <1>6 DEF Ran, Fresh
<1>8. /\ x.op # "cleanup"
      /\ ~(~broken /\ signals = 0 /\ Wanted(x))
  <2>1. CASE row.status = "skipped"
    BY <1>4, <1>6, <2>1 DEF Fresh, Wanted, PlannedRow
  <2>2. CASE Rehearse!Halted
    BY <1>3, <1>4, <2>2 DEF Rehearse!Halted, Rehearse!Row, RehearsalInv
  <2> QED  BY <1>1, <1>3, <2>1, <2>2
<1>9. /\ x.op = rows[place].op /\ x.fault = rows[place].fault /\ x.expect = rows[place].expect
      /\ started' = FALSE /\ (broken => broken')
      /\ Ran(x) => Wanted(x)
      /\ x.op = "cleanup" => Ran(x)
      /\ Ran(x) /\ x.op # "cleanup" => ~broken
      /\ ~broken' /\ Ran(x) => x.exited = x.expect
      /\ ~broken' /\ signals = 0 /\ Wanted(x) => Ran(x)
  BY <1>1, <1>3, <1>4, <1>7, <1>8
<1> QED  BY <1>1, <1>2, <1>5, <1>9, OneMore

LEMMA RunKeeps == ASSUME RehearsalInv, Rehearse!Run PROVE RehearsalInv'
<1>1. /\ code = Rehearse!NoExit /\ place > 0 /\ place <= Len(rows)
      /\ rows[place].status # "skipped" /\ ~Rehearse!Halted
      /\ UNCHANGED <<contract, executing, faults, rows, place, broken, signals, scratch, code>>
  BY DEF Rehearse!Run, Rehearse!Live, Rehearse!given, Rehearse!Row
<1>2. place \in 1 .. Len(rows) /\ place >= place
  BY <1>1 DEF RehearsalInv
<1>3. Fresh(rows[place])
  BY <1>2 DEF RehearsalInv
<1>4. Wanted(rows[place]) /\ (rows[place].op # "cleanup" => ~broken)
  BY <1>1, <1>3 DEF Fresh, Rehearse!Halted, Rehearse!Row
<1> QED  BY <1>1, <1>2, <1>4 DEF RehearsalInv, PlannedRow, Fresh, Wanted, Passed, Ran, CheckWanted

LEMMA RecordKeeps == ASSUME Rehearse!RehearsalAssumption, RehearsalInv, Rehearse!Record PROVE RehearsalInv'
<1>1. PICK c, matched :
        /\ c \in Rehearse!Exited
        /\ code = Rehearse!NoExit /\ place > 0 /\ started /\ started' = FALSE /\ place' = place + 1
        /\ matched = (c = rows[place].expect /\ (rows[place].op = "cleanup" \/ signals = 0))
        /\ rows' = [rows EXCEPT ![place].exited = c,
                                ![place].status = IF matched THEN "passed" ELSE "failed"]
        /\ broken' = (broken \/ ~matched)
        /\ UNCHANGED <<contract, executing, faults, signals, scratch, code>>
  BY DEF Rehearse!Record, Rehearse!Live, Rehearse!given, Rehearse!Row
<1>2. place \in 1 .. Len(rows) /\ rows \in Seq(Rows) /\ Wanted(rows[place])
      /\ (rows[place].op # "cleanup" => ~broken)
  BY <1>1 DEF RehearsalInv
<1>3. c \in Int /\ c # Rehearse!NoExit
  <2>1. c \in Rehearse!Exited
    BY <1>1
  <2> QED
    BY <2>1 DEF Rehearse!Exited, Rehearse!RehearsalAssumption, Rehearse!Error, Rehearse!Cut, Rehearse!NoExit
<1>4. PICK row, st : row = rows[place] /\ row \in Rows /\ st = IF matched THEN "passed" ELSE "failed"
  BY <1>2
<1>5. PICK x : Ended(row, c, st, x) /\ x \in Rows /\ x.op = row.op /\ x.fault = row.fault
               /\ x.expect = row.expect /\ x.exited = c
  <2>1. st \in {"planned", "skipped", "passed", "failed"}
    BY <1>4
  <2>2. PICK x : Ended(row, c, st, x)
    BY DEF Ended
  <2>3. x \in Rows /\ x.op = row.op /\ x.fault = row.fault /\ x.expect = row.expect /\ x.exited = c
    BY <1>3, <1>4, <2>1, <2>2, Recorded
  <2> QED  BY <2>2, <2>3
<1>6. rows' = [rows EXCEPT ![place] = x]
  BY <1>1, <1>4, <1>5 DEF Ended
<1>7. /\ Ran(x) /\ Wanted(x) /\ (x.op # "cleanup" => ~broken)
      /\ ~broken' => x.exited = x.expect
      /\ broken => broken'
  BY <1>1, <1>2, <1>3, <1>4, <1>5 DEF Ran, Wanted
<1>8. x.op = rows[place].op /\ x.fault = rows[place].fault /\ x.expect = rows[place].expect
  BY <1>4, <1>5
<1>9. /\ Ran(x) => Wanted(x)
      /\ x.op = "cleanup" => Ran(x)
      /\ Ran(x) /\ x.op # "cleanup" => ~broken
      /\ ~broken' /\ Ran(x) => x.exited = x.expect
      /\ ~broken' /\ signals = 0 /\ Wanted(x) => Ran(x)
      /\ x \in Rows /\ place' = place + 1 /\ started' = FALSE /\ code = Rehearse!NoExit
      /\ UNCHANGED <<contract, executing, faults, signals, scratch, code>>
  BY <1>1, <1>5, <1>7
<1> QED  BY <1>2, <1>6, <1>7, <1>8, <1>9, OneMore

LEMMA CloseKeeps == ASSUME RehearsalInv, Rehearse!Close PROVE RehearsalInv'
<1>1. /\ code = Rehearse!NoExit /\ place > 0 /\ place > Len(rows)
      /\ \/ /\ scratch' = "removed"
            /\ verdict' = IF signals > 0 THEN "interrupted" ELSE IF broken THEN "failed" ELSE "passed"
         \/ scratch' = "left" /\ verdict' = "failed"
      /\ code' = IF verdict' = "passed" THEN 0 ELSE IF verdict' = "interrupted" THEN 130 ELSE 1
      /\ UNCHANGED <<contract, executing, faults, rows, place, started, broken, signals>>
  BY DEF Rehearse!Close, Rehearse!Live, Rehearse!given
<1>2. signals \in Nat /\ ~started
  BY <1>1 DEF RehearsalInv
<1>3. /\ code' = 0 => ~broken /\ signals = 0 /\ scratch' = "removed"
      /\ code' = 130 => signals > 0
      /\ code' # 2
  BY <1>1, <1>2
<1>4. place # 0
  BY <1>1
<1> QED  BY <1>1, <1>2, <1>3, <1>4 DEF RehearsalInv, PlannedRow, Fresh, Wanted, Passed, Ran, CheckWanted

LEMMA SignalKeeps == ASSUME RehearsalInv, Rehearse!Signal PROVE RehearsalInv'
<1>1. /\ code = Rehearse!NoExit /\ place > 0 /\ signals' = signals + 1
      /\ code' = IF signals = 1 THEN 130 ELSE code
      /\ UNCHANGED <<contract, executing, faults, rows, place, started, broken, scratch>>
  BY DEF Rehearse!Signal, Rehearse!Live, Rehearse!given, Rehearse!Cut
<1>2. signals \in Nat /\ signals' \in Nat /\ signals' # 0 /\ signals' > 0 /\ (signals = 1 => ~(signals' < 2))
      /\ place # 0
  BY <1>1 DEF RehearsalInv
<1>3. \A i \in 1 .. Len(rows) : Passed(i) => Passed(i)'
  BY <1>1, <1>2 DEF Passed, Ran, Wanted
<1> QED  BY <1>1, <1>2, <1>3 DEF RehearsalInv, PlannedRow, Fresh, Wanted, CheckWanted, Rehearse!NoExit

LEMMA RehearsalStep ==
  ASSUME Rehearse!RehearsalAssumption, RehearsalInv, [Rehearse!Next]_(Rehearse!vars) PROVE RehearsalInv'
<1>1. CASE UNCHANGED Rehearse!vars
  <2>1. UNCHANGED <<contract, executing, faults, rows, place, started, broken, signals, scratch, code>>
    BY <1>1 DEF Rehearse!vars, Rehearse!given
  <2> QED  BY <2>1 DEF RehearsalInv, PlannedRow, Fresh, Wanted, Passed, Ran, CheckWanted
<1> QED  BY <1>1, RefuseRehearsal, OpenKeeps, SkipKeeps, RunKeeps, RecordKeeps, CloseKeeps, SignalKeeps
         DEF Rehearse!Next

LEMMA RehearsalPromise == ASSUME RehearsalInv PROVE Rehearse!RehearsalHonest
<1>1. PICK n : n = Len(rows) /\ n \in Nat /\ DOMAIN rows = 1 .. n /\ place \in 0 .. n + 1 /\ signals \in Nat
  BY DEF RehearsalInv
<1>2. \A i \in 1 .. n : Ran(rows[i]) => i < place /\ Passed(i)
  <2>1. \A i \in 1 .. n : i >= place \/ i < place
    BY <1>1
  <2> QED  BY <1>1, <2>1 DEF RehearsalInv, Fresh, Ran
<1>3. place > n => \A i \in 1 .. n : Passed(i)
  <2>1. place > n => \A i \in 1 .. n : i < place
    BY <1>1
  <2> QED  BY <1>1, <2>1 DEF RehearsalInv
<1>4. code = 2 \/ ~executing => \A i \in DOMAIN rows : rows[i].exited = Rehearse!NoExit
  <2>1. code = 2 \/ ~executing => place = 0
    BY <1>1 DEF RehearsalInv
  <2>2. \A i \in 1 .. n : ~(i < 0)
    BY <1>1
  <2> QED  BY <1>1, <1>2, <2>1, <2>2 DEF Ran
<1>5. \A i \in DOMAIN rows : rows[i].exited # Rehearse!NoExit =>
        /\ ~rows[i].fault \/ faults
        /\ rows[i].op = "cleanup" \/ \A j \in 1 .. i - 1 :
             rows[j].exited # Rehearse!NoExit => rows[j].exited = rows[j].expect
  BY <1>1, <1>2 DEF Passed, Ran, Wanted
<1>6. ASSUME executing, code = 0
      PROVE  /\ \E i \in DOMAIN rows : rows[i].op = "check" /\ rows[i].exited # Rehearse!NoExit
             /\ \A i \in DOMAIN rows : (rows[i].fault => faults) =>
                  /\ rows[i].exited = rows[i].expect
                  /\ rows[i].expect = 0 \/ (rows[i].fault /\ rows[i].op = "action")
             /\ scratch = "removed" /\ signals = 0
  <2>1. place > n /\ ~broken /\ signals = 0 /\ scratch = "removed"
    BY <1>1, <1>6 DEF RehearsalInv
  <2>2. CheckWanted
    BY <1>1, <2>1 DEF RehearsalInv
  <2>3. \A i \in 1 .. n : Passed(i) /\ PlannedRow(rows[i])
    BY <1>1, <1>3, <2>1 DEF RehearsalInv
  <2>4. \A i \in 1 .. n : Wanted(rows[i]) => Ran(rows[i]) /\ rows[i].exited = rows[i].expect
    BY <2>1, <2>3 DEF Passed
  <2> QED  BY <1>1, <2>1, <2>2, <2>3, <2>4 DEF CheckWanted, Wanted, Ran, PlannedRow
<1>7. code # Rehearse!NoExit /\ scratch # "none" /\ signals < 2 =>
        \A i \in DOMAIN rows : rows[i].op = "cleanup" => rows[i].exited # Rehearse!NoExit
  <2>1. code # Rehearse!NoExit /\ scratch # "none" /\ signals < 2 => place > n
    BY <1>1 DEF RehearsalInv
  <2> QED  BY <1>1, <1>3, <2>1 DEF Passed, Ran
<1>8. code = 130 => signals > 0
  BY DEF RehearsalInv
<1> QED  BY <1>1, <1>4, <1>5, <1>6, <1>7, <1>8 DEF Rehearse!RehearsalHonest

(* rehearse.rs, docs/rehearsal.md: for any contract, however long, and whatever
   its commands do, when the operator interrupts included: a rehearsal that passed
   ran every selected step, each with the exit code it expects; nothing but the
   cleanup is started after a failure or a signal, and all of the cleanup is; a
   refused call or one without --execute starts nothing.                     *)
LEMMA RehearsalHolds ==
  ASSUME Rehearse!RehearsalAssumption PROVE Rehearse!Spec => []Rehearse!RehearsalHonest
<1>1. Rehearse!Init => RehearsalInv
  BY RehearsalInit
<1>2. RehearsalInv /\ [Rehearse!Next]_(Rehearse!vars) => RehearsalInv'
  BY RehearsalStep
<1>3. RehearsalInv => Rehearse!RehearsalHonest
  BY RehearsalPromise
<1> QED  BY <1>1, <1>2, <1>3, PTL DEF Rehearse!Spec
-----------------------------------------------------------------------------
(* ------------------------------ Bunny apps ------------------------------ *)
(* Division with a remainder: one remainder for a quotient, and the numbers of one
   block of k have one start.                                                *)
LEMMA OneRemainder ==
  ASSUME NEW k \in Nat, k > 0, NEW q \in Int, NEW p \in Int,
         NEW d \in 0 .. k - 1, NEW e \in 0 .. k - 1, k * q + d = k * p + e
  PROVE  d = e
<1>1. CASE p = q
  BY <1>1
<1>2. CASE q < p
  <2>1. PICK m \in Nat : p = q + 1 + m
    <3>1. p - q - 1 \in Nat /\ p = q + 1 + (p - q - 1)
      BY <1>2
    <3> QED  BY <3>1
  <2>2. k * p = k * q + k + k * m /\ k * m >= 0 /\ k * m \in Int /\ k * q \in Int
    BY <2>1
  <2> QED  BY <2>2
<1>3. CASE p < q
  <2>1. PICK m \in Nat : q = p + 1 + m
    <3>1. q - p - 1 \in Nat /\ q = p + 1 + (q - p - 1)
      BY <1>3
    <3> QED  BY <3>1
  <2>2. k * q = k * p + k + k * m /\ k * m >= 0 /\ k * m \in Int /\ k * p \in Int
    BY <2>1
  <2> QED  BY <2>2
<1> QED  BY <1>1, <1>2, <1>3

LEMMA Quotient == ASSUME NEW y \in Nat, NEW k \in Nat, k > 0 PROVE \E q \in Int : y - (y % k) = k * q
  OBVIOUS

LEMMA Remainder == ASSUME NEW y \in Nat, NEW k \in Nat, k > 0 PROVE y % k \in 0 .. k - 1
  OBVIOUS

LEMMA OneBlock ==
  ASSUME NEW y \in Nat, NEW k \in Nat, k > 0, NEW r, r = y % k, NEW z \in y - r .. y - r + k - 1
  PROVE  z \in Nat /\ z - (z % k) = y - r
<1>1. r \in 0 .. k - 1
  BY Remainder
<1>2. PICK q \in Int : y - r = k * q
  BY <1>1, Quotient
<1>3. y - r \in Nat
  <2>1. y - r > 0 - k
    BY <1>1
  <2>2. q >= 0
    <3>1. SUFFICES ASSUME q <= 0 - 1 PROVE FALSE
      OBVIOUS
    <3>2. PICK m \in Nat : q = 0 - 1 - m
      <4>1. 0 - 1 - q \in Nat /\ q = 0 - 1 - (0 - 1 - q)
        BY <3>1
      <4> QED  BY <4>1
    <3>3. k * q = 0 - k - k * m /\ k * m >= 0 /\ k * m \in Int
      BY <3>2
    <3> QED  BY <1>2, <2>1, <3>3
  <2>3. k * q >= 0 /\ k * q \in Int
    BY <2>2
  <2> QED  BY <1>2, <2>3
<1>4. z \in Nat /\ z - (y - r) \in 0 .. k - 1 /\ z = k * q + (z - (y - r))
  <2>1. k * q \in Int
    OBVIOUS
  <2> QED  BY <1>2, <1>3, <2>1
<1>5. PICK s \in 0 .. k - 1 : s = z % k
  BY <1>4, Remainder
<1>6. PICK p \in Int : z - s = k * p
  BY <1>4, <1>5, Quotient
<1>7. z = k * p + s
  <2>1. k * p \in Int
    OBVIOUS
  <2> QED  BY <1>4, <1>6, <2>1
<1>8. s = z - (y - r)
  BY <1>4, <1>7, OneRemainder
<1>9. z - s = y - r
  BY <1>3, <1>4, <1>8
<1>10. z - (z % k) = z - s
  BY <1>5
<1> QED  BY <1>4, <1>9, <1>10

Stages == {"waits", "read", "patched", "succeeded", "failed"}
What   == {"deploy_fleet", "deploy_app", "rollback_app"}
Rollouts == [what : What, targets : SUBSET (DOMAIN Apps), image : Builds \cup {None},
             canary : Int, batch : Int, max : Int]
Prior(a) == {e \in Bunny!Targets \ Bunny!GroupOf(a) : e < a}

(* A fleet of canaries and batches, or one target.                           *)
Shape ==
  /\ rollout.batch > 0 /\ rollout.canary >= 0 /\ rollout.max >= 0
  /\ rollout.what # "deploy_fleet" => rollout.batch = 1 /\ \A a, b \in Bunny!Targets : a = b
TargetInv(a) ==
  LET was == before.served[a]   back == before.snapshot[a] IN
  /\ went[a] \in {"waits", "read"} => served[a] = was
  /\ served[a] \in {was, rollout.image}
  /\ went[a] \in {"read", "patched"} => earlier[a] = was
  /\ went[a] = "patched" => rollout.what # "rollback_app"
  /\ IF went[a] # "succeeded" \/ rollout.what = "rollback_app" THEN snapshot[a] = back
     ELSE snapshot[a] = IF was \in {None, rollout.image} THEN back ELSE was
  /\ went[a] = "succeeded" => served[a] = rollout.image
(* Whoever is past the wait had its groups before it settled, and those that are
   settled while the call goes on were found good enough.                    *)
OrderInv ==
  /\ \A a \in Bunny!Targets : went[a] # "waits" =>
       Prior(a) \subseteq Bunny!Settled /\ Cardinality(Bunny!FailedBefore(a)) <= rollout.max
  /\ finish = "open" => \A a \in Bunny!Targets :
       Prior(a) \subseteq Bunny!Settled => Cardinality(Bunny!FailedBefore(a)) <= rollout.max
FinishInv ==
  /\ finish = "open" => Shape
  /\ finish = "returned" =>
       Bunny!Targets = Bunny!Settled /\ (rollout # None => Cardinality(Bunny!Failed) <= rollout.max)
TypeInv ==
  /\ served \in [DOMAIN Apps -> Builds \cup {None}] /\ snapshot \in [DOMAIN Apps -> Builds \cup {None}]
  /\ went \in [Bunny!Targets -> Stages] /\ Bunny!Targets \subseteq DOMAIN Apps
  /\ before.served \in [DOMAIN Apps -> Builds \cup {None}]
  /\ earlier = [a \in Bunny!Targets |-> earlier[a]]
  /\ Bunny!Targets # {} => rollout \in Rollouts
BunnyInv ==
  /\ TypeInv /\ OrderInv /\ FinishInv
  /\ \A a \in Bunny!Targets : TargetInv(a)
  /\ \A a \in DOMAIN Apps \ Bunny!Targets :
       served[a] = before.served[a] /\ snapshot[a] = before.snapshot[a]

LEMMA BunnySize == ASSUME NEW S PROVE Bunny!Cardinality(S) = Cardinality(S)
  BY DEF Bunny!Cardinality, Cardinality

LEMMA FewerLost ==
  ASSUME NEW S, NEW T, IsFiniteSet(T), S \subseteq T, NEW m \in Int, Cardinality(T) <= m
  PROVE  Cardinality(S) <= m
<1>1. IsFiniteSet(S) /\ Cardinality(S) <= Cardinality(T)
  BY FS_Subset
<1>2. Cardinality(S) \in Nat /\ Cardinality(T) \in Nat
  BY <1>1, FS_CardinalityType
<1> QED  BY <1>1, <1>2

LEMMA AppsFinite ==
  ASSUME Bunny!BunnyAssumption, NEW S, S \subseteq DOMAIN Apps
  PROVE  IsFiniteSet(S) /\ S \subseteq Nat
<1>1. DOMAIN Apps = 1 .. Len(Apps) /\ Len(Apps) \in Nat
  BY DEF Bunny!BunnyAssumption
<1>2. IsFiniteSet(DOMAIN Apps)
  BY <1>1, FS_Interval
<1> QED  BY <1>1, <1>2, FS_Subset

(* The targets after the canaries fall into batches that do not overlap.     *)
LEMMA SameGroup ==
  ASSUME Shape, rollout \in Rollouts, rollout.what = "deploy_fleet",
         NEW b \in Nat, ~Bunny!Canary(b), NEW e \in Nat, e \in Bunny!GroupOf(b)
  PROVE  ~Bunny!Canary(e) /\ Bunny!GroupOf(e) = Bunny!GroupOf(b)
<1>1. PICK k \in Nat, c \in Nat : k = rollout.batch /\ c = rollout.canary /\ k > 0
  BY DEF Shape, Rollouts
<1>2. b > c
  BY <1>1 DEF Bunny!Canary
<1>3. PICK y \in Nat : y = b - c - 1
  BY <1>1, <1>2
<1>4. PICK r \in 0 .. k - 1 : r = y % k
  BY <1>1, <1>3, Remainder
<1>5. Bunny!GroupOf(b) = b - r .. b - r + k - 1
  BY <1>1, <1>3, <1>4 DEF Bunny!GroupOf
<1>6. PICK z \in y - r .. y - r + k - 1 : z = e - c - 1
  <2>1. e \in b - r .. b - r + k - 1
    BY <1>5
  <2>2. e - c - 1 \in y - r .. y - r + k - 1
    BY <1>3, <2>1
  <2> QED  BY <2>2
<1>7. z \in Nat /\ z - (z % k) = y - r
  BY <1>1, <1>3, <1>4, <1>6, OneBlock
<1>8. PICK s \in 0 .. k - 1 : s = z % k
  BY <1>1, <1>7, Remainder
<1>9. ~Bunny!Canary(e)
  BY <1>1, <1>6, <1>7 DEF Bunny!Canary
<1>10. Bunny!GroupOf(e) = e - s .. e - s + k - 1
  BY <1>1, <1>6, <1>8, <1>9 DEF Bunny!GroupOf
<1>11. e - s = b - r
  <2>1. z - s = y - r
    BY <1>7, <1>8
  <2> QED  BY <1>3, <1>6, <2>1
<1> QED  BY <1>5, <1>9, <1>10, <1>11

LEMMA GroupsBefore ==
  ASSUME Bunny!BunnyAssumption, BunnyInv, Shape, NEW a \in Bunny!Targets, NEW b \in Prior(a),
         NEW e \in Bunny!Targets \cap Bunny!GroupOf(b)
  PROVE  e \in Prior(a)
<1>1. Bunny!Targets \subseteq Nat /\ rollout \in Rollouts
  BY AppsFinite DEF BunnyInv, TypeInv
<1>2. a \in Nat /\ b \in Nat /\ e \in Nat /\ b \in Bunny!Targets /\ b < a /\ b \notin Bunny!GroupOf(a)
  BY <1>1 DEF Prior
<1>3. rollout.what = "deploy_fleet"
  BY <1>2 DEF Shape
<1>4. CASE Bunny!Canary(b)
  BY <1>2, <1>4 DEF Bunny!GroupOf, Prior
<1>5. CASE ~Bunny!Canary(b)
  <2>1. b \in Bunny!GroupOf(b)
    <3>1. PICK k \in Nat : k = rollout.batch /\ k > 0
      BY <1>1 DEF Shape, Rollouts
    <3>2. PICK y \in Nat : y = b - rollout.canary - 1
      BY <1>1, <1>2, <1>3, <1>5 DEF Bunny!Canary, Rollouts
    <3>3. PICK r \in 0 .. k - 1 : r = y % k
      BY <3>1, Remainder
    <3>4. Bunny!GroupOf(b) = b - r .. b - r + k - 1
      BY <1>3, <1>5, <3>1, <3>2, <3>3 DEF Bunny!GroupOf
    <3>5. b \in b - r .. b - r + k - 1
      BY <1>2
    <3> QED  BY <3>4, <3>5
  <2>2. Bunny!GroupOf(e) = Bunny!GroupOf(b)
    BY <1>1, <1>2, <1>3, <1>5, SameGroup
  <2>3. ~Bunny!Canary(a)
    BY <1>1, <1>2, <1>3, <1>5 DEF Bunny!Canary, Rollouts
  <2>4. a \notin Bunny!GroupOf(b)
    BY <1>1, <1>2, <1>3, <1>5, <2>1, SameGroup
  <2>5. e \notin Bunny!GroupOf(a)
    BY <1>1, <1>2, <1>3, <2>1, <2>2, <2>3, SameGroup
  <2>6. PICK low \in Int, high \in Int : Bunny!GroupOf(b) = low .. high
    <3>1. PICK k \in Nat : k = rollout.batch /\ k > 0
      BY <1>1 DEF Shape, Rollouts
    <3>2. PICK y \in Nat : y = b - rollout.canary - 1
      BY <1>1, <1>2, <1>3, <1>5 DEF Bunny!Canary, Rollouts
    <3>3. PICK r \in 0 .. k - 1 : r = y % k
      BY <3>1, Remainder
    <3>4. Bunny!GroupOf(b) = b - r .. b - r + k - 1
      BY <1>3, <1>5, <3>1, <3>2, <3>3 DEF Bunny!GroupOf
    <3>5. b - r \in Int /\ b - r + k - 1 \in Int
      BY <1>2
    <3> QED  BY <3>4, <3>5
  <2>7. e < a
    BY <1>2, <2>1, <2>4, <2>6
  <2> QED  BY <2>5, <2>7 DEF Prior
<1> QED  BY <1>4, <1>5

LEMMA BunnyMove ==
  ASSUME Bunny!BunnyAssumption, BunnyInv, finish = "open", NEW a \in Bunny!Targets,
         a \notin Bunny!Settled, Prior(a) \subseteq Bunny!Settled,
         NEW how \in {"read", "patched", "succeeded", "failed"}, Bunny!Move(a, how)
  PROVE  /\ OrderInv' /\ FinishInv'
         /\ Bunny!Targets' = Bunny!Targets /\ UNCHANGED <<rollout, before>>
         /\ went' \in [Bunny!Targets -> Stages] /\ went'[a] = how
         /\ \A b \in Bunny!Targets \ {a} : went'[b] = went[b]
<1>1. PICK targets, settled, failed :
        targets = Bunny!Targets /\ settled = Bunny!Settled /\ failed = Bunny!Failed
  OBVIOUS
<1>2. /\ went' = [went EXCEPT ![a] = how] /\ UNCHANGED <<rollout, before>>
      /\ went \in [targets -> Stages] /\ targets \subseteq DOMAIN Apps /\ a \in targets
  BY <1>1 DEF Bunny!Move, Bunny!Fixed, BunnyInv, TypeInv
<1>3. /\ went' \in [targets -> Stages] /\ went'[a] = how /\ \A b \in targets \ {a} : went'[b] = went[b]
      /\ Bunny!Targets' = targets
  BY <1>2 DEF Bunny!Targets, Stages
<1>4. PICK settled2, failed2 :
        /\ settled2 = Bunny!Settled' /\ failed2 = Bunny!Failed'
        /\ settled2 = IF how \in {"succeeded", "failed"} THEN settled \cup {a} ELSE settled
        /\ failed2 = IF how = "failed" THEN failed \cup {a} ELSE failed
  <2>1. PICK settled2, failed2 : settled2 = Bunny!Settled' /\ failed2 = Bunny!Failed'
    OBVIOUS
  <2>2. /\ settled2 = {b \in targets : went'[b] \in {"succeeded", "failed"}}
        /\ failed2 = {b \in targets : went'[b] = "failed"}
    BY <1>3, <2>1 DEF Bunny!Settled, Bunny!Failed
  <2>3. /\ settled = {b \in targets : went[b] \in {"succeeded", "failed"}}
        /\ failed = {b \in targets : went[b] = "failed"}
    BY <1>1 DEF Bunny!Settled, Bunny!Failed
  <2>4. a \notin settled /\ a \in targets
    BY <1>1
  <2>5. settled2 = IF how \in {"succeeded", "failed"} THEN settled \cup {a} ELSE settled
    BY <1>3, <2>2, <2>3, <2>4
  <2>6. failed2 = IF how = "failed" THEN failed \cup {a} ELSE failed
    BY <1>3, <2>2, <2>3, <2>4
  <2> QED  BY <2>1, <2>5, <2>6
<1>5. /\ \A x : Bunny!GroupOf(x)' = Bunny!GroupOf(x) /\ Prior(x)' = Prior(x)
      /\ \A x : Bunny!FailedBefore(x)' = {e \in failed2 : e < x /\ e \notin Bunny!GroupOf(x)}
      /\ \A x : Bunny!FailedBefore(x) = {e \in failed : e < x /\ e \notin Bunny!GroupOf(x)}
  BY <1>1, <1>2, <1>3, <1>4 DEF Bunny!GroupOf, Bunny!Canary, Prior, Bunny!FailedBefore
<1>6. IsFiniteSet(failed2) /\ failed2 \subseteq targets /\ rollout.max \in Int /\ targets \subseteq Nat
  <2>1. failed2 \subseteq targets
    BY <1>1, <1>2, <1>4 DEF Bunny!Failed
  <2>2. rollout \in Rollouts
    BY DEF BunnyInv, TypeInv
  <2> QED  BY <1>2, <2>1, <2>2, AppsFinite DEF Rollouts
<1>7. ASSUME NEW x \in targets, Prior(x) \subseteq settled PROVE Bunny!FailedBefore(x)' = Bunny!FailedBefore(x)
  <2>1. a \notin Prior(x)
    BY <1>1, <1>7
  <2>2. ~(a < x /\ a \notin Bunny!GroupOf(x))
    BY <1>1, <1>2, <2>1 DEF Prior
  <2> QED  BY <1>4, <1>5, <2>2
<1>8. settled \subseteq settled2
  BY <1>4
<1>9. Shape /\ OrderInv
  BY DEF BunnyInv, FinishInv
<1>10. ASSUME NEW x \in targets, went'[x] # "waits"
       PROVE  Prior(x)' \subseteq settled2 /\ Cardinality(Bunny!FailedBefore(x)') <= rollout.max
  <2>1. Prior(x) \subseteq settled /\ Cardinality(Bunny!FailedBefore(x)) <= rollout.max
    BY <1>1, <1>3, <1>9, <1>10 DEF OrderInv
  <2> QED  BY <1>5, <1>7, <1>8, <2>1
<1>11. PICK over \in BOOLEAN :
         /\ over <=> /\ how \in {"succeeded", "failed"}
                     /\ \A e \in targets \cap Bunny!GroupOf(a) : e = a \/ e \in settled
         /\ finish' = IF over /\ Cardinality(failed2) > rollout.max THEN "thrown"
                      ELSE IF over /\ targets \ settled = {a} THEN "returned" ELSE "open"
  <2>1. Cardinality(failed2) = Bunny!Cardinality(failed2)
    BY BunnySize
  <2> QED  BY <1>1, <1>4, <2>1 DEF Bunny!Move, Bunny!Abort
<1>12. over /\ finish' # "thrown" => Cardinality(failed2) <= rollout.max
  <2>1. Cardinality(failed2) \in Nat
    BY <1>6, FS_CardinalityType
  <2> QED  BY <1>6, <1>11, <2>1
<1>13. ASSUME finish' = "open", NEW x \in targets, Prior(x)' \subseteq settled2
       PROVE  Cardinality(Bunny!FailedBefore(x)') <= rollout.max
  <2>1. CASE Prior(x) \subseteq settled
    BY <1>1, <1>7, <1>9, <2>1 DEF OrderInv
  <2>2. CASE ~(Prior(x) \subseteq settled)
    <3>1. a \in Prior(x) /\ how \in {"succeeded", "failed"}
      BY <1>4, <1>5, <1>13, <2>2
    <3>2. \A e \in targets \cap Bunny!GroupOf(a) : e \in Prior(x)
      BY <1>1, <1>9, <3>1, GroupsBefore
    <3>3. \A e \in targets \cap Bunny!GroupOf(a) : e = a \/ e \in settled
      BY <1>4, <1>5, <1>13, <3>2
    <3>4. Cardinality(failed2) <= rollout.max
      BY <1>11, <1>12, <1>13, <3>1, <3>3
    <3>5. Bunny!FailedBefore(x)' \subseteq failed2
      BY <1>5
    <3> QED  BY <1>6, <3>4, <3>5, FewerLost
  <2> QED  BY <2>1, <2>2
<1>14. OrderInv'
  BY <1>2, <1>3, <1>4, <1>10, <1>13 DEF OrderInv
<1>15. FinishInv'
  <2>1. finish' = "open" => Shape'
    BY <1>1, <1>2, <1>3, <1>9 DEF Shape
  <2>2. finish' = "returned" => targets = settled2
    BY <1>1, <1>4, <1>11 DEF Bunny!Settled
  <2>3. finish' = "returned" => Cardinality(failed2) <= rollout.max
    BY <1>11, <1>12
  <2> QED  BY <1>2, <1>3, <1>4, <2>1, <2>2, <2>3 DEF FinishInv
<1> QED  BY <1>1, <1>2, <1>3, <1>14, <1>15

(* What a move leaves to show: the target's own part.                        *)
LEMMA BunnyMoved ==
  ASSUME Bunny!BunnyAssumption, BunnyInv, finish = "open", NEW a \in Bunny!Targets,
         a \notin Bunny!Settled, Prior(a) \subseteq Bunny!Settled,
         NEW how \in {"read", "patched", "succeeded", "failed"}, Bunny!Move(a, how),
         served' \in [DOMAIN Apps -> Builds \cup {None}], snapshot' \in [DOMAIN Apps -> Builds \cup {None}],
         earlier' = [b \in Bunny!Targets |-> earlier'[b]],
         \A b \in DOMAIN Apps \ {a} : served'[b] = served[b] /\ snapshot'[b] = snapshot[b],
         \A b \in Bunny!Targets \ {a} : earlier'[b] = earlier[b],
         went'[a] = how /\ UNCHANGED <<rollout, before>> => TargetInv(a)'
  PROVE  BunnyInv'
<1>1. /\ OrderInv' /\ FinishInv'
      /\ Bunny!Targets' = Bunny!Targets /\ UNCHANGED <<rollout, before>>
      /\ went' \in [Bunny!Targets -> Stages] /\ went'[a] = how
      /\ \A b \in Bunny!Targets \ {a} : went'[b] = went[b]
  BY BunnyMove
<1>2. TypeInv /\ Bunny!Targets \subseteq DOMAIN Apps /\ rollout \in Rollouts
  BY DEF BunnyInv, TypeInv
<1>3. TypeInv'
  BY <1>1, <1>2 DEF TypeInv
<1>4. ASSUME NEW b \in Bunny!Targets PROVE TargetInv(b)'
  <2>1. TargetInv(b)
    BY DEF BunnyInv
  <2>2. CASE b # a
    <3>1. /\ went'[b] = went[b] /\ served'[b] = served[b] /\ snapshot'[b] = snapshot[b]
          /\ earlier'[b] = earlier[b] /\ UNCHANGED <<rollout, before>>
      BY <1>1, <1>2, <2>2
    <3> QED  BY <2>1, <3>1 DEF TargetInv
  <2> QED  BY <1>1, <2>2
<1>5. \A b \in DOMAIN Apps \ Bunny!Targets :
        served'[b] = before'.served[b] /\ snapshot'[b] = before'.snapshot[b]
  BY <1>1 DEF BunnyInv
<1> QED  BY <1>1, <1>3, <1>4, <1>5 DEF BunnyInv

(* The call is over: nothing else moved.                                     *)
LEMMA BunnyStops ==
  ASSUME BunnyInv, UNCHANGED <<served, snapshot, rollout, went, earlier, before>>,
         finish' = "thrown" \/ finish' = finish
  PROVE  BunnyInv'
<1>1. /\ Bunny!Targets' = Bunny!Targets /\ Bunny!Settled' = Bunny!Settled /\ Bunny!Failed' = Bunny!Failed
      /\ \A x : Prior(x)' = Prior(x) /\ Bunny!FailedBefore(x)' = Bunny!FailedBefore(x)
  BY DEF Bunny!Targets, Bunny!Settled, Bunny!Failed, Prior, Bunny!FailedBefore, Bunny!GroupOf, Bunny!Canary
<1>2. TypeInv' /\ OrderInv' /\ FinishInv'
  BY <1>1 DEF BunnyInv, TypeInv, OrderInv, FinishInv, Shape
<1>3. \A a \in Bunny!Targets : TargetInv(a)'
  BY DEF BunnyInv, TargetInv
<1> QED  BY <1>1, <1>2, <1>3 DEF BunnyInv

LEMMA BunnyReads ==
  ASSUME Bunny!BunnyAssumption, BunnyInv, NEW a \in Bunny!Targets, Bunny!find_container(a) PROVE BunnyInv'
<1>1. PICK how \in {"read", "failed"} :
        /\ Bunny!Move(a, how) /\ earlier' = IF how = "read" THEN [earlier EXCEPT ![a] = served[a]] ELSE earlier
  BY DEF Bunny!find_container
<1>2. /\ finish = "open" /\ a \notin Bunny!Settled /\ Prior(a) \subseteq Bunny!Settled
      /\ went[a] = "waits" /\ UNCHANGED <<served, snapshot>>
  BY DEF Bunny!find_container, Bunny!Open, Bunny!InHand, Bunny!First, Prior
<1>3. TargetInv(a) /\ TypeInv
  BY DEF BunnyInv
<1>4. earlier' = [b \in Bunny!Targets |-> earlier'[b]] /\ (\A b \in Bunny!Targets \ {a} : earlier'[b] = earlier[b])
      /\ (how = "read" => earlier'[a] = served[a])
  <2>1. earlier = [b \in Bunny!Targets |-> earlier[b]]
    BY <1>3 DEF TypeInv
  <2> QED  BY <1>1, <2>1
<1>5. went'[a] = how /\ UNCHANGED <<rollout, before>> => TargetInv(a)'
  BY <1>2, <1>3, <1>4 DEF TargetInv
<1> QED  BY <1>1, <1>2, <1>3, <1>4, <1>5, BunnyMoved DEF TypeInv

LEMMA BunnyPatches ==
  ASSUME Bunny!BunnyAssumption, BunnyInv, NEW a \in Bunny!Targets, Bunny!Patch(a) PROVE BunnyInv'
<1>1. PICK how \in {"patched", "succeeded", "failed"} :
        /\ Bunny!Move(a, how) /\ (served' = served \/ served' = [served EXCEPT ![a] = rollout.image])
        /\ how # "failed" => served' = [served EXCEPT ![a] = rollout.image]
        /\ how = "succeeded" <=> (how # "failed" /\ rollout.what = "rollback_app")
  BY DEF Bunny!Patch
<1>2. /\ finish = "open" /\ a \notin Bunny!Settled /\ Prior(a) \subseteq Bunny!Settled
      /\ went[a] = "read" /\ UNCHANGED <<snapshot, earlier>>
  BY DEF Bunny!Patch, Bunny!Open, Bunny!InHand, Prior
<1>3. TargetInv(a) /\ TypeInv /\ a \in DOMAIN Apps /\ rollout.image \in Builds \cup {None}
  BY DEF BunnyInv, TypeInv, Rollouts
<1>4. /\ served' \in [DOMAIN Apps -> Builds \cup {None}]
      /\ \A b \in DOMAIN Apps \ {a} : served'[b] = served[b]
      /\ served'[a] \in {served[a], rollout.image} /\ (how # "failed" => served'[a] = rollout.image)
  BY <1>1, <1>3 DEF TypeInv
<1>5. went'[a] = how /\ UNCHANGED <<rollout, before>> => TargetInv(a)'
  BY <1>1, <1>2, <1>3, <1>4 DEF TargetInv
<1> QED  BY <1>1, <1>2, <1>3, <1>4, <1>5, BunnyMoved DEF TypeInv

LEMMA BunnySnapshot ==
  ASSUME BunnyInv, NEW a \in Bunny!Targets, earlier[a] \in Builds \cup {None}
  PROVE  /\ Bunny!Snapshot(a) \in [DOMAIN Apps -> Builds \cup {None}]
         /\ \A b \in DOMAIN Apps \ {a} : Bunny!Snapshot(a)[b] = snapshot[b]
         /\ Bunny!Snapshot(a)[a] = IF earlier[a] \in {None, rollout.image} THEN snapshot[a] ELSE earlier[a]
  BY DEF BunnyInv, TypeInv, Bunny!Snapshot

LEMMA BunnyVerifies ==
  ASSUME Bunny!BunnyAssumption, BunnyInv, NEW a \in Bunny!Targets, Bunny!Verify(a) PROVE BunnyInv'
<1>1. /\ finish = "open" /\ went[a] = "patched" /\ UNCHANGED <<served, earlier>>
  BY DEF Bunny!Verify, Bunny!Open, Bunny!First
<1>2. TargetInv(a) /\ TypeInv /\ a \in DOMAIN Apps /\ OrderInv
  BY DEF BunnyInv, TypeInv
<1>3. a \notin Bunny!Settled /\ Prior(a) \subseteq Bunny!Settled
  BY <1>1, <1>2 DEF Bunny!Settled, OrderInv
<1>4. earlier[a] = before.served[a] /\ rollout.what # "rollback_app" /\ earlier[a] \in Builds \cup {None}
      /\ snapshot[a] = before.snapshot[a]
  <2>1. earlier[a] = before.served[a] /\ rollout.what # "rollback_app" /\ snapshot[a] = before.snapshot[a]
    BY <1>1, <1>2 DEF TargetInv
  <2>2. before.served[a] \in Builds \cup {None}
    BY <1>2 DEF TypeInv
  <2> QED  BY <2>1, <2>2
<1>5. CASE served[a] = rollout.image /\ Bunny!Move(a, "succeeded") /\ snapshot' = Bunny!Snapshot(a)
  <2>1. /\ snapshot' \in [DOMAIN Apps -> Builds \cup {None}]
        /\ \A b \in DOMAIN Apps \ {a} : snapshot'[b] = snapshot[b]
        /\ snapshot'[a] = IF earlier[a] \in {None, rollout.image} THEN snapshot[a] ELSE earlier[a]
    BY <1>4, <1>5, BunnySnapshot
  <2>2. went'[a] = "succeeded" /\ UNCHANGED <<rollout, before>> => TargetInv(a)'
    BY <1>1, <1>2, <1>4, <1>5, <2>1 DEF TargetInv
  <2> QED  BY <1>1, <1>2, <1>3, <1>5, <2>1, <2>2, BunnyMoved DEF TypeInv
<1>6. CASE Bunny!Move(a, "failed") /\ UNCHANGED snapshot
  <2>1. went'[a] = "failed" /\ UNCHANGED <<rollout, before>> => TargetInv(a)'
    BY <1>1, <1>2, <1>4, <1>6 DEF TargetInv
  <2> QED  BY <1>1, <1>2, <1>3, <1>6, <2>1, BunnyMoved DEF TypeInv
<1>7. CASE finish' = "thrown" /\ UNCHANGED <<went, snapshot, rollout, before>>
  BY <1>1, <1>7, BunnyStops
<1> QED  BY <1>5, <1>6, <1>7 DEF Bunny!Verify, Bunny!Fixed

LEMMA BunnyBegins ==
  ASSUME Bunny!BunnyAssumption, BunnyInv, Bunny!Begin PROVE BunnyInv'
<1>1. PICK r \in Bunny!Calls :
        /\ rollout' = r /\ finish' = IF Bunny!Refused(r) THEN "thrown" ELSE "open"
        /\ went' = [a \in r.targets |-> "waits"] /\ earlier' = [a \in r.targets |-> None]
  BY DEF Bunny!Begin
<1>2. /\ before' = [served |-> served, snapshot |-> snapshot] /\ UNCHANGED <<served, snapshot>>
      /\ TypeInv
  BY DEF Bunny!Begin, BunnyInv
<1>3. /\ r \in Rollouts
      /\ r.what # "deploy_fleet" => r.batch = 1 /\ \A a, b \in r.targets : a = b
  BY <1>2 DEF Bunny!Calls, Bunny!Rollout, Rollouts, What, TypeInv, Bunny!BunnyAssumption
<1>4. Bunny!Targets' = r.targets /\ \A a \in r.targets : went'[a] = "waits" /\ earlier'[a] = None
  BY <1>1 DEF Bunny!Targets
<1>5. Bunny!Failed' = {} /\ Bunny!Settled' = {}
  BY <1>4 DEF Bunny!Failed, Bunny!Settled
<1>6. TypeInv'
  BY <1>1, <1>2, <1>3, <1>4 DEF TypeInv, Rollouts, Stages
<1>7. finish' = "open" => Shape'
  BY <1>1, <1>3, <1>4 DEF Shape, Bunny!Refused, Rollouts
<1>8. finish' # "returned" /\ FinishInv'
  BY <1>1, <1>7 DEF FinishInv
<1>9. \A a : Bunny!FailedBefore(a)' = {}
  BY <1>5 DEF Bunny!FailedBefore
<1>10. OrderInv'
  <2>1. \A a \in r.targets : went'[a] = "waits"
    BY <1>4
  <2>2. Cardinality({}) = 0
    BY FS_EmptySet
  <2>3. ASSUME finish' = "open" PROVE \A a : Cardinality(Bunny!FailedBefore(a)') <= rollout'.max
    <3>1. rollout'.max >= 0
      BY <1>7, <2>3 DEF Shape
    <3> QED  BY <1>9, <2>2, <3>1
  <2> QED  BY <1>4, <2>1, <2>3 DEF OrderInv
<1>11. \A a \in DOMAIN Apps : served'[a] = before'.served[a] /\ snapshot'[a] = before'.snapshot[a]
  BY <1>2
<1>12. \A a \in r.targets : TargetInv(a)'
  BY <1>3, <1>4, <1>11 DEF TargetInv, Rollouts
<1> QED  BY <1>4, <1>6, <1>8, <1>10, <1>11, <1>12 DEF BunnyInv

LEMMA BunnyStep ==
  ASSUME Bunny!BunnyAssumption, BunnyInv, [Bunny!Next]_(Bunny!vars) PROVE BunnyInv'
<1>1. CASE Bunny!Begin
  BY <1>1, BunnyBegins
<1>2. CASE Bunny!Die
  BY <1>2, BunnyStops DEF Bunny!Die, Bunny!Fixed
<1>3. CASE \E a \in Bunny!Targets : Bunny!find_container(a) \/ Bunny!Patch(a) \/ Bunny!Verify(a)
  BY <1>3, BunnyReads, BunnyPatches, BunnyVerifies
<1>4. CASE UNCHANGED Bunny!vars
  BY <1>4, BunnyStops DEF Bunny!vars, Bunny!Fixed
<1> QED  BY <1>1, <1>2, <1>3, <1>4 DEF Bunny!Next

LEMMA BunnyFirst == ASSUME Bunny!Init PROVE BunnyInv
<1>1. Bunny!Targets = {} /\ Bunny!Settled = {} /\ Bunny!Failed = {}
  BY DEF Bunny!Init, Bunny!Targets, Bunny!Settled, Bunny!Failed
<1>2. TypeInv /\ OrderInv /\ FinishInv
  BY <1>1 DEF Bunny!Init, TypeInv, OrderInv, FinishInv
<1> QED  BY <1>1, <1>2 DEF Bunny!Init, BunnyInv

LEMMA BunnyPromise == ASSUME BunnyInv PROVE Bunny!RolloutAsReported
<1>1. ASSUME NEW a \in Bunny!Targets
      PROVE  went[a] # "waits" =>
               Bunny!Cardinality(Bunny!FailedBefore(a)) <= rollout.max
  BY BunnySize DEF BunnyInv, OrderInv, Bunny!FailedBefore
<1>2. finish = "returned" =>
        Bunny!Targets = Bunny!Settled /\ (rollout # None => Bunny!Cardinality(Bunny!Failed) <= rollout.max)
  BY BunnySize DEF BunnyInv, FinishInv
<1>3. \A a \in Bunny!Targets : TargetInv(a)
  BY DEF BunnyInv
<1>4. \A a \in DOMAIN Apps \ Bunny!Targets :
        served[a] = before.served[a] /\ snapshot[a] = before.snapshot[a]
  BY DEF BunnyInv
<1>5. SUFFICES /\ \A a \in Bunny!Targets :
                    /\ went[a] \in {"waits", "read"} => served[a] = before.served[a]
                    /\ served[a] \in {before.served[a], rollout.image}
                    /\ went[a] # "waits" => Bunny!Cardinality(Bunny!FailedBefore(a)) <= rollout.max
                    /\ IF went[a] # "succeeded" \/ rollout.what = "rollback_app"
                       THEN snapshot[a] = before.snapshot[a]
                       ELSE snapshot[a] = IF before.served[a] \in {None, rollout.image}
                                          THEN before.snapshot[a] ELSE before.served[a]
                    /\ went[a] = "succeeded" => served[a] = rollout.image
  BY <1>2, <1>4 DEF Bunny!RolloutAsReported
<1> QED  BY <1>1, <1>3 DEF TargetInv

(* RolloutAsReported: for any apps, images and numbers of canaries, batches and
   failures allowed (deploy_fleet, deploy_app and rollback_app of lib/bunny.rhai),
   no app is touched before the groups in front of it are over and found good
   enough, a success runs the image it was given, and only a success moves the
   rollback target, to what the app ran before.                              *)
LEMMA BunnyHolds ==
  ASSUME Bunny!BunnyAssumption PROVE Bunny!Spec => []Bunny!RolloutAsReported
<1>1. Bunny!Init => BunnyInv
  BY BunnyFirst
<1>2. BunnyInv /\ [Bunny!Next]_(Bunny!vars) => BunnyInv'
  BY BunnyStep
<1>3. BunnyInv => Bunny!RolloutAsReported
  BY BunnyPromise
<1> QED  BY <1>1, <1>2, <1>3, PTL DEF Bunny!Spec
-----------------------------------------------------------------------------
(* ---------------------------- All the parts ----------------------------- *)
(* A behaviour of HostTools is about one part, and is one of that part.       *)
LEMMA HostStart ==
  HostInit =>
    /\ part = "service" => Life!Init
    /\ part = "http" => Http!Init
    /\ part = "ssh" => Ssh!Init
    /\ part = "rehearsal" => Rehearse!Init
    /\ part = "reports" => Report!Init
    /\ part = "releases" => Release!Init
    /\ part = "proxy" => Proxy!Init
    /\ part = "gates" => Gate!Init
    /\ part = "apps" => Bunny!Init
  BY DEF HostInit

LEMMA HostStep ==
  [HostNext]_host_vars =>
    /\ part = "service" => (part = "service")' /\ [Life!Next]_(Life!vars)
    /\ part = "http" => (part = "http")' /\ [Http!Next]_(Http!vars)
    /\ part = "ssh" => (part = "ssh")' /\ [Ssh!Next]_(Ssh!vars)
    /\ part = "rehearsal" => (part = "rehearsal")' /\ [Rehearse!Next]_(Rehearse!vars)
    /\ part = "reports" => (part = "reports")' /\ [Report!Next]_(Report!vars)
    /\ part = "releases" => (part = "releases")' /\ [Release!Next]_(Release!vars)
    /\ part = "proxy" => (part = "proxy")' /\ [Proxy!Next]_(Proxy!vars)
    /\ part = "gates" => (part = "gates")' /\ [Gate!Next]_(Gate!vars)
    /\ part = "apps" => (part = "apps")' /\ [Bunny!Next]_(Bunny!vars)
    /\ ~(part = "service") => ~(part = "service")'
    /\ ~(part = "http") => ~(part = "http")'
    /\ ~(part = "ssh") => ~(part = "ssh")'
    /\ ~(part = "rehearsal") => ~(part = "rehearsal")'
    /\ ~(part = "reports") => ~(part = "reports")'
    /\ ~(part = "releases") => ~(part = "releases")'
    /\ ~(part = "proxy") => ~(part = "proxy")'
    /\ ~(part = "gates") => ~(part = "gates")'
    /\ ~(part = "apps") => ~(part = "apps")'
<1>1. CASE HostNext
  BY <1>1 DEF HostNext
<1>2. CASE UNCHANGED host_vars
  BY <1>2 DEF host_vars, LifeVars, HttpVars, SshVars, RehearseVars, ReportVars, ReleaseVars, ProxyVars,
         GateVars, BunnyVars, Life!vars, Life!keys, Http!vars, Http!given,
         Ssh!vars, Ssh!settings, Rehearse!vars, Rehearse!given, Report!vars, Report!setting,
         Release!vars, Release!disk, Release!app, Release!ghost, Proxy!vars, Proxy!place,
         Gate!vars, Gate!given, Bunny!vars, Bunny!Fixed
<1> QED  BY <1>1, <1>2

(* lib/deploy.rhai, bunny.rhai: for any images, configs, hosts and apps, and any
   sequence of deploys, rollbacks and removals, the recorded rollback target is
   another release than the current one and goes with the config it last ran
   with; no app of a fleet is touched before the groups in front of it are over
   and good enough, and only a success moves its rollback target.            *)
THEOREM RollbacksAreRight == HostSpec => []RollbackTargets
<1>1. HostSpec => [](part = "service" => Life!RollbackPair)
  BY HostAssumption, LifeHolds, HostStart, HostStep, PTL DEF HostSpec, Life!Spec
<1>2. HostSpec => [](part = "apps" => Bunny!RolloutAsReported)
  BY HostAssumption, BunnyHolds, HostStart, HostStep, PTL DEF HostSpec, Bunny!Spec
<1> QED  BY <1>1, <1>2, PTL DEF RollbackTargets

(* cli/remove.rs: of any hosts, each with a container of the service is recorded,
   through deploys, rollbacks and removals that fail on some of them, unless such
   a failure was taken for an absent container.                              *)
THEOREM NobodyIsForgotten == HostSpec => []NoneForgotten
<1>1. HostSpec => [](part = "service" => Life!NoneForgotten)
  BY HostAssumption, LifeHolds, HostStart, HostStep, PTL DEF HostSpec, Life!Spec
<1> QED  BY <1>1, PTL DEF NoneForgotten

(* builtins/http.rs: for batches of any length and chunks of any size, each answer
   is that of its request, a request goes out at most once, and a malformed batch
   and a write of a dry run not at all.                                      *)
THEOREM AnswersStand == HostSpec => []AnswersAreReal
<1>1. HostSpec => [](part = "http" => Http!AnswersAreReal)
  BY HostAssumption, HttpHolds, HostStart, HostStep, PTL DEF HostSpec, Http!Spec
<1> QED  BY <1>1, PTL DEF AnswersAreReal

(* engine/runner.rs: for any aliases, settings and number of commands, a command
   that runs runs on the host of its alias, as its account unless an override
   names sockets by host alone, and on an unknown host only if the policy says so. *)
THEOREM CommandsRunWhereMeant == HostSpec => []RightMachine
<1>1. HostSpec => [](part = "ssh" => Ssh!RightMachine)
  BY SshHolds, HostStart, HostStep, PTL DEF HostSpec, Ssh!Spec
<1> QED  BY <1>1, PTL DEF RightMachine

(* cli/rehearse.rs, status.rs, doctor.rs, logs.rs, setup.rs: for any contracts,
   hosts, services and records, a rehearsal that passed ran every step it selected
   and attempted all of its cleanup, and a command succeeds only over hosts that
   answered and were in order.                                               *)
THEOREM ReportsAreHonest == HostSpec => []ReportsHonest
<1>1. HostSpec => [](part = "rehearsal" => Rehearse!RehearsalHonest)
  BY HostAssumption, RehearsalHolds, HostStart, HostStep, PTL DEF HostSpec, Rehearse!Spec
<1>2. HostSpec => [](part = "reports" => Report!ReportsHonest)
  BY HostAssumption, ReportHolds, HostStart, HostStep, PTL DEF HostSpec, Report!Spec
<1> QED  BY <1>1, <1>2, PTL DEF ReportsHonest

(* lib/release.rhai: for any runs, versions and numbers of releases to keep, the
   link never dangles, the release to go back to is never pruned, and when nobody
   is at work and nothing was left undone, what the link names runs and passed
   its check.                                                                *)
THEOREM ReleasesAreKept == HostSpec => []ReleaseKept
<1>1. HostSpec => [](part = "releases" => Release!ReleaseKept)
  BY HostAssumption, ReleaseHolds, HostStart, HostStep, PTL DEF HostSpec, Release!Spec
<1> QED  BY <1>1, PTL DEF ReleaseKept

(* lib/caddy.rhai, healthcheck.rhai: for any services, targets, limits and answers,
   a service has one route at most, the one its script was told of, whatever was
   lost or restarted; and a gate opens at the first moment it has seen enough good
   probes in a row.                                                          *)
THEOREM TrafficGoesAsReported == HostSpec => []TrafficAsReported
<1>1. HostSpec => [](part = "proxy" => Proxy!RoutesAsReported)
  BY HostAssumption, ProxyHolds, HostStart, HostStep, PTL DEF HostSpec, Proxy!Spec
<1>2. HostSpec => [](part = "gates" => Gate!PassesInARow)
  BY HostAssumption, GateHolds, HostStart, HostStep, PTL DEF HostSpec, Gate!Spec
<1> QED  BY <1>1, <1>2, PTL DEF TrafficAsReported
=============================================================================
