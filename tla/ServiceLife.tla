---------------------------- MODULE ServiceLife ----------------------------
(* The life of one service in the state file and on its hosts, command by
   command: deploy and rollback (lib/deploy.rhai, cli/rollback.rs,
   engine/eval.rs) and nrg remove (cli/remove.rs).  FleetDeploy has the steps of
   a deploy; here it is one step with all its outcomes.  The project lock lets
   one command run at a time: see StateStore.

   A config is what rollback replays: ports, health path, environment.        *)
EXTENDS FiniteSets

CONSTANTS
  Hosts, Images, Configs,
  Mutable,       \* images with a :latest tag
  None           \* an absent key, container or argument

ServiceAssumption == Mutable \subseteq Images /\ None \notin Images \cup Configs

VARIABLES
  image, config, prev, prev_config,   \* the service-wide keys
  target, transition,  \* hosts with a <service>.target / .transition key
  web, own,      \* per host: the image of <service>-web, and of a container that
                 \* was never given that name
  shape,         \* history: the config the current and the recorded image last ran with
  misread        \* history: hosts forgotten with a container that is there, for
                 \* the failure of its removal was misread

keys  == <<image, config, prev, prev_config>>
vars  == <<keys, target, transition, web, own, shape, misread>>

\* Nothing yet, or a deploy of a version that recorded no config.
Init ==
  /\ image \in Images \cup {None} /\ config = None /\ prev = None /\ prev_config = None
  /\ target = {h \in Hosts : image # None} /\ transition = {}
  /\ web = [h \in Hosts |-> image] /\ own = [h \in Hosts |-> None]
  /\ shape = [i \in Images |-> None] /\ misread = {}

(* -------------------------------- deploy() -------------------------------- *)
\* deploy_one_host refuses a host with an unfinished transition, or with a
\* container of which the state knows no target.
Deployable(hs) == \A h \in hs : h \notin transition /\ (web[h] # None => h \in target)

\* What deploy() records of the release it replaces.
KeepsOldConfig == prev_config                                       \* mutant
PrevConfig     == IF config # None THEN config ELSE prev_config
Commit(hs, i, c) ==
  /\ prev'        = IF image \notin {None, i} THEN image ELSE prev
  /\ prev_config' = IF image \notin {None, i} THEN PrevConfig ELSE prev_config
  /\ image' = i /\ config' = c /\ target' = target \cup hs /\ UNCHANGED misread
  /\ shape' = [j \in Images |-> IF j = i THEN c ELSE IF j = prev' THEN shape[j] ELSE None]

\* The cleanup after the commit completes on some hosts; a crash is one outcome.
CleanUp(hs, i) == \E done \in SUBSET hs :
  /\ web' = [h \in Hosts |-> IF h \in done THEN i ELSE web[h]]
  /\ own' = [h \in Hosts |-> IF h \in hs \ done THEN i ELSE own[h]]
  /\ transition' = transition \cup (hs \ done)

deploy(hs, i, c) ==
  /\ Deployable(hs)
  /\ \/ Commit(hs, i, c) /\ CleanUp(hs, i)
     \* it failed, and on some hosts the way back failed too
     \/ /\ \E left \in (SUBSET hs) \ {{}} :
             /\ transition' = transition \cup left
             /\ own' = [h \in Hosts |-> IF h \in left THEN i ELSE own[h]]
        /\ UNCHANGED <<keys, target, web, shape, misread>>

(* ------------------------------- rollback() ------------------------------- *)
\* nrg rollback [--host h] [--image i]
RollbackHosts(asked) == IF asked = {} THEN target ELSE asked
RollbackImage(i) ==
  IF i # None THEN i ELSE IF prev \in Mutable THEN None ELSE prev
\* The config of the image, where it is that of the last release but one.
Replay(i) == IF i = prev /\ prev_config # None THEN prev_config ELSE config
rollback(asked, i) ==
  LET hs == RollbackHosts(asked)
      to == RollbackImage(i)
  IN /\ hs # {} /\ to # None
     /\ \E c \in IF config = None THEN Configs ELSE {Replay(to)} : deploy(hs, to, c)

\* run_rollback takes the recorded runtime; the operator clears a journal after
\* looking at the host, and what was left there goes.
Reconcile(h) ==
  /\ h \in transition /\ transition' = transition \ {h}
  /\ web' = [web EXCEPT ![h] = IF h \in target /\ own[h] = image THEN own[h] ELSE @]
  /\ own' = [own EXCEPT ![h] = None] /\ UNCHANGED <<keys, target, shape, misread>>

(* ------------------------------- nrg remove ------------------------------- *)
AllAttempted(recorded, hs, removed) == hs \subseteq removed          \* mutant
purge_globals(recorded, hs, removed) == recorded \subseteq removed

purge_state(hs, removed) ==
  IF purge_globals(target, hs, removed)
  THEN /\ image' = None /\ config' = None /\ prev' = None /\ prev_config' = None
       /\ target' = {} /\ transition' = {}
  ELSE target' = target \ removed /\ transition' = transition \ removed /\ UNCHANGED keys

(* --yes; asked: --host.  docker rm -f rids the hosts "gone" of the container, and
   "removed" are those of which remove_container says so.  An answer may be lost;
   and a failure, but an ssh one, with the words "no such" is taken for an absent
   container, whatever is not there: the docker socket, say.                 *)
RemoveHosts(asked) == IF asked = {} THEN target ELSE asked
remove(asked, purge) ==
  LET hs == RemoveHosts(asked)
  IN /\ hs # {}
     /\ \E gone, removed \in SUBSET hs :
          /\ web' = [h \in Hosts |-> IF h \in gone THEN None ELSE web[h]]
          /\ IF purge /\ removed = hs THEN purge_state(hs, removed)
             ELSE UNCHANGED <<keys, target, transition>>
          /\ misread' = (misread \cup ((target \ target') \cap removed)) \ {h \in Hosts : web'[h] = None}
     /\ UNCHANGED <<own, shape>>

Next ==
  \/ \E hs \in (SUBSET Hosts) \ {{}}, i \in Images, c \in Configs : deploy(hs, i, c)
  \/ \E asked \in SUBSET Hosts, i \in Images \cup {None} : rollback(asked, i)
  \/ \E h \in Hosts : Reconcile(h)
  \/ \E asked \in {{}} \cup {{h} : h \in Hosts}, purge \in BOOLEAN : remove(asked, purge)

Spec == Init /\ [][Next]_vars
-----------------------------------------------------------------------------
(* lib/deploy.rhai: through any sequence of deploys, redeploys, rollbacks and
   removals the recorded rollback target is not the current image, and the
   config that would be replayed for it is the one it last ran with.          *)
RollbackPair ==
  prev # None => prev # image /\ prev_config = shape[prev]

(* remove.rs: a service that still has its container on some host is recorded
   with that host, so that status, logs and rollback find it: a purge forgets
   neither the hosts it was not asked for nor one whose removal failed.  Excepted
   are the hosts whose failure was taken for an absent container.             *)
NoneForgotten ==
  /\ \A h \in Hosts \ misread : web[h] # None => h \in target
  /\ target # {} => image # None
=============================================================================
