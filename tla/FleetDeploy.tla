---------------------------- MODULE FleetDeploy ----------------------------
(***************************************************************************)
(* deploy() of lib/deploy.rhai: one fleet-wide transaction of one service, *)
(* over hosts that each run Docker containers and a reverse proxy, with    *)
(* the compensation stack of transaction()/on_rollback(), the durable      *)
(* state it writes, and the post-commit retirement of the old containers.  *)
(*                                                                         *)
(* Every remote command may succeed, fail without effect, or take effect   *)
(* and still report failure (dropped connection, deadline, interruption).  *)
(* Ctrl-C aborts the running script operation; a kill, a second signal     *)
(* while the first is pending, or a crash ends the process on the spot.    *)
(* The cross-machine deploy lock is assumed held: see DeployLock.          *)
(***************************************************************************)
EXTENDS Naturals, Sequences, FiniteSets

CONSTANTS Hosts,        \* hosts of the service
          MaxPort,      \* host ports 1..MaxPort are scanned for a free one
          MaxDeploys,   \* bound: deploys started in one behaviour
          None          \* an absent state key, an unconfigured route

ASSUME HostsFinite  == IsFiniteSet(Hosts)
ASSUME PortsAssumed == MaxPort \in Nat \ {0} /\ MaxDeploys \in Nat
ASSUME NoneAssumed  == None \notin Nat

Ports == 1..MaxPort
Guess == 0               \* "localhost:<container_port>": nothing listens there
Targets == Ports \cup {Guess}
Deploys == 0..MaxDeploys \* a deploy is named by its number; 0 came before them

\* A container: the deploy that created it, its published host port, its name
\* (<service>-web, <service>-web-old, or its own <service>-web-<ver>-<port>),
\* whether it runs, and whether the application in it answers the health path.
Containers == [gen : Nat, port : Ports, name : {"web", "old", "own"},
               up : BOOLEAN, well : BOOLEAN]

VARIABLES
  box,       \* box[h]: the containers of the service on host h
  route,     \* route[h]: the target of the proxy on h
  target,    \* target[h]: state key <service>.target.<h>
  trans,     \* trans[h]: state key <service>.transition.<h> (writing deploy)
  gated,     \* the proxy backend refuses a target that is not healthy (kamal)
  n,         \* number of deploys started so far; the running one is number n
  pc,        \* what the script does next
  fleet,     \* the hosts array of the running deploy
  todo,      \* hosts still to roll (in the transaction) or to clean (after it)
  cur,       \* the host being rolled, undone or cleaned
  comps,     \* the compensation stack, last registered last
  oldTarget, newPort,   \* what the compensations of a host captured by value
  switched, restored,   \* the two flags its compensations share
  before,    \* history: containers, routes and journals when n started
  tidy       \* history: no compensation of this deploy has failed so far

remote   == <<box, route>>
durable  == <<target, trans>>
captured == <<oldTarget, newPort>>
flags    == <<switched, restored>>
history  == <<before, tidy>>
vars == <<remote, durable, gated, n, pc, fleet, todo, cur, comps, captured,
          flags, history>>
-----------------------------------------------------------------------------
Named(h, name) == {c \in box[h] : c.name = name}
NewCtr(h)      == {c \in box[h] : c.gen = n /\ c.name = "own"}

\* Port p of h is answered by a running and healthy container.
Answers(h, p) == \E c \in box[h] : c.up /\ c.well /\ c.port = p
Serving(h)    == Answers(h, route[h])

\* kamal-proxy waits for the target to pass its health check; caddy does not.
Accepts(h, p) == gated => Answers(h, p)

\* sim_pick_port: the lowest scanned port nothing listens on.
Busy(h, p)     == \E c \in box[h] : c.up /\ c.port = p
FreePort(h, p) == /\ p \in Ports
                  /\ ~Busy(h, p)
                  /\ \A q \in 1..(p - 1) : Busy(h, q)

\* on_rollback pushes; the mutants put it under what is there already, and
\* leave a compensation on the stack while it runs.
Underneath(kind, h) == <<[kind |-> kind, host |-> h]>> \o comps
OnRollback(kind, h) == Append(comps, [kind |-> kind, host |-> h])
Top        == comps[Len(comps)]
PeekComp   == UNCHANGED comps
PopComp    == comps' = SubSeq(comps, 1, Len(comps) - 1)

Oldest(p) == [gen |-> 0, port |-> p, name |-> "web", up |-> TRUE, well |-> TRUE]

\* A host was deployed before by this state, is new to the service, or runs
\* the service although the state at hand has no record of it.
Init ==
  /\ \E recorded, unknown \in SUBSET Hosts :
       /\ recorded \cap unknown = {}
       /\ box = [h \in Hosts |-> IF h \in recorded \cup unknown THEN {Oldest(1)} ELSE {}]
       /\ route = [h \in Hosts |-> IF h \in recorded \cup unknown THEN 1 ELSE None]
       /\ target = [h \in Hosts |-> IF h \in recorded THEN 1 ELSE None]
  /\ trans = [h \in Hosts |-> None]
  /\ gated \in BOOLEAN
  /\ n = 0 /\ pc = "idle" /\ fleet = {} /\ todo = {} /\ cur \in Hosts
  /\ comps = <<>>
  /\ oldTarget = [h \in Hosts |-> Guess] /\ newPort = [h \in Hosts |-> 1]
  /\ switched = [h \in Hosts |-> FALSE] /\ restored = [h \in Hosts |-> FALSE]
  /\ before = [box |-> box, route |-> route, trans |-> trans]
  /\ tidy = TRUE
-----------------------------------------------------------------------------
(* Before the transaction: guards, build, push, pull, pre_deploy and proxy  *)
(* boot.  Any of them may throw, with no host of the service touched.       *)

StartDeploy(f) ==
  /\ pc = "idle" /\ n < MaxDeploys
  /\ n' = n + 1 /\ fleet' = f /\ pc' = "prepare"
  /\ before' = [box |-> box, route |-> route, trans |-> trans] /\ tidy' = TRUE
  /\ switched' = [h \in Hosts |-> FALSE] /\ restored' = [h \in Hosts |-> FALSE]
  /\ UNCHANGED <<remote, durable, gated, todo, cur, comps, captured>>

Prepare ==
  /\ pc = "prepare"
  /\ \/ pc' = "roll" /\ todo' = fleet
     \/ pc' = "idle" /\ UNCHANGED todo
  /\ UNCHANGED <<remote, durable, gated, n, fleet, cur, comps, captured, flags, history>>

-----------------------------------------------------------------------------
(* The transaction body: deploy_one_host for every host of the array.       *)

Throw == pc' = "unwind"

\* (a) The old target by value: the recorded one, or a guess where nothing
\* ran before; with a container running and nothing recorded there is none.
OldTargetOf(h) == IF target[h] # None THEN target[h] ELSE Guess
Unrecorded(h)  == target[h] = None /\ \E c \in Named(h, "web") : c.up

\* Everything of deploy_one_host up to the first on_rollback: reads only.
BeginHost(h) ==
  /\ pc = "roll" /\ h \in todo
  /\ cur' = h
  /\ \/ /\ ~Unrecorded(h) /\ trans[h] = None
        /\ \E p \in Ports :
             /\ FreePort(h, p)
             /\ newPort' = [newPort EXCEPT ![h] = p]
        /\ oldTarget' = [oldTarget EXCEPT ![h] = OldTargetOf(h)]
        /\ comps' = OnRollback("remove", h)
        /\ pc' = "journal"
     \/ Throw /\ UNCHANGED <<captured, comps>>
  /\ UNCHANGED <<remote, durable, gated, n, fleet, todo, flags, history>>

\* state_set(.transition.<host>): the journal precedes the first effect.
Unjournalled == UNCHANGED trans                    \* mutant
Journalled   == trans' = [trans EXCEPT ![cur] = n]

WriteJournal ==
  /\ pc = "journal"
  /\ \/ Journalled /\ pc' = "run"
     \/ Throw /\ UNCHANGED trans
  /\ UNCHANGED <<remote, target, gated, n, fleet, todo, cur, comps, captured, flags, history>>

\* (b) docker run: a container that failed to start may exist all the same,
\* and one that started may be reported as failed.
Started(up, well) == [gen |-> n, port |-> newPort[cur], name |-> "own",
                      up |-> up, well |-> well]
AddCtr(c) == box' = [box EXCEPT ![cur] = @ \cup {c}]

RunContainer ==
  /\ pc = "run"
  /\ \/ pc' = "health" /\ \E well \in BOOLEAN : AddCtr(Started(TRUE, well))
     \/ Throw /\ UNCHANGED box
     \/ Throw /\ \E up, well \in BOOLEAN : AddCtr(Started(up, well))
  /\ UNCHANGED <<route, durable, gated, n, fleet, todo, cur, comps, captured, flags, history>>

\* (c) The health gate on the host, then (d) the restore is registered.
HealthGate ==
  /\ pc = "health"
  /\ \/ /\ \E c \in NewCtr(cur) : c.well
        /\ comps' = OnRollback("restore", cur) /\ pc' = "switch"
     \/ Throw /\ UNCHANGED comps
  /\ UNCHANGED <<remote, durable, gated, n, fleet, todo, cur, captured, flags, history>>

\* (e) proxy_switched is set first: the switch may commit unacknowledged.
RouteTo(h, p) == Accepts(h, p) /\ route' = [route EXCEPT ![h] = p]

SwitchIgnored == pc' = "roll" /\ todo' = todo \ {cur}     \* mutant
SwitchFailed  == Throw /\ UNCHANGED todo

SwitchProxy ==
  /\ pc = "switch"
  /\ switched' = [switched EXCEPT ![cur] = TRUE]
  /\ \/ RouteTo(cur, newPort[cur]) /\ pc' = "roll" /\ todo' = todo \ {cur}
     \/ RouteTo(cur, newPort[cur]) /\ SwitchFailed
     \/ SwitchFailed /\ UNCHANGED route
  /\ UNCHANGED <<box, durable, gated, n, fleet, cur, comps, captured, restored, history>>

\* The body returned: the outermost commit drops the compensations.
CommitTransaction ==
  /\ pc = "roll" /\ todo = {}
  /\ comps' = <<>> /\ pc' = "record"
  /\ UNCHANGED <<remote, durable, gated, n, fleet, todo, cur, captured, flags, history>>

-----------------------------------------------------------------------------
(* The unwind: last registered first, each popped before it runs, a failing *)
(* one logged and left behind.                                              *)

\* Traffic back to the old target; a failure may come after the effect.
Restore ==
  /\ pc = "unwind" /\ comps # <<>> /\ Top.kind = "restore"
  /\ PopComp
  /\ \/ /\ RouteTo(Top.host, oldTarget[Top.host])
        /\ restored' = [restored EXCEPT ![Top.host] = TRUE]
        /\ UNCHANGED tidy
     \/ /\ RouteTo(Top.host, oldTarget[Top.host])
        /\ tidy' = FALSE /\ UNCHANGED restored
     \/ tidy' = FALSE /\ UNCHANGED <<route, restored>>
  /\ UNCHANGED <<box, durable, gated, n, pc, fleet, todo, cur, captured, switched, before>>

\* The new container is left running when traffic may still go to it.
AlwaysRemove(h)  == FALSE                          \* mutant
RestoreMissed(h) == switched[h] /\ ~restored[h]

SkipRemove ==
  /\ pc = "unwind" /\ comps # <<>> /\ Top.kind = "remove" /\ RestoreMissed(Top.host)
  /\ PopComp
  /\ UNCHANGED <<remote, durable, gated, n, pc, fleet, todo, cur, captured, flags, history>>

DropNew(h) == box' = [box EXCEPT ![h] = @ \ NewCtr(h)]

RemoveNew ==
  /\ pc = "unwind" /\ comps # <<>> /\ Top.kind = "remove" /\ ~RestoreMissed(Top.host)
  /\ PopComp
  /\ \/ DropNew(Top.host) /\ pc' = "clear" /\ cur' = Top.host /\ UNCHANGED tidy
     \/ DropNew(Top.host) /\ tidy' = FALSE /\ UNCHANGED <<pc, cur>>
     \/ tidy' = FALSE /\ UNCHANGED <<box, pc, cur>>
  /\ UNCHANGED <<route, durable, gated, n, fleet, todo, captured, flags, before>>

\* Only a confirmed removal clears the journal of the host.
ClearJournal ==
  /\ pc = "clear" /\ pc' = "unwind"
  /\ \/ trans' = [trans EXCEPT ![cur] = None] /\ UNCHANGED tidy
     \/ tidy' = FALSE /\ UNCHANGED trans
  /\ UNCHANGED <<remote, target, gated, n, fleet, todo, cur, comps, captured, flags, before>>

\* The unwind is over: the original error leaves deploy().
Reraise ==
  /\ pc = "unwind" /\ comps = <<>>
  /\ pc' = "idle"
  /\ UNCHANGED <<remote, durable, gated, n, fleet, todo, cur, comps, captured, flags, history>>
-----------------------------------------------------------------------------
(* After the transaction: one state update for the whole fleet, then the    *)
(* old containers are retired host by host, best-effort.                    *)

RecordRelease ==
  /\ pc = "record"
  /\ \/ /\ target' = [h \in Hosts |-> IF h \in fleet THEN newPort[h] ELSE target[h]]
        /\ todo' = fleet /\ pc' = "clean"
     \/ pc' = "idle" /\ UNCHANGED <<target, todo>>
  /\ UNCHANGED <<remote, trans, gated, n, fleet, cur, comps, captured, flags, history>>

Rename(h, cs, name) ==
  box' = [box EXCEPT ![h] = (@ \ cs) \cup {[c EXCEPT !.name = name] : c \in cs}]

NextHost == pc' = "clean" /\ todo' = todo \ {cur}   \* warn, continue

\* docker rename web -> web-old: nothing to rename is success, a name that is
\* taken is a failure.
RenameOld(h) ==
  /\ pc = "clean" /\ h \in todo /\ cur' = h
  /\ \/ /\ Named(h, "web") = {} \/ Named(h, "old") = {}
        /\ Rename(h, Named(h, "web"), "old")
        /\ \/ pc' = "promote" /\ UNCHANGED todo
           \/ pc' = "clean" /\ todo' = todo \ {h}
     \/ pc' = "clean" /\ todo' = todo \ {h} /\ UNCHANGED box
  /\ UNCHANGED <<route, durable, gated, n, fleet, comps, captured, flags, history>>

\* docker rename own -> web: the new container has to be there.
Promote ==
  /\ pc = "promote"
  /\ \/ /\ NewCtr(cur) # {} /\ Named(cur, "web") = {}
        /\ Rename(cur, NewCtr(cur), "web")
        /\ \/ pc' = "retire" /\ UNCHANGED todo
           \/ NextHost
     \/ NextHost /\ UNCHANGED box
  /\ UNCHANGED <<route, durable, gated, n, fleet, cur, comps, captured, flags, history>>

\* docker stop, docker rm -f: both run whatever the first returned.  A failed
\* pair may have stopped the old container, removed it, or done nothing.
RetireIgnored == pc' = "settle" /\ UNCHANGED todo  \* mutant
RetireFailed  == NextHost

StopOld == box' = [box EXCEPT ![cur] =
             (@ \ Named(cur, "old")) \cup {[c EXCEPT !.up = FALSE] : c \in Named(cur, "old")}]
RetireOld ==
  /\ pc = "retire"
  /\ \/ /\ box' = [box EXCEPT ![cur] = @ \ Named(cur, "old")]
        /\ \/ pc' = "settle" /\ UNCHANGED todo
           \/ RetireFailed
     \/ RetireFailed /\ (StopOld \/ UNCHANGED box)
  /\ UNCHANGED <<route, durable, gated, n, fleet, cur, comps, captured, flags, history>>

\* state_del(.transition.<host>); a failed write throws out of deploy().
Settle ==
  /\ pc = "settle"
  /\ \/ trans' = [trans EXCEPT ![cur] = None] /\ NextHost
     \/ pc' = "idle" /\ UNCHANGED <<trans, todo>>
  /\ UNCHANGED <<remote, target, gated, n, fleet, cur, comps, captured, flags, history>>

FinishDeploy ==
  /\ pc = "clean" /\ todo = {}
  /\ pc' = "idle"
  /\ UNCHANGED <<remote, durable, gated, n, fleet, todo, cur, comps, captured, flags, history>>

-----------------------------------------------------------------------------
(* Interruption, process death, and the operator.                           *)

InBody == pc \in {"roll", "journal", "run", "health", "switch"}

\* SIGINT/SIGTERM: in the body it unwinds like a throw; a compensation it hits
\* is abandoned and the unwind goes on; elsewhere deploy() ends.
Interrupt ==
  /\ pc # "idle"
  /\ \/ InBody /\ Throw /\ UNCHANGED <<comps, tidy>>
     \/ /\ pc = "unwind" /\ comps # <<>>
        /\ PopComp /\ tidy' = FALSE /\ UNCHANGED pc
     \/ pc = "clear" /\ pc' = "unwind" /\ tidy' = FALSE /\ UNCHANGED comps
     \/ /\ ~InBody /\ pc \notin {"unwind", "clear"}
        /\ pc' = "idle" /\ UNCHANGED <<comps, tidy>>
  /\ UNCHANGED <<remote, durable, gated, n, fleet, todo, cur, captured, flags, before>>

\* Crash, SIGKILL, or a forced quit: the compensations are lost.
Die ==
  /\ pc # "idle"
  /\ pc' = "idle" /\ comps' = <<>> /\ tidy' = FALSE
  /\ UNCHANGED <<remote, durable, gated, n, fleet, todo, cur, captured, flags, before>>

\* docs/deploy.md, Recovery: keep the serving backend under its canonical
\* name, correct the recorded target, and only then clear the journal.
Reconcile(h) ==
  /\ pc = "idle" /\ trans[h] # None
  /\ \/ \E c \in box[h] :
          /\ c.up /\ c.well /\ c.port = route[h]
          /\ box' = [box EXCEPT ![h] = {[c EXCEPT !.name = "web"]}]
          /\ target' = [target EXCEPT ![h] = route[h]]
     \/ /\ ~Serving(h)
        /\ box' = [box EXCEPT ![h] = {}]
        /\ UNCHANGED target
  /\ trans' = [trans EXCEPT ![h] = None]
  /\ UNCHANGED <<route, gated, n, pc, fleet, todo, cur, comps, captured, flags, history>>

-----------------------------------------------------------------------------
Script == \/ Prepare \/ WriteJournal \/ RunContainer \/ HealthGate \/ SwitchProxy
          \/ CommitTransaction \/ Restore \/ SkipRemove \/ RemoveNew
          \/ ClearJournal \/ Reraise \/ RecordRelease \/ Promote \/ RetireOld
          \/ Settle \/ FinishDeploy
          \/ \E h \in Hosts : BeginHost(h) \/ RenameOld(h)

Next == \/ Script
        \/ \E f \in SUBSET Hosts \ {{}} : StartDeploy(f)
        \/ Interrupt
        \/ Die
        \/ \E h \in Hosts : Reconcile(h)

Spec == Init /\ [][Next]_vars

\* The script of a started deploy keeps running: every command has a deadline
\* (runner.rs) and every retry loop a bound.
FairSpec == Spec /\ WF_vars(Script)
-----------------------------------------------------------------------------
Phases == {"idle", "prepare", "roll", "journal", "run", "health", "switch",
           "unwind", "clear", "record", "clean", "promote", "retire", "settle"}

TypeOK ==
  /\ box \in [Hosts -> SUBSET Containers]
  /\ route \in [Hosts -> Targets \cup {None}]
  /\ target \in [Hosts -> Ports \cup {None}]
  /\ trans \in [Hosts -> Deploys \cup {None}]
  /\ gated \in BOOLEAN /\ n \in Deploys /\ pc \in Phases
  /\ fleet \subseteq Hosts /\ todo \subseteq Hosts /\ cur \in Hosts
  /\ comps \in Seq([kind : {"remove", "restore"}, host : Hosts])
  /\ oldTarget \in [Hosts -> Targets] /\ newPort \in [Hosts -> Ports]
  /\ switched \in [Hosts -> BOOLEAN] /\ restored \in [Hosts -> BOOLEAN]
  /\ tidy \in BOOLEAN

\* No blackhole: once a release is recorded for a host, its proxy always routes
\* to a running, healthy container -- through failures of the new release, a
\* lost acknowledgment of the switch, failing compensations, Ctrl-C, a crash
\* and the retirement of the old container (deploy.rhai 867-877, 557-620).
RecordedHostServes == \A h \in Hosts : target[h] # None => Serving(h)

\* A host without an open journal has nothing left to clean up: every container
\* of the service there is the canonical one and the proxy routes where the
\* state says.  Whatever was interrupted, the next deploy can trust the record
\* or is refused by the journal (deploy.rhai 864-866).
ClosedHostIsClean ==
  \A h \in Hosts : trans[h] = None =>
    /\ \A c \in box[h] : c.name = "web"
    /\ target[h] # None => route[h] = target[h]

\* All or nothing: a transaction that fails and whose compensations all ran
\* leaves every host of the fleet as the deploy found it -- containers and
\* journal, and traffic wherever there was a release to go back to.
FailedDeployUndoesFleet ==
  [][pc = "unwind" /\ pc' = "idle" /\ tidy /\ tidy' =>
       /\ box = before.box /\ trans = before.trans
       /\ \A h \in Hosts : target[h] # None => route[h] = before.route[h]]_vars

\* The release is recorded only when every host of the fleet serves it from the
\* container this deploy started, with the previous container still running.
RecordedOnlyWhenFleetServes ==
  [][target' # target /\ pc = "record" =>
       \A h \in fleet :
         /\ route[h] = newPort[h] /\ \E c \in NewCtr(h) : c.up /\ c.well
         /\ target[h] # None => Answers(h, target[h])]_vars

\* Every run of deploy() ends, whatever fails and however often it is
\* interrupted while it unwinds.
DeployEnds == pc # "idle" ~> pc = "idle"

Ledger == INSTANCE FleetLedger WITH live <- route, ledger <- target,
            open <- {h \in Hosts : trans[h] # None}

\* The fleet deploy implements the write-ahead ledger of FleetLedger.
LedgerRefinement == Ledger!LedgerSpec
=============================================================================
