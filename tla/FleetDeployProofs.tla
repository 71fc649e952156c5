------------------------- MODULE FleetDeployProofs -------------------------
(***************************************************************************)
(* Type correctness and the two safety invariants of FleetDeploy, what is  *)
(* true when a release is recorded, the refinement of FleetLedger, and     *)
(* that a failed deploy leaves the fleet as it found it, for every fleet,  *)
(* every number of ports and every number of deploys.                      *)
(***************************************************************************)
EXTENDS FleetDeploy, SequenceTheorems, TLAPS

Retiring == pc \in {"clean", "promote", "retire", "settle"}

\* A container of h that runs, is healthy, and carries the name.
Kept(h, p, name) == \E c \in box[h] : c.up /\ c.well /\ c.port = p /\ c.name = name

\* The old release of h is still there to go back to.
OldKept(h) == target[h] # None => /\ oldTarget[h] = target[h]
                                  /\ Kept(h, target[h], "web")

\* The only container of h that is not canonical is the running deploy's.
OnlyNew(h) == \A c \in box[h] : c.name = "web" \/ (c.name = "own" /\ c.gen = n)

\* h has no container of the running deploy and was not switched by it.
Fresh(h)   == ~switched[h] /\ \A c \in box[h] : c.gen # n

NewServes(h) == \E c \in NewCtr(h) : c.up /\ c.well /\ c.port = newPort[h]

\* The new release of h serves, with the old one still there, journalled.
Rolled(h) == /\ trans[h] # None /\ route[h] = newPort[h]
             /\ NewServes(h) /\ OldKept(h) /\ OnlyNew(h)

GenInv == \A h \in Hosts : \A c \in box[h] : c.gen <= n

\* While hosts are rolled, none is restored, those to do are untouched but the
\* current one, and those done serve the new release under an open journal.
BodyInv ==
  /\ pc \in {"prepare", "roll", "journal", "run", "health", "switch"} =>
       \A h \in Hosts : ~restored[h]
  /\ pc = "prepare" => \A h \in Hosts : Fresh(h)
  /\ InBody => \A h \in todo : (pc # "roll" /\ h = cur) \/ Fresh(h)
  /\ InBody \/ pc = "record" => \A h \in fleet : h \in todo \/ Rolled(h)
  /\ pc = "record" => todo = {}

\* How far the current host is.
CurInv ==
  /\ pc \in {"journal", "run", "health", "switch"} =>
       /\ cur \in todo /\ ~switched[cur] /\ OldKept(cur) /\ OnlyNew(cur)
       /\ target[cur] # None => route[cur] = target[cur]
  /\ pc = "journal" => trans[cur] = None
  /\ pc \in {"run", "health", "switch"} => trans[cur] # None
  /\ pc \in {"journal", "run"} => \A c \in box[cur] : c.gen # n
  /\ pc = "health" => \A c \in NewCtr(cur) : c.up /\ c.port = newPort[cur]
  /\ pc = "switch" => NewServes(cur)
  /\ pc = "clear" => /\ \A c \in box[cur] : c.name = "web"
                     /\ target[cur] # None => route[cur] = target[cur]

Comps == [kind : {"remove", "restore"}, host : Hosts]

Stacked(c) == \E k \in 1..Len(comps) : comps[k] = c

\* A host with a compensation has its old release kept, and its traffic there
\* unless it was switched away; its restore exists only under an open journal.
Undoable(c) ==
  /\ OldKept(c.host) /\ OnlyNew(c.host)
  /\ target[c.host] # None /\ (~switched[c.host] \/ restored[c.host])
       => route[c.host] = target[c.host]
  /\ c.kind = "restore" => trans[c.host] # None
  /\ InBody => c.host \notin todo \/ (pc # "roll" /\ c.host = cur)
  /\ pc = "clear" /\ c.kind = "restore" => c.host # cur

\* The restore of a host lies above its remove.
RestoreFirst ==
  \A j, k \in 1..Len(comps) :
    comps[j].kind = "restore" /\ comps[k].kind = "remove"
      /\ comps[j].host = comps[k].host => k < j

\* The stack is empty outside the transaction.
StackInv ==
  /\ InBody \/ pc \in {"unwind", "clear"} \/ comps = <<>>
  /\ \A c \in Comps : Stacked(c) => Undoable(c)
  /\ RestoreFirst

\* The release of h is recorded as its proxy routes; it is still served from
\* the deploy's own container.
Recorded(h) == trans[h] # None /\ target[h] = newPort[h] /\ route[h] = newPort[h]
Unpromoted(h) == NewServes(h) /\ \A c \in box[h] : c.name = "own" => c.gen = n

\* While old containers are retired, the hosts to do serve the recorded release,
\* the current one from a container under its new name.
RetireInv ==
  /\ Retiring => \A h \in todo :
       Recorded(h) /\ ((h = cur /\ pc \in {"retire", "settle"}) \/ Unpromoted(h))
  /\ pc \in {"promote", "retire", "settle"} => cur \in todo
  /\ pc = "retire" => Named(cur, "own") = {}
  /\ pc = "settle" => \A c \in box[cur] : c.name = "web"
  /\ pc \in {"retire", "settle"} => Kept(cur, newPort[cur], "web")

\* The inductive invariant: the two properties and what keeps them.
TransitionInv == /\ TypeOK /\ RecordedHostServes /\ ClosedHostIsClean
                 /\ GenInv /\ BodyInv /\ CurInv /\ StackInv /\ RetireInv

-----------------------------------------------------------------------------
\* Popping and pushing a compensation leaves the ones below as they were.
LEMMA StackPop ==
  ASSUME comps \in Seq(Comps), comps # <<>>, PopComp
  PROVE  /\ comps' \in Seq(Comps) /\ Len(comps') = Len(comps) - 1
         /\ Top \in Comps /\ Len(comps) \in 1..Len(comps)
         /\ \A k \in 1..Len(comps') : k \in 1..Len(comps) /\ comps'[k] = comps[k]
<1>1. PICK height, below : height = Len(comps) /\ below = SubSeq(comps, 1, height - 1)
  OBVIOUS
<1>2. height \in Nat /\ height # 0 /\ \A k \in 1..height : comps[k] \in Comps
  BY <1>1
<1>3. below \in Seq(Comps) /\ Len(below) = height - 1 /\ \A k \in 1..(height - 1) : below[k] = comps[k]
  BY <1>1, <1>2, SubSeqProperties
<1>4. comps' = below /\ Top = comps[height]
  BY <1>1 DEF PopComp, Top
<1> QED BY <1>1, <1>2, <1>3, <1>4

LEMMA StackPush ==
  ASSUME comps \in Seq(Comps), NEW kind \in {"remove", "restore"}, NEW h \in Hosts,
         comps' = OnRollback(kind, h)
  PROVE  /\ comps' \in Seq(Comps) /\ Len(comps') = Len(comps) + 1
         /\ comps'[Len(comps')] = [kind |-> kind, host |-> h]
         /\ \A k \in 1..Len(comps) : comps'[k] = comps[k]
BY DEF OnRollback, Comps

LEMMA InitType == Init => TypeOK
BY PortsAssumed DEF Init, TypeOK, Phases, Deploys, Targets, Ports, Guess, Oldest, Containers

\* Renaming containers of a host leaves them containers.
LEMMA RenameType ==
  ASSUME box \in [Hosts -> SUBSET Containers], NEW h \in Hosts, NEW cs \in SUBSET box[h],
         NEW name \in {"web", "old", "own"}, Rename(h, cs, name)
  PROVE  box' \in [Hosts -> SUBSET Containers]
<1>1. \A c \in Containers : [c EXCEPT !.name = name] \in Containers
  BY DEF Containers
<1> QED BY <1>1 DEF Rename

\* Every step keeps the state well typed.
LEMMA StepType == TypeOK /\ [Next]_vars => TypeOK'
<1> SUFFICES ASSUME TypeOK, [Next]_vars PROVE TypeOK'
  OBVIOUS
<1> USE PortsAssumed DEF TypeOK, Phases
<1>1. ASSUME NEW f \in SUBSET Hosts, StartDeploy(f) PROVE TypeOK'
  <2>1. switched' \in [Hosts -> BOOLEAN] /\ restored' \in [Hosts -> BOOLEAN]
    BY <1>1 DEF StartDeploy
  <2>2. n' \in Deploys
    BY <1>1 DEF StartDeploy, Deploys
  <2> QED BY <1>1, <2>1, <2>2 DEF StartDeploy, remote, durable, captured
<1>2. CASE Prepare
  BY <1>2 DEF Prepare, remote, durable, captured, flags, history
<1>3. ASSUME NEW h \in Hosts, BeginHost(h) PROVE TypeOK'
  <2>1. h \in Hosts /\ comps' = comps => comps' \in Seq(Comps)
    BY DEF Comps
  <2>2. CASE comps' = comps /\ captured' = captured
    BY <1>3, <2>2 DEF BeginHost, Throw, remote, durable, captured, flags, history
  <2>3. CASE comps' = OnRollback("remove", h)
    <3>1. comps' \in Seq(Comps)
      BY <2>3, StackPush DEF Comps
    <3> QED BY <1>3, <2>3, <3>1 DEF BeginHost, Throw, remote, durable, captured, flags,
              history, FreePort, OldTargetOf, Targets, Guess, Comps
  <2> QED BY <1>3, <2>2, <2>3 DEF BeginHost
<1>4. CASE WriteJournal
  BY <1>4 DEF WriteJournal, Throw, Journalled, remote, captured, flags, history, Deploys
<1>5. CASE RunContainer
  <2>1. \A up, well \in BOOLEAN : Started(up, well) \in Containers
    BY DEF Started, Containers, Deploys
  <2>2. box' \in [Hosts -> SUBSET Containers]
    <3>1. ASSUME NEW c \in Containers, AddCtr(c) PROVE box' \in [Hosts -> SUBSET Containers]
      BY <3>1 DEF AddCtr
    <3>2. CASE \E up, well \in BOOLEAN : AddCtr(Started(up, well))
      BY <3>1, <3>2, <2>1
    <3>3. CASE \E well \in BOOLEAN : AddCtr(Started(TRUE, well))
      BY <3>1, <3>3, <2>1
    <3> QED BY <1>5, <3>2, <3>3 DEF RunContainer
  <2> QED BY <1>5, <2>2 DEF RunContainer, Throw, durable, captured, flags, history
<1>6. CASE HealthGate
  <2>1. CASE comps' = OnRollback("restore", cur)
    <3>1. comps' \in Seq(Comps)
      BY <2>1, StackPush DEF Comps
    <3> QED BY <1>6, <3>1 DEF HealthGate, Throw, remote, durable, captured, flags, history, Comps
  <2> QED BY <1>6, <2>1 DEF HealthGate, Throw, remote, durable, captured, flags, history
<1>7. CASE SwitchProxy
  BY <1>7 DEF SwitchProxy, Throw, RouteTo, SwitchFailed, durable, captured, flags, history, Targets
<1>8. CASE CommitTransaction
  BY <1>8 DEF CommitTransaction, remote, durable, captured, flags, history
<1>9. CASE Restore \/ SkipRemove \/ RemoveNew
  <2>1. /\ comps' \in Seq(Comps) /\ Top \in Comps
    BY <1>9, StackPop DEF Restore, SkipRemove, RemoveNew, Comps
  <2>2. CASE Restore
    BY <2>1, <2>2 DEF Restore, RouteTo, Targets, durable, captured, history, Comps
  <2>3. CASE SkipRemove
    BY <2>1, <2>3 DEF SkipRemove, remote, durable, captured, flags, history, Comps
  <2>4. CASE RemoveNew
    <3>1. box' \in [Hosts -> SUBSET Containers]
      BY <2>4 DEF RemoveNew, DropNew
    <3> QED BY <2>1, <2>4, <3>1 DEF RemoveNew, durable, captured, flags, Comps
  <2> QED BY <1>9, <2>2, <2>3, <2>4
<1>10. CASE ClearJournal
  BY <1>10 DEF ClearJournal, remote, captured, flags
<1>11. CASE Reraise \/ FinishDeploy
  BY <1>11 DEF Reraise, FinishDeploy, remote, durable, captured, flags, history
<1>12. CASE RecordRelease
  BY <1>12 DEF RecordRelease, remote, captured, flags, history
<1>13. ASSUME NEW h \in Hosts, RenameOld(h) PROVE TypeOK'
  <2>1. box' \in [Hosts -> SUBSET Containers]
    BY <1>13, RenameType DEF RenameOld, Named
  <2> QED BY <1>13, <2>1 DEF RenameOld, durable, captured, flags, history
<1>14. CASE Promote
  <2>1. box' \in [Hosts -> SUBSET Containers]
    BY <1>14, RenameType DEF Promote, NewCtr
  <2> QED BY <1>14, <2>1 DEF Promote, NextHost, durable, captured, flags, history
<1>15. CASE RetireOld
  <2>1. \A c \in Containers : [c EXCEPT !.up = FALSE] \in Containers
    BY DEF Containers
  <2>2. box' \in [Hosts -> SUBSET Containers]
    BY <1>15, <2>1 DEF RetireOld, StopOld, Named
  <2> QED BY <1>15, <2>2 DEF RetireOld, RetireFailed, NextHost, durable, captured, flags, history
<1>16. CASE Settle
  BY <1>16 DEF Settle, NextHost, remote, captured, flags, history
<1>17. CASE Interrupt
  <2>1. CASE PopComp
    <3>1. comps' \in Seq(Comps)
      BY <1>17, <2>1, StackPop DEF Comps, Interrupt, PopComp
    <3> QED BY <1>17, <2>1, <3>1 DEF Interrupt, Throw, remote, durable, captured, flags, Comps
  <2> QED BY <1>17, <2>1 DEF Interrupt, Throw, remote, durable, captured, flags
<1>18. CASE Die
  <2>1. comps' \in Seq(Comps)
    BY <1>18 DEF Die
  <2> QED BY <1>18, <2>1 DEF Die, remote, durable, captured, flags, Comps
<1>19. ASSUME NEW h \in Hosts, Reconcile(h) PROVE TypeOK'
  <2>1. \A c \in Containers : [c EXCEPT !.name = "web"] \in Containers
    BY DEF Containers
  <2>2. box' \in [Hosts -> SUBSET Containers]
    BY <1>19, <2>1 DEF Reconcile
  <2>3. target' \in [Hosts -> Ports \cup {None}]
    BY <1>19 DEF Reconcile, Containers
  <2>4. trans' \in [Hosts -> Deploys \cup {None}]
    BY <1>19 DEF Reconcile
  <2> QED BY <1>19, <2>2, <2>3, <2>4 DEF Reconcile, captured, flags, history
<1>20. CASE UNCHANGED vars
  BY <1>20 DEF vars, remote, durable, captured, flags, history
<1> QED
  BY <1>1, <1>2, <1>3, <1>4, <1>5, <1>6, <1>7, <1>8, <1>9, <1>10, <1>11, <1>12, <1>13,
     <1>14, <1>15, <1>16, <1>17, <1>18, <1>19, <1>20 DEF Next, Script

\* The state of every reachable configuration is well typed.
THEOREM TypeCorrect == Spec => []TypeOK
BY InitType, StepType, PTL DEF Spec

LEMMA InitTransition == Init => TransitionInv
<1> SUFFICES ASSUME Init PROVE TransitionInv
  OBVIOUS
<1>1. TypeOK
  BY InitType
<1>2. pc = "idle" /\ comps = <<>> /\ ~InBody /\ ~Retiring
  BY DEF Init, InBody, Retiring
<1>3. BodyInv /\ CurInv /\ RetireInv
  BY <1>2 DEF BodyInv, CurInv, RetireInv
<1>4. StackInv
  BY <1>2 DEF StackInv, Stacked, RestoreFirst
<1>5. \A h \in Hosts : \A c \in box[h] : c = Oldest(1)
  BY DEF Init
<1>6. ClosedHostIsClean /\ GenInv
  BY <1>5 DEF Init, ClosedHostIsClean, GenInv, Oldest
<1>7. RecordedHostServes
  <2> SUFFICES ASSUME NEW h \in Hosts, target[h] # None PROVE Serving(h)
    BY DEF RecordedHostServes
  <2>1. Oldest(1) \in box[h] /\ route[h] = 1
    BY DEF Init
  <2> QED BY <2>1 DEF Serving, Answers, Oldest
<1> QED BY <1>1, <1>3, <1>4, <1>6, <1>7 DEF TransitionInv

LEMMA EmptyStack == comps' = <<>> => StackInv'
BY DEF StackInv, Stacked, RestoreFirst

\* A step that only moves the program counter from outside the transaction to
\* the end keeps the invariant: shared by FinishDeploy, Reraise and Die.
LEMMA LeaveDeploy ==
  ASSUME TransitionInv, TypeOK', pc' = "idle", comps' = <<>>,
         UNCHANGED <<box, route, target, trans, n>>
  PROVE  TransitionInv'
<1>1. ~InBody' /\ ~Retiring'
  BY DEF InBody, Retiring
<1>2. BodyInv' /\ CurInv' /\ RetireInv' /\ StackInv'
  BY <1>1, EmptyStack DEF BodyInv, CurInv, RetireInv
<1>3. RecordedHostServes' /\ ClosedHostIsClean' /\ GenInv'
  BY DEF TransitionInv, RecordedHostServes, ClosedHostIsClean, GenInv, Serving, Answers
<1> QED BY <1>2, <1>3 DEF TransitionInv

\* What a step does not change of a host, and what that leaves true of it.
Same(h) == /\ n' = n /\ box'[h] = box[h] /\ route'[h] = route[h]
           /\ target'[h] = target[h] /\ trans'[h] = trans[h]
           /\ oldTarget'[h] = oldTarget[h] /\ newPort'[h] = newPort[h]
           /\ switched'[h] = switched[h] /\ restored'[h] = restored[h]

LEMMA HostFrame ==
  ASSUME NEW h \in Hosts, Same(h)
  PROVE  /\ Fresh(h) => Fresh(h)'
         /\ Rolled(h) => Rolled(h)'
         /\ NewServes(h) => NewServes(h)'
         /\ OldKept(h) => OldKept(h)'
         /\ OnlyNew(h) => OnlyNew(h)'
         /\ Serving(h) => Serving(h)'
<1> USE DEF Same
<1>1. NewServes(h)' = NewServes(h)
  BY DEF NewServes, NewCtr
<1>2. OldKept(h) => OldKept(h)'
  BY DEF OldKept, Kept
<1>3. OnlyNew(h) => OnlyNew(h)'
  BY DEF OnlyNew
<1>4. Rolled(h) => Rolled(h)'
  BY <1>1, <1>2, <1>3 DEF Rolled
<1> QED BY <1>1, <1>2, <1>3, <1>4 DEF Fresh, Serving, Answers

\* The properties and the generations, host by host.
HostOK(h) == /\ target[h] # None => Serving(h)
             /\ trans[h] = None => /\ \A c \in box[h] : c.name = "web"
                                   /\ target[h] # None => route[h] = target[h]
             /\ \A c \in box[h] : c.gen <= n

LEMMA HostsOK == RecordedHostServes /\ ClosedHostIsClean /\ GenInv <=> \A h \in Hosts : HostOK(h)
BY DEF RecordedHostServes, ClosedHostIsClean, GenInv, HostOK

LEMMA HostsOKNext ==
  RecordedHostServes' /\ ClosedHostIsClean' /\ GenInv' <=> \A h \in Hosts : HostOK(h)'
BY DEF RecordedHostServes, ClosedHostIsClean, GenInv, HostOK

LEMMA HostOKFrame == ASSUME NEW h \in Hosts, Same(h), HostOK(h) PROVE HostOK(h)'
BY HostFrame DEF Same, HostOK

LEMMA UndoableFrame ==
  ASSUME NEW c \in Comps, Same(c.host), Undoable(c),
         InBody' => c.host \notin todo' \/ (pc' # "roll" /\ c.host = cur'),
         pc' = "clear" /\ c.kind = "restore" => c.host # cur'
  PROVE  Undoable(c)'
<1>1. c.host \in Hosts
  BY DEF Comps
<1>2. OldKept(c.host)' /\ OnlyNew(c.host)'
  BY <1>1, HostFrame DEF Undoable
<1> QED BY <1>2 DEF Undoable, Same

\* The unwind begins or goes on, or a journal is being cleared: it is left to
\* look at the hosts, and at the compensations of the stack as it is now.
LEMMA Unwinding ==
  ASSUME TypeOK', pc' \in {"unwind", "clear"}, \A h \in Hosts : HostOK(h)', CurInv',
         StackInv'
  PROVE  TransitionInv'
<1>1. BodyInv' /\ RetireInv'
  BY DEF BodyInv, RetireInv, InBody, Retiring
<1> QED BY <1>1, HostsOKNext DEF TransitionInv

LEMMA ThrowStep ==
  ASSUME TransitionInv, TypeOK', Throw, comps' = comps, \A h \in Hosts : HostOK(h)',
         \A c \in Comps : Stacked(c) => Undoable(c)'
  PROVE  TransitionInv'
<1>1. CurInv'
  BY DEF CurInv, Throw
<1>2. StackInv'
  BY DEF StackInv, Stacked, RestoreFirst, Throw, TransitionInv
<1> QED BY <1>1, <1>2, Unwinding DEF Throw

\* Pushing a compensation adds it to the stack, and keeps the restores first if
\* its host had no restore yet.
LEMMA Pushed ==
  ASSUME TypeOK, NEW kind \in {"remove", "restore"}, NEW h \in Hosts,
         comps' = OnRollback(kind, h), RestoreFirst,
         kind = "remove" => \A c \in Comps : Stacked(c) => c.host # h
  PROVE  /\ \A c \in Comps : Stacked(c)' => Stacked(c) \/ c = [kind |-> kind, host |-> h]
         /\ RestoreFirst'
<1> DEFINE new == [kind |-> kind, host |-> h]
<1>1. /\ Len(comps') = Len(comps) + 1 /\ comps'[Len(comps')] = new
      /\ \A k \in 1..Len(comps) : comps'[k] = comps[k]
      /\ comps \in Seq(Comps) /\ Len(comps) \in Nat
  BY StackPush DEF TypeOK, Comps
<1>2. ASSUME NEW c \in Comps, Stacked(c)' PROVE Stacked(c) \/ c = new
  BY <1>1, <1>2 DEF Stacked
<1>3. ASSUME NEW j \in 1..Len(comps'), NEW k \in 1..Len(comps'),
             comps'[j].kind = "restore", comps'[k].kind = "remove",
             comps'[j].host = comps'[k].host
      PROVE  k < j
  <2>1. CASE k \in 1..Len(comps)
    BY <1>1, <1>3, <2>1 DEF RestoreFirst
  <2>2. CASE k = Len(comps')
    <3>1. j \in 1..Len(comps) /\ kind = "remove"
      BY <1>1, <1>3, <2>2
    <3>2. Stacked(comps[j]) /\ comps[j] \in Comps
      BY <1>1, <3>1 DEF Stacked
    <3> QED BY <1>1, <1>3, <2>2, <3>1, <3>2
  <2> QED BY <1>1, <2>1, <2>2
<1> QED BY <1>2, <1>3 DEF RestoreFirst

\* A step of the current host in the transaction body: it is left to look at
\* that host and at its compensations.
Rolling == pc \in {"journal", "run", "health", "switch"}

LEMMA CurStep ==
  ASSUME TransitionInv, TypeOK', Rolling, pc' \in {"run", "health", "switch", "unwind", "roll"},
         UNCHANGED <<cur, fleet, restored>>,
         \A h \in Hosts : h # cur => Same(h),
         \A h \in Hosts : h = cur => HostOK(h)',
         CurInv',
         \/ todo' = todo /\ pc' # "roll"
         \/ todo' = todo \ {cur} /\ \A h \in Hosts : h = cur => Rolled(h)',
         \A c \in Comps : Stacked(c)' /\ c.host # cur => Stacked(c),
         \A c \in Comps : Stacked(c)' /\ c.host = cur => Undoable(c)',
         RestoreFirst'
  PROVE  TransitionInv'
<1> USE DEF TransitionInv, InBody, Retiring, Rolling
<1>1. \A h \in Hosts : HostOK(h)'
  BY HostsOK, HostOKFrame
<1>2. BodyInv'
  <2>1. ASSUME NEW h \in Hosts, h # cur
        PROVE  (Fresh(h) => Fresh(h)') /\ (Rolled(h) => Rolled(h)')
    BY <2>1, HostFrame
  <2>2. /\ \A h \in Hosts : ~restored[h]
        /\ \A h \in todo : h # cur => Fresh(h)
        /\ \A h \in fleet : h \in todo \/ Rolled(h)
        /\ todo \subseteq Hosts /\ fleet \subseteq Hosts /\ cur \in todo
    BY DEF BodyInv, CurInv, TypeOK
  <2>3. \A h \in todo' : (pc' # "roll" /\ h = cur) \/ Fresh(h)'
    BY <2>1, <2>2
  <2>4. \A h \in fleet : h \in todo' \/ Rolled(h)'
    BY <2>1, <2>2
  <2> QED BY <2>2, <2>3, <2>4 DEF BodyInv
<1>3. StackInv'
  <2>1. ASSUME NEW c \in Comps, Stacked(c)', c.host # cur PROVE Undoable(c)'
    <3>1. Undoable(c) /\ Same(c.host) /\ c.host \notin todo
      BY <2>1 DEF StackInv, Undoable, Comps
    <3> QED BY <2>1, <3>1, UndoableFrame
  <2> QED BY <2>1 DEF StackInv
<1>4. RetireInv'
  BY DEF RetireInv
<1> QED BY <1>1, <1>2, <1>3, <1>4, HostsOKNext

-----------------------------------------------------------------------------
(* One lemma for every step: it keeps the inductive invariant.              *)

LEMMA StartDeployStep ==
  ASSUME TransitionInv, TypeOK', NEW f \in SUBSET Hosts, StartDeploy(f)
  PROVE  TransitionInv'
<1> USE DEF TransitionInv, InBody, Retiring
<1>1. RecordedHostServes' /\ ClosedHostIsClean'
  BY DEF StartDeploy, RecordedHostServes, ClosedHostIsClean, Serving, Answers, remote, durable
<1>2. GenInv' /\ \A h \in Hosts : Fresh(h)'
  <2>1. n \in Nat
    BY PortsAssumed DEF TypeOK, Deploys
  <2>2. \A h \in Hosts : \A c \in box[h] : c.gen \in Nat
    BY DEF TypeOK, Containers
  <2> QED BY <2>1, <2>2 DEF StartDeploy, GenInv, Fresh, remote
<1>3. comps' = <<>>
  BY DEF StartDeploy, StackInv
<1>4. BodyInv' /\ CurInv' /\ StackInv' /\ RetireInv'
  BY <1>2, <1>3, EmptyStack DEF StartDeploy, BodyInv, CurInv, RetireInv
<1> QED BY <1>1, <1>2, <1>4

LEMMA PrepareStep ==
  ASSUME TransitionInv, TypeOK', Prepare
  PROVE  TransitionInv'
<1> USE DEF TransitionInv, InBody, Retiring
<1>1. \A h \in Hosts : Same(h)
  BY DEF Prepare, Same, remote, durable, captured, flags
<1>2. RecordedHostServes' /\ ClosedHostIsClean' /\ GenInv'
  BY <1>1, HostsOK, HostsOKNext, HostOKFrame
<1>3. BodyInv'
  BY <1>1, HostFrame DEF Prepare, BodyInv, TypeOK, flags
<1>4. comps' = <<>>
  BY DEF Prepare, StackInv
<1>5. CurInv' /\ StackInv' /\ RetireInv'
  BY <1>4, EmptyStack DEF Prepare, CurInv, RetireInv
<1> QED BY <1>2, <1>3, <1>5

LEMMA BeginHostStep ==
  ASSUME TransitionInv, TypeOK', NEW h \in Hosts, BeginHost(h)
  PROVE  TransitionInv'
<1> USE DEF TransitionInv, InBody, Retiring
<1>1. UNCHANGED <<box, route, target, trans, n, todo, fleet, switched, restored>>
  BY DEF BeginHost, remote, durable, flags
<1>2. RecordedHostServes' /\ ClosedHostIsClean' /\ GenInv'
  BY <1>1 DEF RecordedHostServes, ClosedHostIsClean, GenInv, Serving, Answers
<1>3. ASSUME NEW g \in Hosts, g # h \/ captured' = captured PROVE Same(g)
  BY <1>1, <1>3 DEF BeginHost, Same, captured, TypeOK
<1>4. pc = "roll" /\ h \in todo /\ cur' = h /\ Fresh(h) /\ ~restored[h]
  BY DEF BeginHost, BodyInv
<1>5. \A c \in Comps : Stacked(c) => c.host \notin todo
  BY <1>4 DEF StackInv, Undoable
<1>6. ASSUME NEW c \in Comps, Stacked(c), pc' \in {"unwind", "journal"} PROVE Undoable(c)'
  <2>1. Undoable(c) /\ c.host \notin todo /\ c.host \in Hosts
    BY <1>5, <1>6 DEF StackInv, Comps
  <2>2. Same(c.host)
    BY <1>3, <1>4, <2>1
  <2> QED BY <1>1, <1>6, <2>1, <2>2, UndoableFrame
<1>7. CASE Throw /\ UNCHANGED <<captured, comps>>
  BY <1>2, <1>6, <1>7, HostsOKNext, ThrowStep DEF Throw
<1>8. CASE /\ pc' = "journal" /\ trans[h] = None /\ oldTarget'[h] = OldTargetOf(h)
            /\ comps' = OnRollback("remove", h)
  <2>1. HostOK(h)
    BY HostsOK
  <2>2. OldKept(h)' /\ OnlyNew(h)' /\ (target[h] # None => route[h] = target[h])
    BY <1>1, <1>8, <2>1 DEF HostOK, OldKept, Kept, OnlyNew, OldTargetOf, Serving, Answers
  <2>3. ASSUME NEW g \in Hosts, g # h PROVE (Fresh(g) => Fresh(g)') /\ (Rolled(g) => Rolled(g)')
    BY <1>3, <2>3, HostFrame
  <2>4. BodyInv'
    BY <1>1, <1>4, <1>8, <2>3 DEF BodyInv, TypeOK
  <2>5. CurInv'
    BY <1>1, <1>4, <1>8, <2>2 DEF CurInv, Fresh
  <2>6. StackInv'
    <3>1. RestoreFirst' /\ \A c \in Comps : Stacked(c)' => Stacked(c) \/ c = [kind |-> "remove", host |-> h]
      BY <1>4, <1>5, <1>8, Pushed DEF StackInv
    <3>2. ASSUME NEW c \in Comps, Stacked(c)' PROVE Undoable(c)'
      <4>1. CASE c = [kind |-> "remove", host |-> h]
        BY <1>1, <1>8, <1>4, <2>2, <4>1 DEF Undoable
      <4> QED BY <1>6, <1>8, <3>1, <3>2, <4>1
    <3> QED BY <1>8, <3>1, <3>2 DEF StackInv
  <2>7. RetireInv'
    BY <1>8 DEF RetireInv
  <2> QED BY <1>2, <2>4, <2>5, <2>6, <2>7
<1> QED BY <1>7, <1>8, <1>3 DEF BeginHost, TypeOK

LEMMA WriteJournalStep ==
  ASSUME TransitionInv, TypeOK', WriteJournal
  PROVE  TransitionInv'
<1> USE DEF TransitionInv, InBody, Retiring, Rolling, Throw
<1>1. \A h \in Hosts : h # cur => Same(h)
  BY DEF WriteJournal, Journalled, Same, remote, captured, flags, TypeOK
<1>2. trans'[cur] # None \/ trans' = trans
  BY NoneAssumed, PortsAssumed DEF WriteJournal, Journalled, TypeOK, Deploys
<1>3. UNCHANGED <<n, box, route, target, cur, fleet, todo, restored, comps, oldTarget, switched>>
  BY DEF WriteJournal, remote, captured, flags
<1>4. ASSUME NEW h \in Hosts, h = cur PROVE HostOK(h)'
  BY <1>2, <1>3, <1>4, HostsOK DEF HostOK, Serving, Answers
<1>5. CurInv'
  <2>1. OldKept(cur) = OldKept(cur)' /\ OnlyNew(cur) = OnlyNew(cur)'
    BY <1>3 DEF OldKept, Kept, OnlyNew
  <2>2. pc' = "run" => trans'[cur] # None
    BY NoneAssumed, PortsAssumed DEF WriteJournal, Journalled, TypeOK, Deploys
  <2> QED BY <1>3, <2>1, <2>2 DEF WriteJournal, CurInv
<1>6. ASSUME NEW c \in Comps, Stacked(c)', c.host = cur PROVE Undoable(c)'
  BY <1>2, <1>3, <1>6 DEF WriteJournal, StackInv, Stacked, Undoable, OldKept, Kept, OnlyNew
<1>7. RestoreFirst' /\ \A c \in Comps : Stacked(c)' => Stacked(c)
  BY <1>3 DEF StackInv, RestoreFirst, Stacked
<1> QED BY <1>1, <1>3, <1>4, <1>5, <1>6, <1>7, CurStep DEF WriteJournal

LEMMA RunContainerStep ==
  ASSUME TransitionInv, TypeOK', RunContainer
  PROVE  TransitionInv'
<1> USE DEF TransitionInv, InBody, Retiring, Rolling, Throw
<1>1. \A h \in Hosts : h # cur => Same(h)
  BY DEF RunContainer, AddCtr, Same, durable, captured, flags, TypeOK
<1>2. UNCHANGED <<n, route, target, trans, cur, fleet, todo, restored, comps, oldTarget,
                  newPort, switched>>
  BY DEF RunContainer, durable, captured, flags
<1>3. \/ pc' = "unwind" /\ box' = box
      \/ \E up, well \in BOOLEAN :
           /\ box'[cur] = box[cur] \cup {Started(up, well)}
           /\ pc' = "unwind" \/ (pc' = "health" /\ up = TRUE)
  BY DEF RunContainer, AddCtr, TypeOK
<1>4. \A c \in box'[cur] : c \in box[cur] \/
        /\ c.gen = n /\ c.name = "own" /\ c.port = newPort[cur]
        /\ pc' = "health" => c.up
  BY <1>3 DEF Started
<1>5. box[cur] \subseteq box'[cur]
  BY <1>3
<1>6. ASSUME NEW h \in Hosts, h = cur PROVE HostOK(h)'
  <2>1. HostOK(h) /\ trans[h] # None /\ n \in Nat
    BY <1>6, HostsOK, PortsAssumed DEF RunContainer, CurInv, TypeOK, Deploys
  <2> QED BY <1>2, <1>4, <1>5, <1>6, <2>1 DEF HostOK, Serving, Answers
<1>7. OldKept(cur)' /\ OnlyNew(cur)'
  BY <1>2, <1>4, <1>5 DEF RunContainer, CurInv, OldKept, OnlyNew, Kept
<1>8. pc' = "health" => \A c \in box'[cur] :
        c.gen = n /\ c.name = "own" => c.up /\ c.port = newPort[cur]
  BY <1>4 DEF RunContainer, CurInv
<1>9. CurInv'
  BY <1>2, <1>3, <1>7, <1>8 DEF RunContainer, CurInv, NewCtr
<1>10. ASSUME NEW c \in Comps, Stacked(c)', c.host = cur PROVE Undoable(c)'
  BY <1>2, <1>3, <1>7, <1>10 DEF RunContainer, StackInv, Stacked, Undoable
<1>11. RestoreFirst' /\ \A c \in Comps : Stacked(c)' => Stacked(c)
  BY <1>2 DEF StackInv, RestoreFirst, Stacked
<1> QED BY <1>1, <1>2, <1>3, <1>6, <1>9, <1>10, <1>11, CurStep DEF RunContainer

LEMMA HealthGateStep ==
  ASSUME TransitionInv, TypeOK', HealthGate
  PROVE  TransitionInv'
<1> USE DEF TransitionInv, InBody, Retiring, Rolling, Throw
<1>1. UNCHANGED <<n, box, route, target, trans, cur, fleet, todo, restored, oldTarget,
                  newPort, switched>>
  BY DEF HealthGate, remote, durable, captured, flags
<1>2. \A h \in Hosts : Same(h) /\ HostOK(h)'
  BY <1>1, HostsOK, HostOKFrame DEF Same
<1>3. OldKept(cur)' = OldKept(cur) /\ OnlyNew(cur)' = OnlyNew(cur)
  BY <1>1 DEF OldKept, Kept, OnlyNew
<1>4. CurInv'
  <2>1. pc' = "switch" => NewServes(cur)'
    BY <1>1 DEF HealthGate, CurInv, NewServes, NewCtr
  <2> QED BY <1>1, <1>3, <2>1 DEF HealthGate, CurInv
<1>5. /\ RestoreFirst'
      /\ \A c \in Comps : Stacked(c)' => Stacked(c) \/
           (pc' = "switch" /\ c = [kind |-> "restore", host |-> cur])
  <2>1. CASE comps' = comps
    BY <2>1 DEF StackInv, RestoreFirst, Stacked
  <2>2. CASE comps' = OnRollback("restore", cur) /\ pc' = "switch"
    BY <2>2, Pushed DEF StackInv, TypeOK
  <2> QED BY <2>1, <2>2 DEF HealthGate
<1>6. ASSUME NEW c \in Comps, Stacked(c)', c.host = cur PROVE Undoable(c)'
  <2>1. CASE Stacked(c)
    BY <1>1, <1>3, <1>6, <2>1 DEF HealthGate, StackInv, Undoable
  <2>2. CASE pc' = "switch" /\ c = [kind |-> "restore", host |-> cur]
    BY <1>1, <1>3, <2>2 DEF HealthGate, CurInv, Undoable
  <2> QED BY <1>5, <1>6, <2>1, <2>2
<1> QED BY <1>1, <1>2, <1>4, <1>5, <1>6, CurStep DEF HealthGate

LEMMA SwitchProxyStep ==
  ASSUME TransitionInv, TypeOK', SwitchProxy
  PROVE  TransitionInv'
<1> USE DEF TransitionInv, InBody, Retiring, Rolling, Throw, SwitchFailed
<1>1. \A h \in Hosts : h # cur => Same(h)
  BY DEF SwitchProxy, RouteTo, Same, durable, captured, TypeOK
<1>2. UNCHANGED <<n, box, target, trans, cur, fleet, restored, comps, oldTarget, newPort>>
  BY DEF SwitchProxy, durable, captured
<1>3. switched'[cur] = TRUE /\ restored[cur] = FALSE
  BY DEF SwitchProxy, TypeOK, BodyInv
<1>4. route'[cur] = newPort[cur] \/ (route' = route /\ pc' = "unwind")
  BY DEF SwitchProxy, RouteTo, TypeOK
<1>5. /\ NewServes(cur) /\ OldKept(cur) /\ OnlyNew(cur) /\ trans[cur] # None
  BY DEF SwitchProxy, CurInv
<1>6. /\ NewServes(cur)' /\ OldKept(cur)' /\ OnlyNew(cur)'
  BY <1>2, <1>5 DEF NewServes, NewCtr, OldKept, OnlyNew, Kept
<1>7. ASSUME NEW h \in Hosts, h = cur PROVE HostOK(h)'
  BY <1>2, <1>4, <1>5, <1>7, HostsOK DEF HostOK, Serving, Answers, NewServes, NewCtr
<1>8. CurInv'
  BY DEF SwitchProxy, CurInv
<1>9. ASSUME NEW c \in Comps, Stacked(c)', c.host = cur PROVE Undoable(c)'
  BY <1>2, <1>3, <1>5, <1>6, <1>9 DEF SwitchProxy, StackInv, Stacked, Undoable
<1>10. RestoreFirst' /\ \A c \in Comps : Stacked(c)' => Stacked(c)
  BY <1>2 DEF StackInv, RestoreFirst, Stacked
<1>11. pc' = "roll" => \A h \in Hosts : h = cur => Rolled(h)'
  BY <1>2, <1>4, <1>5, <1>6 DEF Rolled
<1> QED BY <1>1, <1>2, <1>7, <1>8, <1>9, <1>10, <1>11, CurStep DEF SwitchProxy

LEMMA CommitTransactionStep ==
  ASSUME TransitionInv, TypeOK', CommitTransaction
  PROVE  TransitionInv'
<1> USE DEF TransitionInv, InBody, Retiring
<1>1. \A h \in Hosts : Same(h)
  BY DEF CommitTransaction, Same, remote, durable, captured, flags
<1>2. BodyInv'
  BY <1>1, HostFrame DEF CommitTransaction, BodyInv, TypeOK
<1>3. CurInv' /\ StackInv' /\ RetireInv'
  BY EmptyStack DEF CommitTransaction, CurInv, RetireInv
<1> QED BY <1>1, <1>2, <1>3, HostsOK, HostOKFrame, HostsOKNext

\* Popping the top of the stack uncovers nothing new.
LEMMA Popped ==
  ASSUME TypeOK, comps # <<>>, PopComp, RestoreFirst
  PROVE  /\ Top \in Comps /\ Stacked(Top) /\ RestoreFirst'
         /\ \A c \in Comps : Stacked(c)' => Stacked(c)
         /\ Top.kind = "remove" => \A c \in Comps :
              Stacked(c)' /\ c.kind = "restore" => c.host # Top.host
<1>1. /\ Len(comps') = Len(comps) - 1 /\ Len(comps) \in 1..Len(comps)
      /\ \A k \in 1..Len(comps') : k \in 1..Len(comps) /\ comps'[k] = comps[k]
      /\ Top \in Comps
  BY StackPop DEF TypeOK, Comps
<1>2. Stacked(Top) /\ RestoreFirst' /\ \A c \in Comps : Stacked(c)' => Stacked(c)
  BY <1>1 DEF Stacked, Top, RestoreFirst
<1>3. ASSUME Top.kind = "remove", NEW c \in Comps, Stacked(c)', c.kind = "restore",
             c.host = Top.host
      PROVE  FALSE
  <2>1. PICK j \in 1..Len(comps') : comps'[j] = c
    BY <1>3 DEF Stacked
  <2>2. j \in 1..Len(comps) /\ comps[j] = c /\ j < Len(comps)
    BY <1>1, <2>1
  <2> QED BY <1>1, <1>3, <2>2, SMTT(30) DEF Top, RestoreFirst
<1> QED BY <1>1, <1>2, <1>3

LEMMA RestoreStep ==
  ASSUME TransitionInv, TypeOK', Restore
  PROVE  TransitionInv'
<1> USE DEF TransitionInv, InBody, Retiring
<1>1. UNCHANGED <<n, box, target, trans, oldTarget, newPort, switched>> /\ pc' = "unwind"
  BY DEF Restore, durable, captured
<1>2. /\ Top \in Comps /\ Stacked(Top) /\ RestoreFirst'
      /\ \A c \in Comps : Stacked(c)' => Stacked(c)
  BY Popped DEF Restore, StackInv
<1>3. PICK h \in Hosts : h = Top.host
  BY <1>2 DEF Comps
<1>4. OldKept(h)
  BY <1>2, <1>3 DEF StackInv, Undoable
<1>5. /\ route' = route \/ route' = [route EXCEPT ![h] = oldTarget[h]]
      /\ restored' = restored \/ (restored' = [restored EXCEPT ![h] = TRUE]
                                   /\ route' = [route EXCEPT ![h] = oldTarget[h]])
  BY <1>3 DEF Restore, RouteTo
<1>6. trans[h] # None /\ trans'[h] # None
  BY <1>1, <1>2, <1>3 DEF Restore, StackInv, Undoable
<1>7. \A g \in Hosts : g # h => Same(g)
  BY <1>1, <1>5 DEF Same, TypeOK
<1>8. HostOK(h)'
  BY <1>1, <1>4, <1>5, <1>6, HostsOK DEF HostOK, Serving, Answers, OldKept, Kept, TypeOK
<1>9. OldKept(h)' /\ (OnlyNew(h) => OnlyNew(h)')
  BY <1>1, <1>4 DEF OldKept, Kept, OnlyNew
<1>10. target[h] # None /\ (~switched[h] \/ restored'[h]) /\
         (~switched[h] \/ restored[h] => route[h] = target[h]) => route'[h] = target[h]
  BY <1>4, <1>5 DEF OldKept, TypeOK
<1>11. ASSUME NEW c \in Comps, Stacked(c)' PROVE Undoable(c)'
  <2>1. Undoable(c) /\ c.host \in Hosts
    BY <1>2, <1>11 DEF StackInv, Comps
  <2>2. CASE c.host = h
    BY <1>1, <1>6, <1>9, <1>10, <2>1, <2>2 DEF Undoable
  <2>3. CASE c.host # h
    BY <1>1, <1>7, <2>1, <2>3, UndoableFrame
  <2> QED BY <2>2, <2>3
<1>12. CurInv' /\ StackInv'
  BY <1>1, <1>2, <1>11 DEF CurInv, StackInv
<1> QED BY <1>1, <1>7, <1>8, <1>12, HostsOK, HostOKFrame, Unwinding

LEMMA SkipRemoveStep ==
  ASSUME TransitionInv, TypeOK', SkipRemove
  PROVE  TransitionInv'
<1> USE DEF TransitionInv, InBody, Retiring
<1>1. \A h \in Hosts : Same(h)
  BY DEF SkipRemove, Same, remote, durable, captured, flags
<1>2. RestoreFirst' /\ \A c \in Comps : Stacked(c)' => Stacked(c)
  BY Popped DEF SkipRemove, StackInv
<1>3. ASSUME NEW c \in Comps, Stacked(c)' PROVE Undoable(c)'
  BY <1>1, <1>2, <1>3, UndoableFrame DEF SkipRemove, StackInv, Comps
<1>4. CurInv' /\ StackInv'
  BY <1>2, <1>3 DEF SkipRemove, CurInv, StackInv
<1> QED BY <1>1, <1>4, HostsOK, HostOKFrame, Unwinding DEF SkipRemove

LEMMA RemoveNewStep ==
  ASSUME TransitionInv, TypeOK', RemoveNew
  PROVE  TransitionInv'
<1> USE DEF TransitionInv, InBody, Retiring
<1>1. /\ UNCHANGED <<n, route, target, trans, oldTarget, newPort, switched, restored>>
      /\ pc' = "unwind" \/ pc' = "clear"
  BY DEF RemoveNew, durable, captured, flags
<1>2. /\ Top \in Comps /\ Stacked(Top) /\ RestoreFirst'
      /\ \A c \in Comps : Stacked(c)' => Stacked(c)
      /\ \A c \in Comps : Stacked(c)' /\ c.kind = "restore" => c.host # Top.host
  BY Popped DEF RemoveNew, StackInv
<1>3. PICK h \in Hosts : h = Top.host
  BY <1>2 DEF Comps
<1>4. /\ OldKept(h) /\ OnlyNew(h)
      /\ target[h] # None => route[h] = target[h]
  BY <1>2, <1>3 DEF RemoveNew, RestoreMissed, StackInv, Undoable
<1>5. box' = box \/ box' = [box EXCEPT ![h] = box[h] \ NewCtr(h)]
  BY <1>3 DEF RemoveNew, DropNew
<1>6. pc' = "clear" => cur' = h /\ box'[h] = box[h] \ NewCtr(h)
  BY <1>3 DEF RemoveNew, DropNew, TypeOK
<1>7. \A g \in Hosts : g # h => Same(g)
  BY <1>1, <1>5 DEF Same, TypeOK
<1>8. OldKept(h)' /\ OnlyNew(h)'
  <2>1. box'[h] \subseteq box[h] /\ \A c \in box[h] : c.name = "web" => c \in box'[h]
    BY <1>5 DEF NewCtr, TypeOK
  <2> QED BY <1>1, <1>4, <2>1 DEF OldKept, Kept, OnlyNew
<1>9. HostOK(h)'
  <2>1. target[h] # None => Serving(h)'
    BY <1>1, <1>4, <1>8 DEF OldKept, Kept, Serving, Answers
  <2>2. box'[h] \subseteq box[h]
    BY <1>5 DEF TypeOK
  <2> QED BY <1>1, <1>4, <2>1, <2>2, HostsOK DEF HostOK
<1>10. ASSUME NEW c \in Comps, Stacked(c)' PROVE Undoable(c)'
  <2>1. Undoable(c) /\ c.host \in Hosts /\ (c.kind = "restore" => c.host # h)
    BY <1>2, <1>3, <1>10 DEF StackInv, Comps
  <2>2. CASE c.host = h
    BY <1>1, <1>4, <1>8, <2>1, <2>2 DEF Undoable
  <2>3. CASE c.host # h
    BY <1>1, <1>6, <1>7, <2>1, <2>3, UndoableFrame
  <2> QED BY <2>2, <2>3
<1>11. CurInv'
  BY <1>1, <1>4, <1>6 DEF CurInv, OnlyNew, NewCtr
<1>12. StackInv'
  BY <1>1, <1>2, <1>10 DEF StackInv
<1> QED BY <1>1, <1>7, <1>9, <1>11, <1>12, HostsOK, HostOKFrame, Unwinding

LEMMA ClearJournalStep ==
  ASSUME TransitionInv, TypeOK', ClearJournal
  PROVE  TransitionInv'
<1> USE DEF TransitionInv, InBody, Retiring
<1>1. /\ UNCHANGED <<n, box, route, target, comps, oldTarget, newPort, switched, restored>>
      /\ pc = "clear" /\ pc' = "unwind" /\ cur \in Hosts
      /\ trans' = [trans EXCEPT ![cur] = None] \/ trans' = trans
  BY DEF ClearJournal, remote, captured, flags, TypeOK
<1>2. \A g \in Hosts : g # cur => Same(g)
  BY <1>1 DEF Same, TypeOK
<1>3. ASSUME NEW h \in Hosts, h = cur PROVE HostOK(h)'
  BY <1>1, <1>3, HostsOK DEF HostOK, CurInv, Serving, Answers
<1>4. ASSUME NEW c \in Comps, Stacked(c)' PROVE Undoable(c)'
  <2>1. Undoable(c) /\ c.host \in Hosts
    BY <1>1, <1>4 DEF StackInv, Stacked, Comps
  <2>2. CASE c.host = cur
    BY <1>1, <2>1, <2>2 DEF Undoable, OldKept, Kept, OnlyNew
  <2>3. CASE c.host # cur
    BY <1>1, <1>2, <2>1, <2>3, UndoableFrame
  <2> QED BY <2>2, <2>3
<1>5. CurInv' /\ StackInv'
  BY <1>1, <1>4 DEF CurInv, StackInv, RestoreFirst
<1> QED BY <1>1, <1>2, <1>3, <1>5, HostsOK, HostOKFrame, Unwinding

LEMMA RecordReleaseStep ==
  ASSUME TransitionInv, TypeOK', RecordRelease
  PROVE  TransitionInv'
<1> USE DEF TransitionInv, InBody, Retiring
<1>1. /\ UNCHANGED <<n, box, route, trans, fleet, comps, newPort>>
      /\ pc = "record" /\ comps = <<>> /\ comps' = <<>>
  BY DEF RecordRelease, remote, captured, StackInv
<1>2. CASE pc' = "idle" /\ target' = target
  BY <1>1, <1>2, LeaveDeploy
<1>3. CASE /\ target' = [h \in Hosts |-> IF h \in fleet THEN newPort[h] ELSE target[h]]
           /\ todo' = fleet /\ pc' = "clean"
  <2>1. \A h \in fleet : h \in Hosts /\ Rolled(h)
    BY <1>1 DEF BodyInv, TypeOK
  <2>2. ASSUME NEW h \in Hosts PROVE HostOK(h)'
    <3>1. CASE h \in fleet
      BY <1>1, <1>3, <2>1, <3>1, HostsOK
      DEF HostOK, Rolled, NewServes, NewCtr, Serving, Answers
    <3>2. CASE h \notin fleet
      BY <1>1, <1>3, <3>2, HostsOK DEF HostOK, Serving, Answers
    <3> QED BY <3>1, <3>2
  <2>3. ASSUME NEW h \in fleet PROVE Recorded(h)' /\ Unpromoted(h)'
    BY <1>1, <1>3, <2>1, <2>3
    DEF Rolled, Recorded, Unpromoted, NewServes, NewCtr, OnlyNew
  <2>4. RetireInv'
    BY <1>1, <1>3, <2>3 DEF RetireInv
  <2>5. BodyInv' /\ CurInv' /\ StackInv'
    BY <1>1, <1>3, EmptyStack DEF BodyInv, CurInv
  <2> QED BY <2>2, <2>4, <2>5, HostsOKNext
<1> QED BY <1>2, <1>3 DEF RecordRelease

\* A retirement step of host h: it is left to look at that host.
LEMMA RetireStep ==
  ASSUME TransitionInv, TypeOK', NEW h \in Hosts, Retiring, Retiring',
         UNCHANGED <<newPort, comps>>, todo' \subseteq todo,
         \A g \in Hosts : g # h => Same(g),
         HostOK(h)',
         \A g \in todo : g # h => Unpromoted(g),
         h \in todo' => Recorded(h)' /\ ((h = cur' /\ pc' \in {"retire", "settle"}) \/ Unpromoted(h)'),
         pc' \in {"promote", "retire", "settle"} => cur' \in todo',
         pc' = "retire" => Named(cur, "own")' = {},
         pc' = "settle" => \A c \in box'[cur'] : c.name = "web",
         pc' \in {"retire", "settle"} => Kept(cur, newPort[cur], "web")'
  PROVE  TransitionInv'
<1>1. \A g \in Hosts : HostOK(g)'
  BY HostsOK, HostOKFrame DEF TransitionInv
<1>2. comps' = <<>>
  BY DEF TransitionInv, StackInv, InBody, Retiring
<1>3. BodyInv' /\ CurInv' /\ StackInv'
  BY <1>2, EmptyStack DEF BodyInv, CurInv, InBody, Retiring
<1>4. ASSUME NEW g \in todo', g # h PROVE Recorded(g)' /\ Unpromoted(g)'
  <2>1. Same(g) /\ Recorded(g) /\ Unpromoted(g)
    BY <1>4 DEF TransitionInv, TypeOK, RetireInv
  <2> QED BY <2>1 DEF Same, Recorded, Unpromoted, NewServes, NewCtr
<1>5. RetireInv'
  BY <1>4 DEF RetireInv
<1> QED BY <1>1, <1>3, <1>5, HostsOKNext DEF TransitionInv

LEMMA RenameOldStep ==
  ASSUME TransitionInv, TypeOK', NEW h \in Hosts, RenameOld(h)
  PROVE  TransitionInv'
<1> USE DEF TransitionInv, Retiring
<1>1. /\ UNCHANGED <<n, route, target, trans, comps, oldTarget, newPort, switched, restored>>
      /\ pc = "clean" /\ h \in todo /\ cur' = h
      /\ \/ pc' = "clean" /\ todo' = todo \ {h}
         \/ pc' = "promote" /\ todo' = todo
  BY DEF RenameOld, durable, captured, flags
<1>2. box' = box \/ Rename(h, Named(h, "web"), "old")
  BY DEF RenameOld
<1>3. \A g \in Hosts : g # h => Same(g)
  BY <1>1, <1>2 DEF Same, Rename, TypeOK
<1>4. /\ \A c \in box[h] : c.name = "own" => c \in box'[h]
      /\ \A c \in box'[h] : c \in box[h] \/ (c.name = "old" /\ \E d \in box[h] : c.gen = d.gen)
  <2>1. CASE Rename(h, Named(h, "web"), "old")
    <3>1. box'[h] = (box[h] \ Named(h, "web")) \cup {[c EXCEPT !.name = "old"] : c \in Named(h, "web")}
      BY <2>1 DEF Rename, TypeOK
    <3>2. \A c \in box[h] : LET d == [c EXCEPT !.name = "old"] IN d.name = "old" /\ d.gen = c.gen
      BY DEF TypeOK, Containers
    <3> QED BY <3>1, <3>2 DEF Named
  <2> QED BY <1>2, <2>1
<1>5. Recorded(h) /\ Unpromoted(h) /\ \A g \in todo : Unpromoted(g)
  BY <1>1 DEF RetireInv
<1>6. Recorded(h)' /\ Unpromoted(h)'
  BY <1>1, <1>4, <1>5 DEF Recorded, Unpromoted, NewServes, NewCtr
<1>7. HostOK(h)'
  BY <1>1, <1>4, <1>6, HostsOK DEF HostOK, Recorded, Unpromoted, NewServes, NewCtr, Serving, Answers
<1> QED BY <1>1, <1>3, <1>5, <1>6, <1>7, RetireStep

LEMMA PromoteStep ==
  ASSUME TransitionInv, TypeOK', Promote
  PROVE  TransitionInv'
<1> USE DEF TransitionInv, Retiring
<1>1. /\ UNCHANGED <<n, route, target, trans, comps, oldTarget, newPort, switched, restored, cur>>
      /\ pc = "promote"
      /\ \/ pc' = "clean" /\ todo' = todo \ {cur}
         \/ pc' = "retire" /\ todo' = todo /\ Rename(cur, NewCtr(cur), "web")
  BY DEF Promote, NextHost, durable, captured, flags
<1>2. PICK h \in Hosts : h = cur
  BY DEF TypeOK
<1>3. h \in todo /\ Recorded(h) /\ Unpromoted(h) /\ \A g \in todo : Unpromoted(g)
  BY <1>1, <1>2 DEF RetireInv
<1>4. box' = box \/ Rename(h, NewCtr(h), "web")
  BY <1>2 DEF Promote
<1>5. \A g \in Hosts : g # h => Same(g)
  BY <1>1, <1>4 DEF Same, Rename, TypeOK
<1>6. CASE Rename(h, NewCtr(h), "web")
  <2>1. box'[h] = (box[h] \ NewCtr(h)) \cup {[c EXCEPT !.name = "web"] : c \in NewCtr(h)}
    BY <1>6 DEF Rename, TypeOK
  <2>2. \A c \in box[h] : LET d == [c EXCEPT !.name = "web"] IN
          d.name = "web" /\ d.gen = c.gen /\ d.up = c.up /\ d.well = c.well /\ d.port = c.port
    BY DEF TypeOK, Containers
  <2>3. Kept(h, newPort[h], "web")'
    <3>1. PICK c \in NewCtr(h) : c.up /\ c.well /\ c.port = newPort[h]
      BY <1>3 DEF Unpromoted, NewServes
    <3>2. [c EXCEPT !.name = "web"] \in box'[h] /\ c \in box[h]
      BY <2>1 DEF NewCtr
    <3> QED BY <1>1, <2>2, <3>1, <3>2 DEF Kept
  <2>4. \A c \in box'[h] : c.name # "own" /\ c.gen <= n
    <3>1. \A c \in box[h] : c.gen <= n /\ (c.name = "own" => c \in NewCtr(h))
      BY <1>3, HostsOK DEF NewCtr, Unpromoted, HostOK
    <3>2. NewCtr(h) \subseteq box[h]
      BY DEF NewCtr
    <3> SUFFICES ASSUME NEW c \in box'[h] PROVE c.name # "own" /\ c.gen <= n
      OBVIOUS
    <3>3. CASE c \in box[h] \ NewCtr(h)
      BY <3>1, <3>3
    <3>4. ASSUME NEW d \in NewCtr(h), c = [d EXCEPT !.name = "web"] PROVE c.name # "own" /\ c.gen <= n
      <4>1. d \in box[h] /\ d.gen <= n
        BY <3>1, <3>2
      <4> QED BY <2>2, <3>4, <4>1
    <3> HIDE DEF TransitionInv
    <3> QED BY <2>1, <3>3, <3>4
  <2>5. HostOK(h)' /\ Recorded(h)'
    BY <1>1, <1>3, <2>3, <2>4 DEF HostOK, Recorded, Kept, Serving, Answers
  <2>6. Named(h, "own")' = {}
    BY <2>4 DEF Named
  <2> QED BY <1>1, <1>2, <1>3, <1>5, <2>3, <2>5, <2>6, RetireStep
<1>7. CASE box' = box /\ pc' = "clean"
  <2>1. HostOK(h)'
    BY <1>1, <1>7, HostsOK DEF HostOK, Serving, Answers
  <2> QED BY <1>1, <1>2, <1>3, <1>5, <1>7, <2>1, RetireStep
<1> QED BY <1>2, <1>6, <1>7 DEF Promote, NextHost

LEMMA RetireOldStep ==
  ASSUME TransitionInv, TypeOK', RetireOld
  PROVE  TransitionInv'
<1> USE DEF TransitionInv, Retiring
<1>1. /\ UNCHANGED <<n, route, target, trans, comps, oldTarget, newPort, switched, restored, cur>>
      /\ pc = "retire"
      /\ \/ pc' = "clean" /\ todo' = todo \ {cur}
         \/ pc' = "settle" /\ todo' = todo /\ box' = [box EXCEPT ![cur] = @ \ Named(cur, "old")]
  BY DEF RetireOld, RetireFailed, NextHost, durable, captured, flags
<1>2. PICK h \in Hosts : h = cur
  BY DEF TypeOK
<1>3. /\ h \in todo /\ Recorded(h) /\ Kept(h, newPort[h], "web")
      /\ Named(h, "own") = {} /\ \A g \in todo : g # h => Unpromoted(g)
  BY <1>1, <1>2 DEF RetireInv
<1>4. \A g \in Hosts : g # h => Same(g)
  BY <1>1, <1>2 DEF Same, RetireOld, StopOld, TypeOK
<1>5. /\ \A c \in box[h] : c.name = "web" => c \in box'[h]
      /\ \A c \in box'[h] : \E d \in box[h] : c.gen = d.gen
      /\ pc' = "settle" => \A c \in box'[h] : c.name = "web"
  <2>1. \A c \in box[h] : c.name \in {"web", "old", "own"} /\ [c EXCEPT !.up = FALSE].gen = c.gen
    BY DEF TypeOK, Containers
  <2>2. CASE box' = [box EXCEPT ![h] = @ \ Named(h, "old")]
    <3>1. box'[h] = box[h] \ Named(h, "old")
      BY <2>2 DEF TypeOK
    <3> QED BY <1>3, <2>1, <3>1 DEF Named
  <2>3. CASE box' = box /\ pc' = "clean"
    BY <2>3
  <2>4. CASE StopOld /\ pc' = "clean"
    <3>1. box'[h] = (box[h] \ Named(h, "old")) \cup {[c EXCEPT !.up = FALSE] : c \in Named(h, "old")}
      BY <1>2, <2>4 DEF StopOld, TypeOK
    <3> QED BY <2>1, <2>4, <3>1 DEF Named
  <2> QED BY <1>2, <2>2, <2>3, <2>4 DEF RetireOld, RetireFailed, NextHost
<1>6. Kept(h, newPort[h], "web")' /\ Recorded(h)'
  BY <1>1, <1>3, <1>5 DEF Kept, Recorded
<1>7. HostOK(h)'
  BY <1>1, <1>3, <1>5, <1>6, HostsOK DEF HostOK, Recorded, Kept, Serving, Answers
<1> QED BY <1>1, <1>2, <1>3, <1>4, <1>5, <1>6, <1>7, RetireStep

LEMMA SettleStep ==
  ASSUME TransitionInv, TypeOK', Settle
  PROVE  TransitionInv'
<1> USE DEF TransitionInv, Retiring
<1>1. /\ UNCHANGED <<n, box, route, target, comps, oldTarget, newPort, switched, restored, cur>>
      /\ pc = "settle" /\ comps = <<>>
  BY DEF Settle, remote, captured, flags, StackInv, InBody
<1>2. CASE pc' = "idle" /\ trans' = trans
  BY <1>1, <1>2, LeaveDeploy
<1>3. CASE trans' = [trans EXCEPT ![cur] = None] /\ NextHost
  <2>1. PICK h \in Hosts : h = cur
    BY DEF TypeOK
  <2>2. /\ Recorded(h) /\ \A c \in box[h] : c.name = "web"
        /\ \A g \in todo : g # h => Unpromoted(g)
    BY <1>1, <2>1 DEF RetireInv
  <2>3. \A g \in Hosts : g # h => Same(g)
    BY <1>1, <1>3, <2>1 DEF Same, TypeOK
  <2>4. HostOK(h)'
    BY <1>1, <2>2, HostsOK DEF HostOK, Recorded, Serving, Answers
  <2> QED BY <1>1, <1>3, <2>1, <2>2, <2>3, <2>4, RetireStep DEF NextHost
<1> QED BY <1>2, <1>3 DEF Settle

LEMMA InterruptStep ==
  ASSUME TransitionInv, TypeOK', Interrupt
  PROVE  TransitionInv'
<1> USE DEF TransitionInv, InBody, Retiring
<1>1. \A h \in Hosts : Same(h)
  BY DEF Interrupt, Same, remote, durable, captured, flags
<1>2. \A h \in Hosts : HostOK(h)'
  BY <1>1, HostsOK, HostOKFrame
<1>3. CASE pc' = "idle" /\ comps = <<>> /\ comps' = comps
  BY <1>3, LeaveDeploy DEF Interrupt, remote, durable
<1>4. CASE pc' = "unwind" /\ (comps' = comps \/ (PopComp /\ comps # <<>>))
  <2>1. RestoreFirst' /\ \A c \in Comps : Stacked(c)' => Stacked(c)
    <3>1. CASE comps' = comps
      BY <3>1 DEF StackInv, RestoreFirst, Stacked
    <3>2. CASE PopComp /\ comps # <<>>
      BY <3>2, Popped DEF StackInv
    <3> QED BY <1>4, <3>1, <3>2
  <2>2. ASSUME NEW c \in Comps, Stacked(c)' PROVE Undoable(c)'
    BY <1>1, <1>4, <2>1, <2>2, UndoableFrame DEF StackInv, Comps
  <2>3. CurInv' /\ StackInv'
    BY <1>4, <2>1, <2>2 DEF CurInv, StackInv
  <2> QED BY <1>2, <1>4, <2>3, Unwinding
<1> QED BY <1>3, <1>4 DEF Interrupt, Throw, StackInv

LEMMA ReconcileStep ==
  ASSUME TransitionInv, TypeOK', NEW h \in Hosts, Reconcile(h)
  PROVE  TransitionInv'
<1> USE DEF TransitionInv, InBody, Retiring
<1>1. /\ UNCHANGED <<n, route, comps, oldTarget, newPort, switched, restored>>
      /\ pc = "idle" /\ pc' = "idle" /\ comps = <<>>
  BY DEF Reconcile, captured, flags, StackInv
<1>2. \A g \in Hosts : g # h => Same(g)
  BY <1>1 DEF Same, Reconcile, TypeOK
<1>3. HostOK(h)'
  <2>1. CASE ~Serving(h) /\ box' = [box EXCEPT ![h] = {}] /\ target' = target
    <3>1. box'[h] = {} /\ target[h] = None
      BY <2>1, HostsOK DEF HostOK, TypeOK
    <3> QED BY <2>1, <3>1 DEF HostOK
  <2>2. ASSUME NEW c \in box[h], c.up, c.well, c.port = route[h],
               box' = [box EXCEPT ![h] = {[c EXCEPT !.name = "web"]}],
               target' = [target EXCEPT ![h] = route[h]]
        PROVE  HostOK(h)'
    <3>1. LET d == [c EXCEPT !.name = "web"] IN
            d.up /\ d.well /\ d.port = route[h] /\ d.name = "web" /\ d.gen <= n
      BY <2>2, HostsOK DEF TypeOK, Containers, HostOK
    <3>2. box'[h] = {[c EXCEPT !.name = "web"]} /\ target'[h] = route[h]
      BY <2>2 DEF TypeOK
    <3> QED BY <1>1, <3>1, <3>2 DEF HostOK, Serving, Answers
  <2> QED BY <2>1, <2>2 DEF Reconcile
<1>4. BodyInv' /\ CurInv' /\ RetireInv' /\ StackInv'
  BY <1>1, EmptyStack DEF BodyInv, CurInv, RetireInv
<1> QED BY <1>2, <1>3, <1>4, HostsOK, HostOKFrame, HostsOKNext

\* Every step of the system keeps the inductive invariant.
LEMMA StepTransition == TransitionInv /\ [Next]_vars => TransitionInv'
<1> SUFFICES ASSUME TransitionInv, [Next]_vars PROVE TransitionInv'
  OBVIOUS
<1>1. TypeOK'
  BY StepType DEF TransitionInv
<1>2. CASE Reraise \/ FinishDeploy \/ Die
  <2>1. pc' = "idle" /\ comps' = <<>> /\ UNCHANGED <<box, route, target, trans, n>>
    BY <1>2 DEF Reraise, FinishDeploy, Die, remote, durable, TransitionInv, StackInv, InBody
  <2> QED BY <1>1, <2>1, LeaveDeploy
<1>3. CASE UNCHANGED vars
  <2>1. /\ UNCHANGED <<box, route, target, trans, n, pc, fleet, todo, cur, comps>>
        /\ UNCHANGED <<oldTarget, newPort, switched, restored>>
    BY <1>3 DEF vars, remote, durable, captured, flags
  <2>2. \A h \in Hosts : Same(h)
    BY <2>1 DEF Same
  <2>3. \A h \in Hosts : HostOK(h)'
    BY <2>2, HostsOK, HostOKFrame DEF TransitionInv
  <2>4. BodyInv'
    BY <2>1 DEF TransitionInv, BodyInv, InBody, Fresh, Rolled, NewServes, NewCtr, OldKept,
                Kept, OnlyNew
  <2>5. CurInv'
    BY <2>1 DEF TransitionInv, CurInv, OldKept, Kept, OnlyNew, NewServes, NewCtr
  <2>6. StackInv'
    <3>1. ASSUME NEW c \in Comps, Stacked(c)' PROVE Undoable(c)'
      BY <2>1, <2>2, <3>1, UndoableFrame DEF TransitionInv, StackInv, Stacked, Undoable,
         Comps, InBody
    <3> QED BY <2>1, <3>1 DEF TransitionInv, StackInv, RestoreFirst, InBody
  <2>7. RetireInv'
    BY <2>1 DEF TransitionInv, RetireInv, Retiring, Recorded, Unpromoted, NewServes, NewCtr,
                Named, Kept
  <2> QED BY <1>1, <2>3, <2>4, <2>5, <2>6, <2>7, HostsOKNext DEF TransitionInv
<1>4. CASE \E f \in SUBSET Hosts \ {{}} : StartDeploy(f)
  BY <1>1, <1>4, StartDeployStep
<1>5. CASE \E h \in Hosts : BeginHost(h) \/ RenameOld(h) \/ Reconcile(h)
  BY <1>1, <1>5, BeginHostStep, RenameOldStep, ReconcileStep
<1> QED
  BY <1>1, <1>2, <1>3, <1>4, <1>5, PrepareStep, WriteJournalStep, RunContainerStep,
     HealthGateStep, SwitchProxyStep, CommitTransactionStep, RestoreStep, SkipRemoveStep,
     RemoveNewStep, ClearJournalStep, RecordReleaseStep, PromoteStep, RetireOldStep,
     SettleStep, InterruptStep DEF Next, Script
-----------------------------------------------------------------------------
\* The conjunction of the phase invariants holds in every reachable state.
THEOREM TransitionInvariance == Spec => []TransitionInv
BY InitTransition, StepTransition, PTL DEF Spec

\* Once a release is recorded for a host, its proxy routes to a running, healthy
\* container (deploy.rhai 867-877, 557-620), for every fleet.
THEOREM NoBlackhole == Spec => []RecordedHostServes
<1>1. TransitionInv => RecordedHostServes
  BY DEF TransitionInv
<1> QED BY <1>1, TransitionInvariance, PTL

\* A host whose journal is closed has nothing left to clean up and routes where
\* its record says (deploy.rhai 864-866).
THEOREM ClosedMeansClean == Spec => []ClosedHostIsClean
<1>1. TransitionInv => ClosedHostIsClean
  BY DEF TransitionInv
<1> QED BY <1>1, TransitionInvariance, PTL

\* The record of a fleet advances only when every host serves the new release,
\* the old containers still running (deploy.rhai 525-560).
THEOREM RecordAfterServe == Spec => RecordedOnlyWhenFleetServes
<1>1. TransitionInv /\ [Next]_vars =>
        (target' # target /\ pc = "record" =>
          \A h \in fleet :
            /\ route[h] = newPort[h] /\ \E c \in NewCtr(h) : c.up /\ c.well
            /\ target[h] # None => Answers(h, target[h]))
  BY DEF TransitionInv, BodyInv, Rolled, NewServes, OldKept, Kept, Answers
<1> QED BY <1>1, TransitionInvariance, PTL DEF Spec, RecordedOnlyWhenFleetServes
-----------------------------------------------------------------------------
OpenHosts == {h \in Hosts : trans[h] # None}

LEMMA LedgerStart == Init => Ledger!LedgerInit
<1> SUFFICES ASSUME Init PROVE Ledger!LedgerInit
  OBVIOUS
<1>1. TypeOK
  BY InitType
<1>2. \A h \in Hosts : target[h] # None => target[h] = route[h]
  BY DEF Init
<1>3. {h \in Hosts : trans[h] # None} = {}
  BY DEF Init
<1>4. target \in [Hosts -> Targets \cup {None}]
  BY <1>1 DEF TypeOK, Targets
<1> QED BY <1>1, <1>2, <1>3, <1>4 DEF TypeOK, Ledger!LedgerInit, Ledger!Agree

\* Every step of a fleet deploy is a step of the ledger or leaves it alone.
LEMMA LedgerStep ==
  TransitionInv /\ TransitionInv' /\ [Next]_vars => [Ledger!LedgerNext]_(Ledger!ledgerVars)
<1> SUFFICES ASSUME TransitionInv, TransitionInv', [Next]_vars
             PROVE  Ledger!LedgerNext \/ UNCHANGED <<route, target, trans>>
  BY DEF Ledger!ledgerVars
<1> USE DEF TransitionInv
<1>1. TypeOK /\ cur \in Hosts
  BY DEF TypeOK
<1>2. CASE UNCHANGED <<route, target, trans>>
  BY <1>2
<1>3. ASSUME NEW h \in Hosts, trans[h] = None, trans' = [trans EXCEPT ![h] = n],
             UNCHANGED <<route, target>>
      PROVE  Ledger!LedgerNext
  <2>1. n # None
    BY NoneAssumed, PortsAssumed DEF TypeOK, Deploys
  <2>2. OpenHosts' = OpenHosts \cup {h} /\ h \notin OpenHosts
    BY <1>1, <1>3, <2>1 DEF OpenHosts, TypeOK
  <2>3. Ledger!Open(h)
    BY <1>3, <2>2 DEF Ledger!Open, OpenHosts
  <2> QED BY <2>3 DEF Ledger!LedgerNext
<1>4. ASSUME NEW h \in Hosts, NEW t \in Targets, trans[h] # None,
             route' = [route EXCEPT ![h] = t], UNCHANGED <<target, trans>>
      PROVE  Ledger!LedgerNext
  <2>1. Ledger!Move(h)
    BY <1>4 DEF Ledger!Move
  <2> QED BY <2>1 DEF Ledger!LedgerNext
<1>5. ASSUME NEW h \in Hosts, trans[h] # None, trans' = [trans EXCEPT ![h] = None],
             UNCHANGED <<route, target>>
      PROVE  Ledger!LedgerNext
  <2>1. OpenHosts' = OpenHosts \ {h} /\ h \in OpenHosts
    BY <1>1, <1>5 DEF OpenHosts, TypeOK
  <2>2. target[h] # None => target[h] = route[h]
    BY <1>1, <1>5 DEF ClosedHostIsClean, TypeOK
  <2>3. Ledger!Close(h)
    BY <1>5, <2>1, <2>2 DEF Ledger!Close, Ledger!Agree, OpenHosts
  <2> QED BY <2>3 DEF Ledger!LedgerNext
<1>6. CASE WriteJournal
  BY <1>1, <1>2, <1>3, <1>6 DEF WriteJournal, Journalled, remote, CurInv
<1>7. CASE SwitchProxy
  <2>1. newPort[cur] \in Targets /\ trans[cur] # None
    BY <1>7 DEF SwitchProxy, TypeOK, Targets, CurInv
  <2> QED BY <1>1, <1>2, <1>4, <1>7, <2>1 DEF SwitchProxy, RouteTo, SwitchFailed, durable
<1>8. CASE Restore
  <2>1. PICK h \in Hosts : h = Top.host /\ trans[h] # None
    BY <1>8, Popped DEF Restore, StackInv, Undoable, Comps
  <2>2. oldTarget[h] \in Targets
    BY DEF TypeOK
  <2> QED BY <1>2, <1>4, <1>8, <2>1, <2>2 DEF Restore, RouteTo, durable
<1>9. CASE ClearJournal
  <2>1. CASE trans[cur] = None /\ trans' = [trans EXCEPT ![cur] = None]
    BY <1>2, <1>9, <2>1 DEF ClearJournal, remote, TypeOK
  <2> QED BY <1>1, <1>2, <1>5, <1>9, <2>1 DEF ClearJournal, remote
<1>10. CASE Settle
  <2>1. trans[cur] # None
    BY <1>10 DEF Settle, RetireInv, Retiring, Recorded
  <2> QED BY <1>1, <1>2, <1>5, <1>10, <2>1 DEF Settle, remote
<1>11. CASE RecordRelease
  <2>1. CASE target' = [h \in Hosts |-> IF h \in fleet THEN newPort[h] ELSE target[h]]
    <3>1. fleet \subseteq OpenHosts /\ \A h \in fleet : route[h] = newPort[h]
      BY <1>11 DEF RecordRelease, BodyInv, Rolled, OpenHosts, TypeOK
    <3>2. target' = [h \in Hosts |-> IF h \in fleet THEN route[h] ELSE target[h]]
      BY <2>1, <3>1 DEF TypeOK
    <3>3. UNCHANGED <<route, trans>>
      BY <1>11 DEF RecordRelease, remote
    <3>4. Ledger!Commit(fleet)
      BY <3>1, <3>2, <3>3 DEF Ledger!Commit, OpenHosts
    <3>5. fleet \in SUBSET Hosts
      BY DEF TypeOK
    <3> QED BY <3>4, <3>5 DEF Ledger!LedgerNext
  <2> QED BY <1>2, <1>11, <2>1 DEF RecordRelease, remote
<1>12. ASSUME NEW h \in Hosts, Reconcile(h) PROVE Ledger!LedgerNext
  <2>1. CASE target' = target
    BY <1>5, <1>12, <2>1 DEF Reconcile
  <2>2. CASE target' = [target EXCEPT ![h] = route[h]]
    <3>1. OpenHosts' = OpenHosts \ {h} /\ h \in OpenHosts
      BY <1>12 DEF Reconcile, OpenHosts, TypeOK
    <3>2. Ledger!Correct(h)
      BY <1>12, <2>2, <3>1 DEF Reconcile, Ledger!Correct, OpenHosts
    <3> QED BY <3>2 DEF Ledger!LedgerNext
  <2> QED BY <1>12, <2>1, <2>2 DEF Reconcile
<1>13. UNCHANGED <<route, target, trans>> \/ WriteJournal \/ SwitchProxy \/ Restore
         \/ ClearJournal \/ Settle \/ RecordRelease \/ \E h \in Hosts : Reconcile(h)
  BY DEF Next, Script, StartDeploy, Prepare, BeginHost, RunContainer, HealthGate,
     CommitTransaction, SkipRemove, RemoveNew, Reraise, RenameOld, Promote, RetireOld,
     FinishDeploy, Interrupt, Die, vars, remote, durable
<1> QED BY <1>2, <1>6, <1>7, <1>8, <1>9, <1>10, <1>11, <1>12, <1>13

\* The fleet deploy implements the write-ahead ledger, for every fleet.
THEOREM ImplementsLedger == Spec => LedgerRefinement
BY LedgerStart, LedgerStep, TransitionInvariance, PTL DEF Spec, LedgerRefinement, Ledger!LedgerSpec
-----------------------------------------------------------------------------
(* All or nothing.                                                          *)

\* The deploy is under way, and nothing is recorded yet.
Transacting == pc = "prepare" \/ InBody \/ pc \in {"unwind", "clear"}

Pending(kind, h) == Stacked([kind |-> kind, host |-> h])
Clearing(h)      == pc = "clear" /\ cur = h
Undoing(h)       == Pending("remove", h) \/ Clearing(h)

\* What distinguishes h from how the deploy found it, a compensation undoes that
\* is still to come.
HostUndo(h) ==
  /\ box[h] \ NewCtr(h) = before.box[h] /\ \A c \in before.box[h] : c.gen # n
  /\ NewCtr(h) # {} => Pending("remove", h)
  /\ trans[h] # before.trans[h] => Undoing(h)
  /\ Undoing(h) => before.trans[h] = None
  /\ switched[h] => Pending("restore", h) \/ restored[h]
  /\ target[h] # None =>
       /\ ~switched[h] \/ restored[h] => route[h] = before.route[h]
       /\ Pending("remove", h) \/ Pending("restore", h) => oldTarget[h] = before.route[h]

RollingUndo == /\ pc \in {"journal", "run", "health", "switch"} => Pending("remove", cur)
               /\ pc = "switch" => Pending("restore", cur)

\* Unless a compensation has failed, what the deploy did so far can be undone.
UndoInv ==
  /\ before.box \in [Hosts -> SUBSET Containers]
  /\ before.trans \in [Hosts -> Deploys \cup {None}]
  /\ Transacting /\ tidy => RollingUndo /\ \A h \in Hosts : HostUndo(h)

\* The compensations of h are the ones they were.
SamePending(h) == /\ Pending("remove", h)' = Pending("remove", h)
                  /\ Pending("restore", h)' = Pending("restore", h)
                  /\ Clearing(h)' = Clearing(h)

LEMMA UndoFrame ==
  ASSUME NEW h \in Hosts, Same(h), before' = before, SamePending(h), HostUndo(h)
  PROVE  HostUndo(h)'
<1>1. NewCtr(h)' = NewCtr(h) /\ Undoing(h)' = Undoing(h)
  BY DEF Same, NewCtr, Undoing, SamePending
<1> QED BY <1>1 DEF HostUndo, Same, SamePending

\* The compensations that a step pushes and pops.
LEMMA PendingPushed ==
  ASSUME TypeOK, NEW kind \in {"remove", "restore"}, NEW h \in Hosts,
         comps' = OnRollback(kind, h)
  PROVE  /\ Pending(kind, h)'
         /\ \A k \in {"remove", "restore"}, g \in Hosts :
              k # kind \/ g # h => Pending(k, g)' = Pending(k, g)
<1> DEFINE new == [kind |-> kind, host |-> h]
<1>1. /\ Len(comps') = Len(comps) + 1 /\ comps'[Len(comps')] = new
      /\ \A k \in 1..Len(comps) : comps'[k] = comps[k]
      /\ comps \in Seq(Comps) /\ Len(comps) \in Nat
  BY StackPush, SMTT(30) DEF TypeOK, Comps
<1>2. Stacked(new)'
  BY <1>1 DEF Stacked
<1>3. ASSUME NEW c \in Comps, c # new PROVE Stacked(c)' = Stacked(c)
  BY <1>1, <1>3 DEF Stacked
<1>4. ASSUME NEW k \in {"remove", "restore"}, NEW g \in Hosts, k # kind \/ g # h
      PROVE  Pending(k, g)' = Pending(k, g)
  <2>1. [kind |-> k, host |-> g] \in Comps /\ [kind |-> k, host |-> g] # new
    BY <1>4 DEF Comps
  <2> QED BY <1>3, <2>1 DEF Pending
<1> QED BY <1>2, <1>4 DEF Pending

LEMMA PendingPopped ==
  ASSUME TypeOK, comps # <<>>, PopComp
  PROVE  \A k \in {"remove", "restore"}, g \in Hosts :
           /\ Pending(k, g)' => Pending(k, g)
           /\ Top.kind # k \/ Top.host # g => Pending(k, g)' = Pending(k, g)
<1>1. /\ Len(comps') = Len(comps) - 1 /\ Len(comps) \in 1..Len(comps)
      /\ \A k \in 1..Len(comps') : k \in 1..Len(comps) /\ comps'[k] = comps[k]
  BY StackPop DEF TypeOK, Comps
<1>2. ASSUME NEW c PROVE Stacked(c)' => Stacked(c)
  BY <1>1 DEF Stacked
<1>3. ASSUME NEW c, Top # c PROVE Stacked(c) => Stacked(c)'
  <2> SUFFICES ASSUME NEW k \in 1..Len(comps), comps[k] = c PROVE k \in 1..Len(comps')
    BY <1>1 DEF Stacked
  <2>1. k # Len(comps)
    BY <1>3 DEF Top
  <2> QED BY <1>1, <2>1
<1>4. ASSUME NEW k \in {"remove", "restore"}, NEW g \in Hosts, Top.kind # k \/ Top.host # g
      PROVE  Pending(k, g)' = Pending(k, g)
  <2>1. Top # [kind |-> k, host |-> g]
    BY <1>4
  <2> QED BY <1>2, <1>3, <2>1 DEF Pending, Stacked
<1>5. \A k \in {"remove", "restore"}, g \in Hosts : Pending(k, g)' => Pending(k, g)
  BY <1>2 DEF Pending
<1> QED BY <1>4, <1>5

\* A step that changes nothing of any host, nor what is pending for it.
LEMMA UndoStays ==
  ASSUME UndoInv, Transacting, tidy, before' = before, pc' \in {"roll", "unwind"},
         \A h \in Hosts : Same(h) /\ SamePending(h)
  PROVE  UndoInv'
<1>1. \A h \in Hosts : HostUndo(h)'
  BY UndoFrame DEF UndoInv
<1> QED BY <1>1 DEF UndoInv, RollingUndo

\* A step at one host of which it is left to look at that host.
LEMMA UndoAt ==
  ASSUME UndoInv, Transacting, tidy, before' = before, NEW h \in Hosts,
         \A g \in Hosts : g # h => Same(g) /\ SamePending(g),
         HostUndo(h)', RollingUndo'
  PROVE  UndoInv'
<1>1. \A g \in Hosts : HostUndo(g)'
  BY UndoFrame DEF UndoInv
<1> QED BY <1>1 DEF UndoInv

\* With the stack unchanged and no journal being cleared, the same is pending.
LEMMA SameStack ==
  ASSUME comps' = comps, pc # "clear", pc' # "clear"
  PROVE  \A h \in Hosts : SamePending(h)
BY DEF SamePending, Pending, Stacked, Clearing

LEMMA UndoStart ==
  ASSUME TransitionInv, UndoInv, NEW f \in SUBSET Hosts, StartDeploy(f)
  PROVE  UndoInv'
<1> USE DEF TransitionInv
<1>1. comps' = <<>> /\ pc' = "prepare"
  BY DEF StartDeploy, StackInv, InBody
<1>2. /\ UNCHANGED <<box, route, target, trans, cur>>
      /\ before' = [box |-> box, route |-> route, trans |-> trans]
      /\ \A h \in Hosts : ~switched'[h]
  BY DEF StartDeploy, remote, durable
<1>3. \A h \in Hosts : \A c \in box[h] : c.gen # n'
  <2>1. n \in Nat
    BY PortsAssumed DEF TypeOK, Deploys
  <2>2. \A h \in Hosts : \A c \in box[h] : c.gen \in Nat
    BY DEF TypeOK, Containers
  <2> QED BY <2>1, <2>2 DEF StartDeploy, GenInv
<1>4. \A kind \in {"remove", "restore"}, h \in Hosts : ~Pending(kind, h)'
  BY <1>1 DEF Pending, Stacked
<1>5. ASSUME NEW h \in Hosts PROVE HostUndo(h)'
  <2>1. NewCtr(h)' = {} /\ ~Undoing(h)'
    BY <1>1, <1>2, <1>3, <1>4 DEF NewCtr, Undoing, Clearing
  <2> QED BY <1>2, <1>3, <1>4, <2>1 DEF HostUndo
<1> QED BY <1>1, <1>2, <1>5 DEF UndoInv, RollingUndo, TypeOK

LEMMA UndoBegin ==
  ASSUME TransitionInv, UndoInv, tidy, NEW h \in Hosts, BeginHost(h)
  PROVE  UndoInv'
<1> USE DEF TransitionInv
<1>1. /\ UNCHANGED <<box, route, target, trans, n, switched, restored, before, tidy>>
      /\ pc = "roll" /\ h \in todo /\ InBody /\ Transacting /\ cur' = h
  BY DEF BeginHost, remote, durable, flags, history, InBody, Transacting
<1>2. CASE Throw /\ UNCHANGED <<captured, comps>>
  <2>1. \A g \in Hosts : Same(g)
    BY <1>1, <1>2 DEF Same, captured
  <2> QED BY <1>1, <1>2, <2>1, SameStack, UndoStays DEF Throw
<1>3. CASE /\ pc' = "journal" /\ trans[h] = None /\ oldTarget'[h] = OldTargetOf(h)
           /\ comps' = OnRollback("remove", h)
  <2>1. /\ Pending("remove", h)'
        /\ \A k \in {"remove", "restore"}, g \in Hosts :
             k # "remove" \/ g # h => Pending(k, g)' = Pending(k, g)
    BY <1>3, PendingPushed
  <2>2. ASSUME NEW g \in Hosts, g # h PROVE Same(g) /\ SamePending(g)
    <3>1. Same(g)
      BY <1>1, <2>2 DEF BeginHost, Same, captured, TypeOK
    <3> QED BY <1>1, <1>3, <2>1, <2>2, <3>1 DEF SamePending, Clearing
  <2>3. ~Pending("remove", h) /\ ~Pending("restore", h)
    <3>1. \A c \in Comps : Stacked(c) => c.host \notin todo
      BY <1>1 DEF StackInv, Undoable
    <3>2. \A k \in {"remove", "restore"} :
            [kind |-> k, host |-> h] \in Comps /\ [kind |-> k, host |-> h].host = h
      BY DEF Comps
    <3> QED BY <1>1, <3>1, <3>2 DEF Pending
  <2>4. HostUndo(h) /\ Fresh(h) /\ ~Clearing(h) /\ ~Clearing(h)'
    BY <1>1, <1>3 DEF UndoInv, BodyInv, Clearing
  <2>5. before.trans[h] = None /\ trans[h] = before.trans[h]
    BY <1>3, <2>3, <2>4 DEF HostUndo, Undoing
  <2>6. target[h] # None => route[h] = target[h] /\ oldTarget'[h] = route[h]
    BY <1>3, HostsOK DEF HostOK, OldTargetOf
  <2>7. NewCtr(h)' = NewCtr(h) /\ NewCtr(h) = {}
    BY <1>1, <2>4 DEF NewCtr, Fresh
  <2>8. HostUndo(h)'
    BY <1>1, <2>1, <2>3, <2>4, <2>5, <2>6, <2>7 DEF HostUndo, Fresh
  <2>9. RollingUndo'
    BY <1>1, <1>3, <2>1 DEF RollingUndo
  <2> QED BY <1>1, <2>2, <2>8, <2>9, UndoAt
<1> QED BY <1>2, <1>3 DEF BeginHost, TypeOK

\* The steps of the current host: it is left to look at that host.
LEMMA UndoRolling ==
  ASSUME TransitionInv, UndoInv, tidy, WriteJournal \/ RunContainer \/ HealthGate \/ SwitchProxy
  PROVE  /\ HostUndo(cur) /\ Pending("remove", cur) /\ cur \in Hosts /\ Transacting
         /\ pc = "switch" => Pending("restore", cur) /\ ~restored[cur]
         /\ cur' = cur /\ before' = before /\ n' = n
         /\ pc # "clear" /\ pc' # "clear"
         /\ NewCtr(cur) \subseteq box[cur]
BY DEF UndoInv, TransitionInv, TypeOK, WriteJournal, RunContainer, HealthGate, SwitchProxy,
       history, Transacting, InBody, RollingUndo, BodyInv, Throw, SwitchFailed, NewCtr

LEMMA UndoWriteJournal ==
  ASSUME TransitionInv, UndoInv, tidy, WriteJournal
  PROVE  UndoInv'
<1>1. /\ HostUndo(cur) /\ Pending("remove", cur) /\ cur \in Hosts /\ Transacting
      /\ cur' = cur /\ before' = before /\ pc # "clear" /\ pc' # "clear"
  BY UndoRolling
<1>2. UNCHANGED <<n, box, route, target, comps, oldTarget, newPort, switched, restored>>
  BY DEF WriteJournal, remote, captured, flags
<1>3. \A h \in Hosts : SamePending(h)
  BY <1>1, <1>2, SameStack
<1>4. \A h \in Hosts : h # cur => Same(h)
  BY <1>2 DEF WriteJournal, Journalled, Same, TransitionInv, TypeOK
<1>5. Pending("remove", cur)' /\ NewCtr(cur)' = NewCtr(cur) /\ Undoing(cur) /\ Undoing(cur)'
  BY <1>1, <1>2, <1>3 DEF SamePending, NewCtr, Undoing
<1>6. HostUndo(cur)'
  BY <1>1, <1>2, <1>3, <1>5 DEF HostUndo, SamePending
<1>7. RollingUndo'
  BY <1>1, <1>5 DEF WriteJournal, RollingUndo, Throw
<1>8. PICK h \in Hosts : h = cur
  BY <1>1
<1> QED BY <1>1, <1>3, <1>4, <1>6, <1>7, <1>8, UndoAt

LEMMA UndoRunContainer ==
  ASSUME TransitionInv, UndoInv, tidy, RunContainer
  PROVE  UndoInv'
<1>1. /\ HostUndo(cur) /\ Pending("remove", cur) /\ cur \in Hosts /\ Transacting
      /\ cur' = cur /\ before' = before /\ pc # "clear" /\ pc' # "clear"
  BY UndoRolling
<1>2. UNCHANGED <<n, route, target, trans, comps, oldTarget, newPort, switched, restored>>
  BY DEF RunContainer, durable, captured, flags
<1>3. \A h \in Hosts : SamePending(h)
  BY <1>1, <1>2, SameStack
<1>4. \A h \in Hosts : h # cur => Same(h)
  BY <1>2 DEF RunContainer, AddCtr, Same, TransitionInv, TypeOK
<1>5. Pending("remove", cur)' /\ Undoing(cur) /\ Undoing(cur)'
  BY <1>1, <1>2, <1>3 DEF SamePending, Undoing
<1>6. box'[cur] \ NewCtr(cur)' = box[cur] \ NewCtr(cur)
  <2>1. \/ box'[cur] = box[cur]
        \/ \E up, well \in BOOLEAN : box'[cur] = box[cur] \cup {Started(up, well)}
    BY DEF RunContainer, AddCtr, TransitionInv, TypeOK
  <2>2. \A up, well \in BOOLEAN : Started(up, well).gen = n /\ Started(up, well).name = "own"
    BY DEF Started
  <2>3. \A c : (c.gen = n /\ c.name = "own") \/ (c \in box'[cur] <=> c \in box[cur])
    BY <2>1, <2>2
  <2> QED BY <1>1, <1>2, <2>3 DEF NewCtr
<1>7. HostUndo(cur)'
  BY <1>1, <1>2, <1>3, <1>5, <1>6 DEF HostUndo, SamePending
<1>8. RollingUndo'
  BY <1>1, <1>5 DEF RunContainer, RollingUndo, Throw
<1>9. PICK h \in Hosts : h = cur
  BY <1>1
<1> QED BY <1>1, <1>3, <1>4, <1>7, <1>8, <1>9, UndoAt

LEMMA UndoHealthGate ==
  ASSUME TransitionInv, UndoInv, tidy, HealthGate
  PROVE  UndoInv'
<1>1. /\ HostUndo(cur) /\ Pending("remove", cur) /\ cur \in Hosts /\ Transacting
      /\ cur' = cur /\ before' = before /\ pc # "clear" /\ pc' # "clear"
  BY UndoRolling
<1>2. /\ UNCHANGED <<n, box, route, target, trans, oldTarget, newPort, switched, restored>>
      /\ \A h \in Hosts : Same(h)
  BY DEF HealthGate, remote, durable, captured, flags, Same
<1>3. CASE Throw /\ UNCHANGED comps
  BY <1>1, <1>2, <1>3, SameStack, UndoStays DEF Throw
<1>4. CASE comps' = OnRollback("restore", cur) /\ pc' = "switch"
  <2>1. /\ Pending("restore", cur)'
        /\ \A k \in {"remove", "restore"}, g \in Hosts :
             k # "restore" \/ g # cur => Pending(k, g)' = Pending(k, g)
    BY <1>1, <1>4, PendingPushed DEF TransitionInv
  <2>2. Pending("remove", cur)' /\ NewCtr(cur)' = NewCtr(cur) /\ Undoing(cur) /\ Undoing(cur)'
    BY <1>1, <1>2, <2>1 DEF NewCtr, Undoing
  <2>3. \A g \in Hosts : g # cur => SamePending(g)
    BY <1>1, <2>1 DEF SamePending, Clearing
  <2>4. HostUndo(cur)'
    BY <1>1, <1>2, <2>1, <2>2 DEF HostUndo
  <2>5. RollingUndo'
    BY <1>1, <1>4, <2>1, <2>2 DEF RollingUndo
  <2>6. PICK h \in Hosts : h = cur
    BY <1>1
  <2> QED BY <1>1, <1>2, <2>3, <2>4, <2>5, <2>6, UndoAt
<1> QED BY <1>3, <1>4 DEF HealthGate

LEMMA UndoSwitchProxy ==
  ASSUME TransitionInv, UndoInv, tidy, SwitchProxy
  PROVE  UndoInv'
<1>1. /\ HostUndo(cur) /\ Pending("remove", cur) /\ cur \in Hosts /\ Transacting
      /\ Pending("restore", cur) /\ ~restored[cur]
      /\ cur' = cur /\ before' = before /\ pc # "clear" /\ pc' # "clear"
  BY UndoRolling DEF SwitchProxy
<1>2. /\ UNCHANGED <<n, box, target, trans, comps, oldTarget, newPort, restored>>
      /\ pc' \in {"roll", "unwind"} /\ switched' = [switched EXCEPT ![cur] = TRUE]
  BY DEF SwitchProxy, durable, captured, Throw, SwitchFailed
<1>3. \A h \in Hosts : SamePending(h)
  BY <1>1, <1>2, SameStack
<1>4. \A h \in Hosts : h # cur => Same(h)
  BY <1>2 DEF SwitchProxy, RouteTo, Same, TransitionInv, TypeOK
<1>5. /\ Pending("remove", cur)' /\ Pending("restore", cur)' /\ Undoing(cur) /\ Undoing(cur)'
      /\ NewCtr(cur)' = NewCtr(cur) /\ switched'[cur]
  BY <1>1, <1>2, <1>3 DEF SamePending, Undoing, NewCtr, TransitionInv, TypeOK
<1>6. HostUndo(cur)'
  BY <1>1, <1>2, <1>5 DEF HostUndo
<1>7. RollingUndo'
  BY <1>2 DEF RollingUndo
<1>8. PICK h \in Hosts : h = cur
  BY <1>1
<1> QED BY <1>1, <1>3, <1>4, <1>6, <1>7, <1>8, UndoAt

LEMMA UndoRestore ==
  ASSUME TransitionInv, UndoInv, tidy, tidy', Restore
  PROVE  UndoInv'
<1> USE DEF TransitionInv
<1>1. /\ UNCHANGED <<n, box, target, trans, oldTarget, newPort, switched, before, cur>>
      /\ pc = "unwind" /\ pc' = "unwind" /\ comps # <<>> /\ PopComp /\ Transacting
      /\ Top.kind = "restore"
  BY DEF Restore, durable, captured, Transacting
<1>2. Top \in Comps /\ Stacked(Top)
  BY <1>1, Popped DEF StackInv
<1>3. PICK h \in Hosts : h = Top.host
  BY <1>2 DEF Comps
<1>4. /\ route' = [route EXCEPT ![h] = oldTarget[h]]
      /\ restored' = [restored EXCEPT ![h] = TRUE]
  BY <1>3 DEF Restore, RouteTo
<1>5. \A k \in {"remove", "restore"}, g \in Hosts :
        /\ Pending(k, g)' => Pending(k, g)
        /\ Top.kind # k \/ Top.host # g => Pending(k, g)' = Pending(k, g)
  BY <1>1, PendingPopped
<1>6. \A g \in Hosts : g # h => Same(g) /\ SamePending(g)
  BY <1>1, <1>3, <1>4, <1>5 DEF Same, SamePending, Clearing, TypeOK
<1>7. Pending("restore", h)
  <2>1. Top = [kind |-> "restore", host |-> h]
    BY <1>1, <1>2, <1>3 DEF Comps
  <2> QED BY <1>2, <2>1 DEF Pending
<1>8. Pending("remove", h)' = Pending("remove", h) /\ Undoing(h)' = Undoing(h)
  BY <1>1, <1>5 DEF Undoing, Clearing
<1>9. /\ HostUndo(h) /\ NewCtr(h)' = NewCtr(h)
      /\ route'[h] = oldTarget[h] /\ restored'[h]
  BY <1>1, <1>4 DEF UndoInv, NewCtr, TypeOK
<1>10. HostUndo(h)'
  BY <1>1, <1>7, <1>8, <1>9 DEF HostUndo
<1>11. RollingUndo'
  BY <1>1 DEF RollingUndo
<1> QED BY <1>1, <1>6, <1>10, <1>11, UndoAt

\* A removal is not skipped as long as no compensation has failed: the restore
\* of a host that was switched lies above its removal and would have run.
LEMMA NoSkip ==
  ASSUME TransitionInv, UndoInv, tidy, SkipRemove
  PROVE  FALSE
<1> USE DEF TransitionInv
<1>1. /\ pc = "unwind" /\ comps # <<>> /\ PopComp /\ Transacting
      /\ Top.kind = "remove" /\ switched[Top.host] /\ ~restored[Top.host]
  BY DEF SkipRemove, Transacting, RestoreMissed
<1>2. /\ Top \in Comps
      /\ \A c \in Comps : Stacked(c)' /\ c.kind = "restore" => c.host # Top.host
  BY <1>1, Popped DEF StackInv
<1>3. PICK h \in Hosts : h = Top.host
  BY <1>2 DEF Comps
<1>4. Pending("restore", h)'
  <2>1. Pending("restore", h)
    BY <1>1, <1>3 DEF UndoInv, HostUndo
  <2>2. Pending("restore", h)' = Pending("restore", h)
    BY <1>1, PendingPopped
  <2> QED BY <2>1, <2>2
<1>5. [kind |-> "restore", host |-> h] \in Comps
  BY DEF Comps
<1> QED BY <1>2, <1>3, <1>4, <1>5 DEF Pending

LEMMA UndoRemoveNew ==
  ASSUME TransitionInv, UndoInv, tidy, tidy', RemoveNew
  PROVE  UndoInv'
<1> USE DEF TransitionInv
<1>1. /\ UNCHANGED <<n, route, target, trans, oldTarget, newPort, switched, restored, before>>
      /\ pc = "unwind" /\ pc' = "clear" /\ comps # <<>> /\ PopComp /\ Transacting
      /\ Top.kind = "remove" /\ cur' = Top.host
  BY DEF RemoveNew, durable, captured, flags, Transacting
<1>2. Top \in Comps /\ Stacked(Top)
  BY <1>1, Popped DEF StackInv
<1>3. PICK h \in Hosts : h = Top.host
  BY <1>2 DEF Comps
<1>4. box' = [box EXCEPT ![h] = box[h] \ NewCtr(h)] /\ (switched[h] => restored[h])
  BY <1>3 DEF RemoveNew, DropNew, RestoreMissed
<1>5. \A k \in {"remove", "restore"}, g \in Hosts :
        /\ Pending(k, g)' => Pending(k, g)
        /\ Top.kind # k \/ Top.host # g => Pending(k, g)' = Pending(k, g)
  BY <1>1, PendingPopped
<1>6. \A g \in Hosts : g # h => Same(g) /\ SamePending(g)
  BY <1>1, <1>3, <1>4, <1>5 DEF Same, SamePending, Clearing, TypeOK
<1>7. Pending("remove", h)
  <2>1. Top = [kind |-> "remove", host |-> h]
    BY <1>1, <1>2, <1>3 DEF Comps
  <2> QED BY <1>2, <2>1 DEF Pending
<1>8. Undoing(h) /\ Undoing(h)' /\ HostUndo(h) /\ box'[h] = box[h] \ NewCtr(h)
  BY <1>1, <1>3, <1>4, <1>7 DEF Undoing, Clearing, UndoInv, TypeOK
<1>9. NewCtr(h)' = {} /\ box'[h] \ NewCtr(h)' = box[h] \ NewCtr(h)
  BY <1>1, <1>8 DEF NewCtr
<1>10. HostUndo(h)'
  BY <1>1, <1>4, <1>5, <1>7, <1>8, <1>9 DEF HostUndo
<1>11. RollingUndo'
  BY <1>1 DEF RollingUndo
<1> QED BY <1>1, <1>6, <1>10, <1>11, UndoAt

LEMMA UndoClearJournal ==
  ASSUME TransitionInv, UndoInv, tidy, tidy', ClearJournal
  PROVE  UndoInv'
<1> USE DEF TransitionInv
<1>1. /\ UNCHANGED <<n, box, route, target, comps, oldTarget, newPort, switched, restored>>
      /\ UNCHANGED <<before, cur>> /\ pc = "clear" /\ pc' = "unwind" /\ Transacting
      /\ trans' = [trans EXCEPT ![cur] = None]
  BY DEF ClearJournal, remote, captured, flags, Transacting
<1>2. PICK h \in Hosts : h = cur
  BY DEF TypeOK
<1>3. \A g \in Hosts : g # h => Same(g) /\ SamePending(g)
  BY <1>1, <1>2 DEF Same, SamePending, Clearing, Pending, Stacked, TypeOK
<1>4. /\ Pending("remove", h)' = Pending("remove", h)
      /\ Pending("restore", h)' = Pending("restore", h)
      /\ NewCtr(h)' = NewCtr(h) /\ Undoing(h) /\ HostUndo(h) /\ trans'[h] = None
  BY <1>1, <1>2 DEF Pending, Stacked, NewCtr, Undoing, Clearing, UndoInv, TypeOK
<1>5. before.trans[h] = None
  BY <1>4 DEF HostUndo
<1>6. HostUndo(h)'
  BY <1>1, <1>4, <1>5 DEF HostUndo
<1>7. RollingUndo'
  BY <1>1 DEF RollingUndo
<1> QED BY <1>1, <1>3, <1>6, <1>7, UndoAt

\* An interruption that breaks off no compensation is a throw in the body.
LEMMA InterruptThrows ==
  ASSUME Interrupt, tidy', pc' # "idle"
  PROVE  InBody /\ Throw /\ comps' = comps
BY DEF Interrupt

LEMMA UndoStep == TransitionInv /\ UndoInv /\ [Next]_vars => UndoInv'
<1> SUFFICES ASSUME TransitionInv, UndoInv, [Next]_vars PROVE UndoInv'
  OBVIOUS
<1>1. CASE \E f \in SUBSET Hosts \ {{}} : StartDeploy(f)
  BY <1>1, UndoStart
<1>2. CASE UNCHANGED vars
  <2>1. /\ UNCHANGED <<box, route, target, trans, n, pc, cur, comps, before, tidy>>
        /\ UNCHANGED <<oldTarget, newPort, switched, restored>>
    BY <1>2 DEF vars, remote, durable, captured, flags, history
  <2>2. \A h \in Hosts : Same(h) /\ SamePending(h)
    BY <2>1 DEF Same, SamePending, Pending, Stacked, Clearing
  <2>3. (\A h \in Hosts : HostUndo(h)) => \A h \in Hosts : HostUndo(h)'
    BY <2>1, <2>2, UndoFrame
  <2>4. RollingUndo' = RollingUndo /\ Transacting' = Transacting
    BY <2>1 DEF RollingUndo, Transacting, InBody, Pending, Stacked
  <2> QED BY <2>1, <2>3, <2>4 DEF UndoInv
<1>3. CASE ~(\E f \in SUBSET Hosts \ {{}} : StartDeploy(f)) /\ Next
  <2>1. before' = before /\ (tidy' => tidy)
    <3>1. CASE Restore \/ RemoveNew \/ ClearJournal \/ Interrupt \/ Die
      BY <3>1 DEF Restore, RemoveNew, ClearJournal, Interrupt, Die
    <3>2. ASSUME NEW h \in Hosts, BeginHost(h) \/ RenameOld(h) \/ Reconcile(h)
          PROVE  UNCHANGED history
      BY <3>2 DEF BeginHost, RenameOld, Reconcile
    <3>3. CASE \/ Prepare \/ WriteJournal \/ RunContainer \/ HealthGate \/ SwitchProxy
               \/ CommitTransaction \/ SkipRemove \/ Reraise \/ RecordRelease \/ Promote
               \/ RetireOld \/ Settle \/ FinishDeploy
      <4>1. UNCHANGED history
        BY <3>3 DEF Prepare, WriteJournal, RunContainer, HealthGate, SwitchProxy,
           CommitTransaction, SkipRemove, Reraise, RecordRelease, Promote, RetireOld, Settle,
           FinishDeploy
      <4> QED BY <4>1 DEF history
    <3> QED BY <1>3, <3>1, <3>2, <3>3 DEF Next, Script, history
  <2> SUFFICES ASSUME Transacting', tidy' PROVE UndoInv'
    BY <2>1 DEF UndoInv
  <2>2. tidy
    BY <2>1
  <2>3. CASE Prepare
    <3>1. /\ pc = "prepare" /\ pc' = "roll" /\ comps' = comps /\ Transacting
          /\ \A h \in Hosts : Same(h)
      BY <2>3 DEF Prepare, Transacting, InBody, Same, remote, durable, captured, flags
    <3> QED BY <2>1, <2>2, <3>1, SameStack, UndoStays
  <2>4. CASE Interrupt
    <3>1. tidy' /\ pc' # "idle"
      BY DEF Transacting, InBody
    <3>2. InBody /\ pc' = "unwind" /\ comps' = comps
      BY <2>4, <3>1, InterruptThrows DEF Throw
    <3>3. \A h \in Hosts : Same(h)
      BY <2>4 DEF Interrupt, Same, remote, durable, captured, flags
    <3>4. Transacting /\ pc # "clear" /\ pc' # "clear"
      BY <3>2 DEF Transacting, InBody
    <3> QED BY <2>1, <2>2, <3>2, <3>3, <3>4, SameStack, UndoStays
  <2>5. CASE \E h \in Hosts : BeginHost(h)
    BY <2>2, <2>5, UndoBegin
  <2>6. CASE SkipRemove
    BY <2>2, <2>6, NoSkip
  <2>7. CASE \/ CommitTransaction \/ Reraise \/ RecordRelease \/ Promote \/ RetireOld \/ Settle
             \/ FinishDeploy \/ Die \/ \E h \in Hosts : RenameOld(h) \/ Reconcile(h)
    <3>1. pc' \notin {"prepare", "roll", "journal", "run", "health", "switch", "unwind", "clear"}
      BY <2>7 DEF CommitTransaction, Reraise, RecordRelease, Promote, RetireOld, RetireFailed,
         NextHost, Settle, FinishDeploy, Die, RenameOld, Reconcile
    <3> QED BY <3>1 DEF Transacting, InBody
  <2> QED
    BY <1>3, <2>2, <2>3, <2>4, <2>5, <2>6, <2>7, UndoWriteJournal, UndoRunContainer,
       UndoHealthGate, UndoSwitchProxy, UndoRestore, UndoRemoveNew, UndoClearJournal
    DEF Next, Script
<1> QED BY <1>1, <1>2, <1>3

LEMMA InitUndo == Init => UndoInv
<1> SUFFICES ASSUME Init PROVE UndoInv
  OBVIOUS
<1>1. TypeOK /\ ~Transacting /\ before.box = box /\ before.trans = trans
  BY InitType DEF Init, Transacting, InBody
<1> QED BY <1>1 DEF UndoInv, TypeOK

\* In every reachable state of a transaction in which no compensation failed,
\* the compensations still to come undo everything that was done.
THEOREM UndoInvariance == Spec => []UndoInv
BY InitUndo, UndoStep, TransitionInvariance, PTL DEF Spec

\* A transaction that fails and whose compensations all ran leaves every host of
\* the fleet as the deploy found it (deploy.rhai 867-937).
THEOREM FailureUndoesFleet == Spec => FailedDeployUndoesFleet
<1>1. TransitionInv /\ UndoInv /\ [Next]_vars =>
        (pc = "unwind" /\ pc' = "idle" /\ tidy /\ tidy' =>
           /\ box = before.box /\ trans = before.trans
           /\ \A h \in Hosts : target[h] # None => route[h] = before.route[h])
  <2> SUFFICES ASSUME TransitionInv, UndoInv, [Next]_vars, pc = "unwind", pc' = "idle",
                      tidy, tidy'
               PROVE  /\ box = before.box /\ trans = before.trans
                      /\ \A h \in Hosts : target[h] # None => route[h] = before.route[h]
    OBVIOUS
  <2>1. comps = <<>>
    BY DEF Next, Script, StartDeploy, Prepare, WriteJournal, RunContainer, HealthGate,
       SwitchProxy, CommitTransaction, Restore, SkipRemove, RemoveNew, ClearJournal, Reraise,
       RecordRelease, Promote, RetireOld, Settle, FinishDeploy, BeginHost, RenameOld, Interrupt,
       Die, Reconcile, InBody, vars
  <2>2. ASSUME NEW h \in Hosts
        PROVE  /\ box[h] = before.box[h] /\ trans[h] = before.trans[h]
               /\ target[h] # None => route[h] = before.route[h]
    <3>1. HostUndo(h)
      BY DEF UndoInv, Transacting
    <3>2. ~Pending("remove", h) /\ ~Pending("restore", h) /\ ~Undoing(h)
      BY <2>1 DEF Pending, Stacked, Undoing, Clearing
    <3> QED BY <3>1, <3>2 DEF HostUndo
  <2> QED BY <2>2 DEF UndoInv, TransitionInv, TypeOK
<1> QED BY <1>1, UndoInvariance, TransitionInvariance, PTL DEF Spec, FailedDeployUndoesFleet
=============================================================================
