-------------------------- MODULE DeployLockProofs --------------------------
(***************************************************************************)
(* Type correctness, mutual exclusion, that no lock is left behind without *)
(* a reason and that racing deploys do not all refuse each other, for any  *)
(* number of hosts and runs, any number of faults, and every interleaving  *)
(* of the commands that runs which gave up or crashed left on the hosts.   *)
(***************************************************************************)
EXTENDS DeployLock, TLAPS

\* The directory of h is there, and what its holder file says.
Says(h, t) == h \in made /\ holder[h] = t

\* The locks a run holds, is taking or is dropping.
LocksOf(p) == held[p] \cup mine[p]
Taking(p)  == pc[p] = "taking"

\* No drop of a lock with this token has ever been sent.
Undropped(t) == \A s \in shells : s.job = "drop" => s.token # t

\* A shell between the two commands of a take or of a drop: the directory is
\* there without a holder, and it is the only such shell of its host.
Between(s) == s.at \in {"write", "rmdir"}

\* Every token names one lock of one run, in one of its roles ...
TokenInv ==
  /\ \A p, q \in Procs : \A l \in LocksOf(p), k \in LocksOf(q) :
       l.token = k.token => p = q /\ l = k
  /\ \A p \in Procs : held[p] \cap mine[p] = {} /\ \A l \in LocksOf(p) : l.token <= issued
\* ... and at most one take and one drop command, on the host of that lock.
  /\ \A s \in shells : s.token <= issued
  /\ \A s, r \in shells : s.token = r.token => s.host = r.host /\ (s.job = r.job => s = r)
  /\ \A s \in shells : \A p \in Procs : \A l \in LocksOf(p) :
       s.token = l.token => s.host = l.host

\* A lock that is held, or taken and not yet answered, owns its directory.
HeldInv ==
  /\ \A p \in Procs : \A l \in held[p] : Says(l.host, l.token) /\ Undropped(l.token)
  /\ \A p \in Procs : \A l \in mine[p] : Taking(p) =>
       /\ Undropped(l.token)
       /\ Shell("take", "done", l) \in shells => Says(l.host, l.token)

ShellInv ==
  /\ \A s \in shells : Between(s) => Says(s.host, Nobody)
  /\ \A s, r \in shells : Between(s) /\ Between(r) /\ s.host = r.host => s = r
  /\ \A s \in shells : s.at = "rm" => Says(s.host, s.token)
  /\ \A s \in shells : s.at \in {"mkdir", "write"} => s.job = "take"
  /\ \A s \in shells : s.at \in {"check", "rm", "rmdir"} => s.job = "drop"

DirInv ==
  /\ \A h \in Hosts \ made : holder[h] = Nobody
  /\ \A h \in manual : Says(h, Operator)

\* A run works on hosts whose locks it holds.
FleetInv ==
  \A p \in Procs :
    /\ pc[p] \in {"acquire", "taking", "work"} =>
         \A h \in fleet[p] \ want[p] : \E l \in held[p] : l.host = h
    /\ pc[p] = "work" => want[p] = {}
    /\ mine[p] # {} => pc[p] \in {"taking", "dropping"}

LockInv == TypeOK /\ TokenInv /\ HeldInv /\ ShellInv /\ DirInv /\ FleetInv
-----------------------------------------------------------------------------
(* Commands.                                                                *)

Places == {"mkdir", "write", "check", "rm", "rmdir", "done", "failed"}

\* The command of a lock: what it is, and where it stands.
LEMMA ShellFields ==
  ASSUME NEW l \in Locks, NEW job \in {"take", "drop"}, NEW at \in Places
  PROVE  LET s == Shell(job, at, l) IN
         s \in Shells /\ s.job = job /\ s.at = at /\ s.host = l.host /\ s.token = l.token
BY DEF Shell, Shells, Locks, Places

\* A shell that goes on to its next command is still about the same lock.
Moved(s, r, at) == r.job = s.job /\ r.host = s.host /\ r.token = s.token /\ r.at = at

LEMMA MovedShell ==
  ASSUME NEW s \in Shells, NEW at \in Places
  PROVE  [s EXCEPT !.at = at] \in Shells /\ Moved(s, [s EXCEPT !.at = at], at)
BY DEF Shells, Moved, Places

LEMMA InitLock == Init => LockInv
<1> SUFFICES ASSUME Init PROVE LockInv
  OBVIOUS
<1> USE LockAssumed DEF Init
<1>1. TypeOK
  BY DEF TypeOK, Phases, Nobody
<1>2. TokenInv /\ HeldInv /\ ShellInv /\ DirInv /\ FleetInv
  BY DEF TokenInv, HeldInv, ShellInv, DirInv, FleetInv, LocksOf, Taking, Hosts
<1> QED BY <1>1, <1>2 DEF LockInv
-----------------------------------------------------------------------------
(* Tokens.                                                                  *)

\* Locks and commands go, none comes.
LEMMA TokenFewer ==
  ASSUME TokenInv, issued' = issued, shells' \subseteq shells,
         \A p \in Procs : /\ (held'[p] \cup mine'[p]) \subseteq (held[p] \cup mine[p])
                          /\ held'[p] \cap mine'[p] = {}
  PROVE  TokenInv'
BY DEF TokenInv, LocksOf

\* The drop of a lock is sent: none was before.
LEMMA TokenDrop ==
  ASSUME TokenInv, issued' = issued,
         NEW q \in Procs, NEW l \in LocksOf(q), Undropped(l.token),
         NEW d, d.job = "drop", d.host = l.host, d.token = l.token,
         shells' \subseteq shells \cup {d},
         \A p \in Procs : /\ (held'[p] \cup mine'[p]) \subseteq (held[p] \cup mine[p])
                          /\ held'[p] \cap mine'[p] = {}
  PROVE  TokenInv'
BY DEF TokenInv, LocksOf, Undropped

\* A command goes on.
LEMMA TokenMove ==
  ASSUME TokenInv, UNCHANGED <<issued, held, mine>>,
         NEW s \in shells, NEW r, NEW at, Moved(s, r, at),
         shells' = (shells \ {s}) \cup {r}
  PROVE  TokenInv'
BY DEF TokenInv, LocksOf, Moved

\* A new lock, with a token nobody has seen, and its first command.
LEMMA TokenTake ==
  ASSUME TypeOK, TokenInv, issued' = issued + 1, UNCHANGED held,
         NEW q \in Procs, NEW l, l.token = issued + 1,
         mine[q] = {}, mine' = [mine EXCEPT ![q] = {l}],
         NEW s, s.job = "take", s.host = l.host, s.token = l.token,
         shells' = shells \cup {s}
  PROVE  TokenInv'
<1>1. ASSUME NEW p \in Procs
      PROVE  /\ held'[p] = held[p]
             /\ mine'[p] = IF p = q THEN {l} ELSE mine[p]
             /\ p = q => mine[p] = {}
  BY DEF TypeOK
<1>2. ASSUME NEW p \in Procs, NEW k \in held[p] \cup mine[p]
      PROVE  k.token \in Nat /\ k.token <= issued
  BY DEF TypeOK, TokenInv, LocksOf, Locks, Tokens
<1>3. ASSUME NEW r \in shells PROVE r.token \in Nat /\ r.token <= issued
  BY DEF TypeOK, TokenInv, Shells, Tokens
<1>4. issued \in Nat
  BY DEF TypeOK
<1>5. ASSUME NEW p \in Procs, NEW k \in held'[p] \cup mine'[p]
      PROVE  (k = l /\ p = q) \/ k \in held[p] \cup mine[p]
  BY <1>1
<1>6. \A p, o \in Procs : \A k \in (LocksOf(p))', m \in (LocksOf(o))' :
        k.token = m.token => p = o /\ k = m
  BY <1>2, <1>4, <1>5 DEF TokenInv, LocksOf
<1>7. \A p \in Procs : held'[p] \cap mine'[p] = {} /\ \A k \in (LocksOf(p))' : k.token <= issued'
  BY <1>1, <1>2, <1>4, <1>5 DEF TokenInv, LocksOf
<1>8. \A r \in shells' : r.token <= issued'
  BY <1>3, <1>4
<1>9. \A r, o \in shells' : r.token = o.token => r.host = o.host /\ (r.job = o.job => r = o)
  BY <1>3, <1>4 DEF TokenInv
<1>10. \A r \in shells' : \A p \in Procs : \A k \in (LocksOf(p))' :
         r.token = k.token => r.host = k.host
  BY <1>2, <1>3, <1>4, <1>5 DEF TokenInv, LocksOf
<1> QED BY <1>6, <1>7, <1>8, <1>9, <1>10 DEF TokenInv
-----------------------------------------------------------------------------
(* Held locks.                                                              *)

\* Locks and commands go, and the hosts stay as they are.
LEMMA HeldFewer ==
  ASSUME HeldInv, UNCHANGED remote, shells' \subseteq shells,
         \A p \in Procs : /\ held'[p] \subseteq held[p]
                          /\ pc'[p] = "taking" => pc[p] = "taking" /\ mine'[p] \subseteq mine[p]
  PROVE  HeldInv'
BY DEF HeldInv, Undropped, Says, Taking, remote

\* A lock is dropped: no other has its token.
LEMMA HeldDrop ==
  ASSUME HeldInv, TokenInv, UNCHANGED remote,
         NEW q \in Procs, NEW l \in LocksOf(q), l \notin held'[q], pc'[q] # "taking",
         NEW d, d.job = "drop", d.token = l.token,
         \A k \in Locks : d # Shell("take", "done", k),
         shells' \subseteq shells \cup {d}, TypeOK,
         \A p \in Procs : /\ held'[p] \subseteq held[p]
                          /\ pc'[p] = "taking" => pc[p] = "taking" /\ mine'[p] \subseteq mine[p]
  PROVE  HeldInv'
<1>1. ASSUME NEW p \in Procs, NEW k \in held'[p]
      PROVE  Says(k.host, k.token)' /\ Undropped(k.token)'
  <2>1. k \in held[p] /\ k \in LocksOf(p) /\ (p = q => k # l)
    BY <1>1 DEF LocksOf
  <2>2. k.token # l.token
    BY <2>1 DEF TokenInv
  <2> QED BY <2>1, <2>2 DEF HeldInv, Says, Undropped, remote
<1>2. ASSUME NEW p \in Procs, NEW k \in mine'[p], Taking(p)'
      PROVE  /\ Undropped(k.token)'
             /\ Shell("take", "done", k) \in shells' => Says(k.host, k.token)'
  <2>1. p # q /\ Taking(p) /\ k \in mine[p] /\ k \in LocksOf(p) /\ k \in Locks
    BY <1>2 DEF LocksOf, Taking, TypeOK
  <2>2. k.token # l.token
    BY <2>1 DEF TokenInv
  <2> QED BY <2>1, <2>2 DEF HeldInv, Says, Undropped, remote
<1> QED BY <1>1, <1>2 DEF HeldInv

\* A command goes on, and takes no directory from the lock that owns it.
LEMMA HeldMove ==
  ASSUME TypeOK, HeldInv, UNCHANGED <<held, mine, pc>>,
         NEW s \in shells, NEW r \in Shells, NEW at, Moved(s, r, at),
         shells' = (shells \ {s}) \cup {r},
         \A k \in Locks : Says(k.host, k.token) /\ Undropped(k.token)
                            => Says(k.host, k.token)',
         r.job = "take" /\ at = "done" => Says(r.host, r.token)'
  PROVE  HeldInv'
<1>1. ASSUME NEW k \in Locks, Undropped(k.token) PROVE Undropped(k.token)'
  BY <1>1 DEF Undropped, Moved
<1>2. ASSUME NEW k \in Locks, r = Shell("take", "done", k) PROVE Says(k.host, k.token)'
  BY <1>2, ShellFields DEF Moved, Places
<1>3. ASSUME NEW p \in Procs, NEW k \in held[p] \cup mine[p] PROVE k \in Locks
  BY DEF TypeOK
<1> QED BY <1>1, <1>2, <1>3 DEF HeldInv, Taking
-----------------------------------------------------------------------------
(* Commands between two steps.                                              *)

\* Commands go, or one comes that has changed nothing yet.
LEMMA ShellNew ==
  ASSUME ShellInv, UNCHANGED remote,
         \A s \in shells' : \/ s \in shells
                            \/ s.at = "mkdir" /\ s.job = "take"
                            \/ s.at = "check" /\ s.job = "drop"
  PROVE  ShellInv'
BY DEF ShellInv, Between, Says, remote

LEMMA ShellFewer ==
  ASSUME ShellInv, UNCHANGED remote, shells' \subseteq shells
  PROVE  ShellInv'
BY DEF ShellInv, Between, Says, remote
-----------------------------------------------------------------------------
(* The steps of a run.                                                      *)

\* Steps that send nothing and change nothing on the hosts.
LEMMA QuietStep ==
  ASSUME LockInv, TypeOK', UNCHANGED <<remote, issued, manual>>, shells' \subseteq shells,
         \A p \in Procs : /\ held'[p] \subseteq held[p] /\ mine'[p] \subseteq mine[p]
                          /\ pc'[p] = "taking" => pc[p] = "taking",
         FleetInv'
  PROVE  LockInv'
<1>1. TokenInv'
  <2>1. \A p \in Procs : /\ (held'[p] \cup mine'[p]) \subseteq (held[p] \cup mine[p])
                         /\ held'[p] \cap mine'[p] = {}
    BY DEF LockInv, TokenInv
  <2> QED BY <2>1, TokenFewer DEF LockInv
<1>2. HeldInv'
  BY HeldFewer DEF LockInv
<1>3. ShellInv'
  BY ShellFewer DEF LockInv
<1>4. DirInv'
  BY DEF LockInv, DirInv, Says, remote
<1> QED BY <1>1, <1>2, <1>3, <1>4 DEF LockInv

LEMMA StartDeployStep ==
  ASSUME LockInv, NEW p \in Procs, NEW f \in SUBSET Hosts, StartDeploy(p, f)
  PROVE  LockInv'
<1> USE DEF StartDeploy, Goto
<1>1. TypeOK'
  BY LockAssumed DEF LockInv, TypeOK, Phases, remote, past
<1>2. FleetInv'
  BY DEF LockInv, TypeOK, FleetInv
<1>3. \A q \in Procs : pc'[q] = "taking" => pc[q] = "taking"
  BY DEF LockInv, TypeOK
<1> QED BY <1>1, <1>2, <1>3, QuietStep DEF remote, past

LEMMA AllLockedStep ==
  ASSUME LockInv, NEW p \in Procs, AllLocked(p)
  PROVE  LockInv'
<1> USE DEF AllLocked, Goto
<1>1. TypeOK'
  BY DEF LockInv, TypeOK, Phases, remote
<1>2. FleetInv'
  BY DEF LockInv, TypeOK, FleetInv
<1>3. \A q \in Procs : pc'[q] = "taking" => pc[q] = "taking"
  BY DEF LockInv, TypeOK
<1> QED BY <1>1, <1>2, <1>3, QuietStep DEF remote

LEMMA EndWorkStep ==
  ASSUME LockInv, NEW p \in Procs, EndWork(p)
  PROVE  LockInv'
<1> USE DEF EndWork, Goto
<1>1. TypeOK'
  BY DEF LockInv, TypeOK, Phases, remote, past
<1>2. FleetInv'
  BY DEF LockInv, TypeOK, FleetInv
<1>3. \A q \in Procs : pc'[q] = "taking" => pc[q] = "taking"
  BY DEF LockInv, TypeOK
<1> QED BY <1>1, <1>2, <1>3, QuietStep DEF remote, past

LEMMA EndScriptStep ==
  ASSUME LockInv, NEW p \in Procs, EndScript(p)
  PROVE  LockInv'
<1> USE DEF EndScript, Goto
<1>1. TypeOK'
  BY DEF LockInv, TypeOK, Phases, remote, past
<1>2. FleetInv'
  BY DEF LockInv, TypeOK, FleetInv
<1>3. \A q \in Procs : pc'[q] = "taking" => pc[q] = "taking"
  BY DEF LockInv, TypeOK
<1> QED BY <1>1, <1>2, <1>3, QuietStep DEF remote, past

LEMMA ReleasedStep ==
  ASSUME LockInv, NEW p \in Procs, Released(p)
  PROVE  LockInv'
<1> USE DEF Released, Goto, Leave
<1>1. TypeOK'
  BY DEF LockInv, TypeOK, Phases, remote, past
<1>2. FleetInv'
  BY DEF LockInv, TypeOK, FleetInv
<1>3. \A q \in Procs : pc'[q] = "taking" => pc[q] = "taking"
  BY DEF LockInv, TypeOK
<1> QED BY <1>1, <1>2, <1>3, QuietStep DEF remote, past

LEMMA InterruptStep ==
  ASSUME LockInv, NEW p \in Procs, Interrupt(p)
  PROVE  LockInv'
<1> USE DEF Interrupt, Goto, Leave, Disturbed
<1>1. TypeOK'
  BY LockAssumed DEF LockInv, TypeOK, Phases, remote
<1>2. FleetInv'
  BY DEF LockInv, TypeOK, FleetInv
<1>3. \A q \in Procs : pc'[q] = "taking" => pc[q] = "taking"
  BY DEF LockInv, TypeOK
<1> QED BY <1>1, <1>2, <1>3, QuietStep DEF remote

LEMMA CrashStep ==
  ASSUME LockInv, NEW p \in Procs, Crash(p)
  PROVE  LockInv'
<1> USE DEF Crash, Goto, Leave, Disturbed
<1>1. TypeOK'
  <2>1. {l.host : l \in held[p] \cup mine[p]} \subseteq Hosts
    BY DEF LockInv, TypeOK, Locks
  <2> QED BY <2>1, LockAssumed DEF LockInv, TypeOK, Phases, remote
<1>2. FleetInv'
  BY DEF LockInv, TypeOK, FleetInv
<1>3. \A q \in Procs : /\ held'[q] \subseteq held[q] /\ mine'[q] \subseteq mine[q]
                       /\ pc'[q] = "taking" => pc[q] = "taking"
  BY DEF LockInv, TypeOK
<1> QED BY <1>1, <1>2, <1>3, QuietStep DEF remote

LEMMA DroppedStep ==
  ASSUME LockInv, NEW p \in Procs, Dropped(p)
  PROVE  LockInv'
<1> USE DEF Dropped, Resume, Goto
<1>1. shells' \subseteq shells
  BY DEF Answer
<1>2. TypeOK'
  BY <1>1 DEF LockInv, TypeOK, Phases, remote, past
<1>3. FleetInv'
  BY DEF LockInv, TypeOK, FleetInv
<1>4. \A q \in Procs : /\ mine'[q] \subseteq mine[q]
                       /\ pc'[q] = "taking" => pc[q] = "taking"
  BY DEF LockInv, TypeOK
<1> QED BY <1>1, <1>2, <1>3, <1>4, QuietStep DEF remote, past

\* A lock is dropped: the command is sent.
LEMMA DropStep ==
  ASSUME LockInv, TypeOK', UNCHANGED <<remote, issued, manual>>,
         NEW p \in Procs, NEW l \in LocksOf(p), Undropped(l.token),
         shells' \subseteq shells \cup {Shell("drop", "check", l)},
         l \notin held'[p], held'[p] \subseteq held[p], mine'[p] = {l}, pc'[p] = "dropping",
         \A q \in Procs \ {p} : held'[q] = held[q] /\ mine'[q] = mine[q] /\ pc'[q] = pc[q],
         FleetInv'
  PROVE  LockInv'
<1> DEFINE d == Shell("drop", "check", l)
<1>1. l \in Locks
  BY DEF LocksOf, LockInv, TypeOK
<1>2. d.job = "drop" /\ d.at = "check" /\ d.host = l.host /\ d.token = l.token
  BY <1>1, ShellFields DEF Places
<1>3. \A k \in Locks : d # Shell("take", "done", k)
  BY <1>2, ShellFields DEF Places
<1>4. \A q \in Procs : /\ (held'[q] \cup mine'[q]) \subseteq (held[q] \cup mine[q])
                       /\ held'[q] \cap mine'[q] = {}
                       /\ held'[q] \subseteq held[q]
                       /\ pc'[q] = "taking" => pc[q] = "taking" /\ mine'[q] \subseteq mine[q]
  <2> TAKE q \in Procs
  <2>1. CASE q = p
    BY <2>1 DEF LocksOf
  <2>2. CASE q # p
    BY <2>2 DEF LockInv, TokenInv
  <2> QED BY <2>1, <2>2
<1> HIDE DEF d
<1>5. TokenInv'
  BY <1>2, <1>4, TokenDrop DEF LockInv, d
<1>6. HeldInv'
  BY <1>2, <1>3, <1>4, HeldDrop DEF LockInv, d
<1>7. ShellInv'
  <2>1. ASSUME NEW s \in shells' PROVE s \in shells \/ (s.at = "check" /\ s.job = "drop")
    BY <1>2 DEF d
  <2> QED BY <2>1, ShellNew DEF LockInv
<1>8. DirInv'
  BY DEF LockInv, DirInv, Says, remote
<1> QED BY <1>5, <1>6, <1>7, <1>8 DEF LockInv

LEMMA ReleaseStep ==
  ASSUME LockInv, NEW p \in Procs, Release(p)
  PROVE  LockInv'
<1> USE DEF Release, DropLock, Goto
<1>1. PICK l \in ToDrop(p) : /\ DropLock(p, l, pc[p])
                             /\ shells' = shells \cup {Shell("drop", "check", l)}
                             /\ held' = [held EXCEPT ![p] = @ \ {l}]
  OBVIOUS
<1>2. l \in held[p] /\ l \in Locks /\ l \in LocksOf(p) /\ Undropped(l.token)
  BY <1>1 DEF ToDrop, LocksOf, LockInv, TypeOK, HeldInv
<1>3. Shell("drop", "check", l) \in Shells
  BY <1>2, ShellFields DEF Places
<1>4. TypeOK'
  BY <1>1, <1>2, <1>3 DEF LockInv, TypeOK, Phases, remote, past
<1>5. FleetInv'
  BY <1>1 DEF LockInv, TypeOK, FleetInv
<1>6. /\ l \notin held'[p] /\ held'[p] \subseteq held[p] /\ mine'[p] = {l}
      /\ pc'[p] = "dropping"
      /\ \A q \in Procs \ {p} : held'[q] = held[q] /\ mine'[q] = mine[q] /\ pc'[q] = pc[q]
  BY <1>1 DEF LockInv, TypeOK
<1> QED BY <1>1, <1>2, <1>4, <1>5, <1>6, DropStep DEF past

\* A lock that was being taken is dropped: refused, or given up.
LEMMA GiveBackStep ==
  ASSUME LockInv, TypeOK', UNCHANGED <<remote, issued, manual, held>>, NEW p \in Procs,
         NEW l \in mine[p], pc[p] = "taking", Leave(p),
         NEW next \in {"script", "exit"}, DropLock(p, l, next),
         shells' \subseteq shells \cup {Shell("drop", "check", l)}
  PROVE  LockInv'
<1> USE DEF DropLock, Goto, Leave
<1>1. l \in LocksOf(p) /\ Undropped(l.token)
  BY DEF LocksOf, LockInv, HeldInv, Taking
<1>2. FleetInv'
  BY DEF LockInv, TypeOK, FleetInv
<1>3. l \notin held'[p]
  BY DEF LockInv, TokenInv
<1>4. /\ mine'[p] = {l} /\ pc'[p] = "dropping"
      /\ \A q \in Procs \ {p} : mine'[q] = mine[q] /\ pc'[q] = pc[q]
  BY DEF LockInv, TypeOK
<1> QED BY <1>1, <1>2, <1>3, <1>4, DropStep

LEMMA RefuseStep ==
  ASSUME LockInv, NEW p \in Procs, Refuse(p)
  PROVE  LockInv'
<1> USE DEF Refuse
<1>1. PICK l \in mine[p] :
        /\ shells' = (shells \ {Shell("take", "failed", l)}) \cup {Shell("drop", "check", l)}
        /\ DropLock(p, l, "script")
  OBVIOUS
<1>2. l \in Locks
  BY DEF LockInv, TypeOK
<1>3. Shell("drop", "check", l) \in Shells
  BY <1>2, ShellFields DEF Places
<1>4. TypeOK'
  BY <1>1, <1>2, <1>3 DEF LockInv, TypeOK, Phases, remote, DropLock, Goto, Leave
<1> QED BY <1>1, <1>4, GiveBackStep

LEMMA GiveUpStep ==
  ASSUME LockInv, NEW p \in Procs, GiveUp(p)
  PROVE  LockInv'
<1> USE DEF GiveUp
<1>1. PICK l \in mine[p] :
        /\ Lost(l)
        /\ \/ /\ pc[p] = "taking" /\ Leave(p)
              /\ shells' = shells \cup {Shell("drop", "check", l)}
              /\ \E next \in {"script", "exit"} : DropLock(p, l, next)
           \/ /\ pc[p] = "dropping" /\ Resume(p)
              /\ UNCHANGED <<shells, fleet, want>>
  OBVIOUS
<1>2. l \in Locks /\ l.host \in Hosts
  BY DEF LockInv, TypeOK, Locks
<1>3. Shell("drop", "check", l) \in Shells
  BY <1>2, ShellFields DEF Places
<1>4. excused' \subseteq Hosts /\ faults' \in 0..MaxFaults
  BY <1>1, <1>2, LockAssumed DEF Lost, Noted, LockInv, TypeOK
<1>5. CASE pc[p] = "taking"
  <2>1. PICK next \in {"script", "exit"} : DropLock(p, l, next)
    BY <1>1, <1>5
  <2>2. Leave(p) /\ shells' = shells \cup {Shell("drop", "check", l)}
    BY <1>1, <1>5
  <2>3. TypeOK'
    BY <1>2, <1>3, <1>4, <2>1, <2>2
    DEF LockInv, TypeOK, Phases, remote, DropLock, Goto, Leave
  <2> QED BY <1>5, <2>1, <2>2, <2>3, GiveBackStep
<1>6. CASE pc[p] = "dropping"
  <2>1. Resume(p) /\ UNCHANGED <<shells, fleet, want>>
    BY <1>1, <1>6
  <2>2. TypeOK'
    BY <1>4, <2>1 DEF LockInv, TypeOK, Phases, remote, Resume, Goto
  <2>3. FleetInv'
    BY <2>1 DEF LockInv, TypeOK, FleetInv, Resume, Goto
  <2>4. \A q \in Procs : /\ mine'[q] \subseteq mine[q]
                         /\ pc'[q] = "taking" => pc[q] = "taking"
    BY <2>1 DEF LockInv, TypeOK, Resume, Goto
  <2> QED BY <2>1, <2>2, <2>3, <2>4, QuietStep
<1> QED BY <1>1, <1>5, <1>6

LEMMA TakeStep ==
  ASSUME LockInv, NEW p \in Procs, Take(p)
  PROVE  LockInv'
<1> USE DEF Take, Goto
<1>1. PICK h \in Hosts :
        LET k == [host |-> h, token |-> issued + 1]
        IN  /\ mine' = [mine EXCEPT ![p] = {k}]
            /\ shells' = shells \cup {Shell("take", "mkdir", k)}
  BY DEF LockInv, TypeOK, NextHosts
<1>2. [host |-> h, token |-> issued + 1] \in Locks
  BY DEF LockInv, TypeOK, Locks, Tokens
<1>3. PICK l \in Locks : l = [host |-> h, token |-> issued + 1] /\ l.token = issued + 1
  BY <1>2
<1>4. /\ mine' = [mine EXCEPT ![p] = {l}]
      /\ shells' = shells \cup {Shell("take", "mkdir", l)}
  BY <1>1, <1>3
<1>5. issued' = issued + 1 /\ UNCHANGED remote /\ UNCHANGED held
  OBVIOUS
<1> DEFINE d == Shell("take", "mkdir", l)
<1>6. /\ d \in Shells /\ d.job = "take" /\ d.at = "mkdir" /\ d.host = l.host
      /\ d.token = l.token
      /\ \A k \in Locks : d # Shell("take", "done", k)
  BY <1>3, ShellFields DEF Places
<1> HIDE DEF d
<1>7. shells' = shells \cup {d}
  BY <1>4 DEF d
<1>8. mine[p] = {}
  BY DEF LockInv, FleetInv
<1>9. TypeOK'
  BY <1>3, <1>4, <1>6, <1>7 DEF LockInv, TypeOK, Phases, remote, past
<1>10. TokenInv'
  <2>1. TypeOK /\ TokenInv
    BY DEF LockInv
  <2> HIDE DEF Take
  <2> QED BY <1>3, <1>4, <1>6, <1>7, <1>8, <1>5, <2>1, TokenTake
<1>11. HeldInv'
  <2>1. \A k \in Locks : Undropped(k.token) => Undropped(k.token)'
    BY <1>6, <1>7 DEF Undropped
  <2>2. Undropped(l.token)'
    BY <1>3, <1>4, <1>6, <1>7 DEF LockInv, TokenInv, TypeOK, Shells, Tokens, Undropped
  <2>3. Shell("take", "done", l) \notin shells'
    <3>1. Shell("take", "done", l) \notin shells
      BY <1>3, <1>4, ShellFields DEF LockInv, TypeOK, TokenInv, Shells, Tokens, Places
    <3> QED BY <1>6, <1>7, <3>1
  <2>4. ASSUME NEW q \in Procs, NEW k \in held'[q]
        PROVE  Says(k.host, k.token)' /\ Undropped(k.token)'
    BY <2>1, <2>4 DEF LockInv, TypeOK, HeldInv, Says, remote
  <2>5. ASSUME NEW q \in Procs, NEW k \in mine'[q], Taking(q)'
        PROVE  /\ Undropped(k.token)'
               /\ Shell("take", "done", k) \in shells' => Says(k.host, k.token)'
    <3>1. CASE q = p
      BY <1>3, <1>4, <2>2, <2>3, <3>1 DEF LockInv, TypeOK
    <3>2. CASE q # p
      <4>1. k \in mine[q] /\ k \in Locks /\ Taking(q)
        BY <1>3, <1>4, <2>5, <3>2 DEF LockInv, TypeOK, Taking
      <4> QED BY <1>6, <1>7, <2>1, <4>1 DEF LockInv, HeldInv, Says, remote
    <3> QED BY <3>1, <3>2
  <2> QED BY <2>4, <2>5 DEF HeldInv
<1>12. ShellInv'
  <2>1. ASSUME NEW s \in shells' PROVE s \in shells \/ (s.at = "mkdir" /\ s.job = "take")
    BY <1>6, <1>7
  <2> QED BY <1>5, <2>1, ShellNew DEF LockInv
<1>13. DirInv'
  BY DEF LockInv, DirInv, Says, remote, past
<1>14. FleetInv'
  BY <1>4 DEF LockInv, TypeOK, FleetInv
<1> QED BY <1>9, <1>10, <1>11, <1>12, <1>13, <1>14 DEF LockInv

LEMMA AcquiredStep ==
  ASSUME LockInv, NEW p \in Procs, Acquired(p)
  PROVE  LockInv'
<1> USE DEF Acquired, Goto
<1>1. PICK l \in mine[p] : /\ Answer(l, "take", "done")
                           /\ held' = [held EXCEPT ![p] = @ \cup {l}]
                           /\ want' = [want EXCEPT ![p] = @ \ {l.host}]
  OBVIOUS
<1>2. Shell("take", "done", l) \in shells /\ shells' \subseteq shells
  BY <1>1 DEF Answer
<1>3. l \in Locks
  BY DEF LockInv, TypeOK
<1>4. TypeOK'
  BY <1>1, <1>2, <1>3 DEF LockInv, TypeOK, Phases, remote, past
<1>5. ASSUME NEW q \in Procs
      PROVE  /\ held'[q] = IF q = p THEN held[p] \cup {l} ELSE held[q]
             /\ mine'[q] = IF q = p THEN {} ELSE mine[q]
             /\ pc'[q] = IF q = p THEN "acquire" ELSE pc[q]
  BY <1>1 DEF LockInv, TypeOK
<1>6. TokenInv'
  <2>1. \A q \in Procs : /\ (held'[q] \cup mine'[q]) \subseteq (held[q] \cup mine[q])
                         /\ held'[q] \cap mine'[q] = {}
    BY <1>5 DEF LockInv, TokenInv
  <2> QED BY <1>2, <2>1, TokenFewer DEF LockInv
<1>7. HeldInv'
  <2>1. Says(l.host, l.token) /\ Undropped(l.token)
    BY <1>2 DEF LockInv, HeldInv, Taking
  <2>2. \A k \in Locks : Undropped(k.token) => Undropped(k.token)'
    BY <1>2 DEF Undropped
  <2>3. ASSUME NEW q \in Procs, NEW k \in held'[q]
        PROVE  Says(k.host, k.token)' /\ Undropped(k.token)'
    <3>1. k \in held[q] \/ k = l
      BY <1>5, <2>3
    <3>2. k \in Locks /\ Says(k.host, k.token) /\ Undropped(k.token)
      BY <1>3, <2>1, <3>1 DEF LockInv, HeldInv, TypeOK
    <3> QED BY <2>2, <3>2 DEF Says, remote
  <2>4. ASSUME NEW q \in Procs, NEW k \in mine'[q], Taking(q)'
        PROVE  /\ Undropped(k.token)'
               /\ Shell("take", "done", k) \in shells' => Says(k.host, k.token)'
    <3>1. q # p /\ k \in mine[q] /\ Taking(q) /\ k \in Locks
      BY <1>5, <2>4 DEF LockInv, TypeOK, Taking
    <3> QED BY <1>2, <2>2, <3>1 DEF LockInv, HeldInv, Says, remote
  <2> QED BY <2>3, <2>4 DEF HeldInv
<1>8. ShellInv'
  BY <1>2, ShellFewer DEF LockInv
<1>9. DirInv'
  BY DEF LockInv, DirInv, Says, remote, past
<1>10. FleetInv'
  BY <1>1, <1>3 DEF LockInv, TypeOK, FleetInv
<1> QED BY <1>4, <1>6, <1>7, <1>8, <1>9, <1>10 DEF LockInv
-----------------------------------------------------------------------------
(* The steps of a command.                                                  *)

\* A command goes on: it is still about the same lock.
LEMMA NextShell ==
  ASSUME TypeOK, NEW s \in shells, NEW at \in Places, At(s, at)
  PROVE  \E r \in Shells : Moved(s, r, at) /\ shells' = (shells \ {s}) \cup {r}
BY MovedShell DEF At, TypeOK

\* What a step of a command must show, besides that it is one.
LEMMA ShellStep ==
  ASSUME LockInv, TypeOK', UNCHANGED <<issued, run, manual>>,
         NEW s \in shells, NEW at \in Places, At(s, at),
         \A k \in Locks : Says(k.host, k.token) /\ Undropped(k.token)
                            => Says(k.host, k.token)',
         s.job = "take" /\ at = "done" => Says(s.host, s.token)',
         ShellInv', DirInv'
  PROVE  LockInv'
<1>1. PICK r \in Shells : Moved(s, r, at) /\ shells' = (shells \ {s}) \cup {r}
  BY NextShell DEF LockInv
<1>2. TokenInv'
  BY <1>1, TokenMove DEF LockInv, run
<1>3. r.job = "take" /\ at = "done" => Says(r.host, r.token)'
  BY <1>1 DEF Moved
<1>4. HeldInv'
  BY <1>1, <1>3, HeldMove DEF LockInv, run
<1>5. FleetInv'
  BY DEF LockInv, FleetInv, run
<1> QED BY <1>2, <1>4, <1>5 DEF LockInv

\* A command goes on, and changes nothing on the host.
LEMMA ShellIdles ==
  ASSUME LockInv, TypeOK', UNCHANGED <<remote, issued, run, manual>>,
         NEW s \in shells, NEW at \in Places \ {"mkdir", "write", "check", "rmdir"}, At(s, at),
         at = "rm" => Says(s.host, s.token) /\ s.job = "drop",
         at = "done" => s.job = "drop"
  PROVE  LockInv'
<1>1. PICK r \in Shells : Moved(s, r, at) /\ shells' = (shells \ {s}) \cup {r}
  BY NextShell DEF LockInv
<1>2. ShellInv'
  BY <1>1 DEF LockInv, ShellInv, Between, Moved, Says, remote
<1>3. DirInv'
  BY DEF LockInv, DirInv, Says, remote
<1> QED BY <1>2, <1>3, ShellStep DEF Says, remote

LEMMA MkdirStep ==
  ASSUME LockInv, NEW s \in shells, Mkdir(s)
  PROVE  LockInv'
<1> USE DEF Mkdir, MkDir
<1>1. s \in Shells /\ s.job = "take" /\ s.host \in Hosts
  BY DEF LockInv, TypeOK, ShellInv, Shells
<1>2. CASE s.host \notin made /\ made' = made \cup {s.host} /\ At(s, "write")
  <2>1. PICK r \in Shells : Moved(s, r, "write") /\ shells' = (shells \ {s}) \cup {r}
    BY <1>2, NextShell DEF LockInv, Places
  <2>2. TypeOK'
    BY <1>1, <1>2, <2>1 DEF LockInv, TypeOK, run, past
  <2>3. Says(s.host, Nobody)' /\ \A h, t : Says(h, t) => h # s.host /\ Says(h, t)'
    BY <1>1, <1>2 DEF LockInv, DirInv, Says
  <2>4. ShellInv'
    BY <1>1, <2>1, <2>3 DEF LockInv, ShellInv, Between, Moved
  <2>5. DirInv'
    BY <1>2, <2>3 DEF LockInv, DirInv
  <2> QED BY <1>2, <2>2, <2>3, <2>4, <2>5, ShellStep DEF Places
<1>3. CASE s.host \in made /\ At(s, "failed") /\ UNCHANGED made
  <2>1. PICK r \in Shells : Moved(s, r, "failed") /\ shells' = (shells \ {s}) \cup {r}
    BY <1>3, NextShell DEF LockInv, Places
  <2>2. TypeOK'
    BY <1>1, <1>3, <2>1 DEF LockInv, TypeOK, run, past
  <2> QED BY <1>3, <2>2, ShellIdles DEF Places, remote
<1> QED BY <1>2, <1>3

LEMMA WriteHolderStep ==
  ASSUME LockInv, NEW s \in shells, WriteHolder(s)
  PROVE  LockInv'
<1> USE DEF WriteHolder
<1>1. s \in Shells /\ s.job = "take" /\ s.host \in Hosts /\ s.token \in Tokens
  BY DEF LockInv, TypeOK, ShellInv, Shells
<1>2. CASE /\ s.host \in made
           /\ holder' = [holder EXCEPT ![s.host] = s.token] /\ At(s, "done")
           /\ UNCHANGED <<excused, faults>>
  <2>1. PICK r \in Shells : Moved(s, r, "done") /\ shells' = (shells \ {s}) \cup {r}
    BY <1>2, NextShell DEF LockInv, Places
  <2>2. TypeOK'
    BY <1>1, <1>2, <2>1 DEF LockInv, TypeOK, run, Tokens
  <2>3. Says(s.host, Nobody) /\ Says(s.host, s.token)'
    BY <1>1, <1>2 DEF LockInv, TypeOK, ShellInv, Between, Says
  <2>4. ASSUME NEW h, NEW t, Says(h, t), h # s.host PROVE Says(h, t)'
    BY <1>1, <1>2, <2>4 DEF LockInv, TypeOK, Says
  <2>5. \A k \in Locks : Says(k.host, k.token) => k.host # s.host
    BY <2>3 DEF Says, Locks, Tokens, Nobody
  <2>6. \A x \in shells : Between(x) /\ x # s => x.host # s.host
    BY DEF LockInv, ShellInv, Between
  <2>7. \A x \in shells : x.at = "rm" => x.host # s.host
    BY <2>3 DEF LockInv, TypeOK, ShellInv, Says, Shells, Tokens, Nobody
  <2>8. ShellInv'
    BY <1>1, <2>1, <2>4, <2>6, <2>7 DEF LockInv, ShellInv, Between, Moved
  <2>9. DirInv'
    <3>1. \A h \in manual : h # s.host
      BY <2>3, LockAssumed DEF LockInv, DirInv, Says, Nobody
    <3>2. \A h \in Hosts \ made : h # s.host /\ holder'[h] = holder[h]
      BY <1>2 DEF LockInv, TypeOK
    <3> QED BY <2>4, <3>1, <3>2 DEF LockInv, DirInv
  <2> QED BY <1>2, <2>2, <2>3, <2>4, <2>5, <2>8, <2>9, ShellStep DEF Places
<1>3. CASE /\ excused' = excused \cup {s.host} /\ Noted
           /\ At(s, "failed") /\ UNCHANGED holder
  <2>1. PICK r \in Shells : Moved(s, r, "failed") /\ shells' = (shells \ {s}) \cup {r}
    BY <1>3, NextShell DEF LockInv, Places
  <2>2. TypeOK'
    BY <1>1, <1>3, <2>1, LockAssumed DEF LockInv, TypeOK, run, Noted
  <2> QED BY <1>3, <2>2, ShellIdles DEF Places, remote
<1> QED BY <1>2, <1>3

LEMMA CheckHolderStep ==
  ASSUME LockInv, NEW s \in shells, CheckHolder(s)
  PROVE  LockInv'
<1> USE DEF CheckHolder
<1>1. s.job = "drop"
  BY DEF LockInv, ShellInv
<1>2. PICK at \in {"rm", "done"} : At(s, at) /\ (at = "rm" => Owns(s))
  OBVIOUS
<1>3. PICK r \in Shells : Moved(s, r, at) /\ shells' = (shells \ {s}) \cup {r}
  BY <1>2, NextShell DEF LockInv, Places
<1>4. TypeOK'
  BY <1>3 DEF LockInv, TypeOK, run, past, remote
<1> QED BY <1>1, <1>2, <1>4, ShellIdles DEF Places, Owns, Says

\* The holder file goes: no lock that is held had it.
LEMMA RmHolderStep ==
  ASSUME LockInv, NEW s \in shells, RmHolder(s)
  PROVE  LockInv'
<1> USE DEF RmHolder
<1>1. s \in Shells /\ s.job = "drop" /\ s.host \in Hosts /\ s.token \in Tokens
  BY DEF LockInv, TypeOK, ShellInv, Shells
<1>2. PICK r \in Shells : Moved(s, r, "rmdir") /\ shells' = (shells \ {s}) \cup {r}
  BY NextShell DEF LockInv, Places
<1>3. TypeOK'
  BY <1>1, <1>2 DEF LockInv, TypeOK, run, past, Nobody
<1>4. Says(s.host, s.token) /\ Says(s.host, Nobody)'
  BY <1>1 DEF LockInv, TypeOK, ShellInv, Says
<1>5. ASSUME NEW h, NEW t, Says(h, t), h # s.host PROVE Says(h, t)'
  BY <1>5 DEF LockInv, TypeOK, Says
<1>6. \A k \in Locks : Says(k.host, k.token) /\ Undropped(k.token) => k.host # s.host
  BY <1>1, <1>4 DEF Says, Undropped
<1>7. \A x \in shells : Between(x) => x.host # s.host
  BY <1>1, <1>4 DEF LockInv, ShellInv, Says, Tokens, Nobody
<1>8. \A x \in shells : x.at = "rm" /\ x # s => x.host # s.host
  BY <1>1, <1>4 DEF LockInv, ShellInv, TokenInv, Says
<1>9. ShellInv'
  BY <1>1, <1>2, <1>4, <1>5, <1>7, <1>8 DEF LockInv, ShellInv, Between, Moved
<1>10. DirInv'
  <2>1. \A h \in manual : h # s.host
    BY <1>1, <1>4, LockAssumed DEF LockInv, DirInv, Says, Tokens
  <2>2. \A h \in Hosts \ made : h # s.host /\ holder'[h] = holder[h]
    BY <1>4 DEF LockInv, TypeOK, Says
  <2> QED BY <1>5, <2>1, <2>2 DEF LockInv, DirInv
<1> QED BY <1>1, <1>3, <1>4, <1>5, <1>6, <1>9, <1>10, ShellStep DEF Places

LEMMA RmdirStep ==
  ASSUME LockInv, NEW s \in shells, Rmdir(s)
  PROVE  LockInv'
<1> USE DEF Rmdir, RmDir
<1>1. s \in Shells /\ s.job = "drop" /\ s.host \in Hosts
  BY DEF LockInv, TypeOK, ShellInv, Shells
<1>2. CASE Empty(s.host) /\ made' = made \ {s.host} /\ At(s, "done")
  <2>1. PICK r \in Shells : Moved(s, r, "done") /\ shells' = (shells \ {s}) \cup {r}
    BY <1>2, NextShell DEF LockInv, Places
  <2>2. TypeOK'
    BY <1>1, <1>2, <2>1 DEF LockInv, TypeOK, run, past
  <2>3. Says(s.host, Nobody)
    BY DEF LockInv, ShellInv, Between
  <2>4. ASSUME NEW h, NEW t, Says(h, t), h # s.host PROVE Says(h, t)'
    BY <1>2, <2>4 DEF Says
  <2>5. \A k \in Locks : Says(k.host, k.token) => k.host # s.host
    BY <2>3 DEF Says, Locks, Tokens, Nobody
  <2>6. \A x \in shells : Between(x) /\ x # s => x.host # s.host
    BY DEF LockInv, ShellInv, Between
  <2>7. \A x \in shells : x.at = "rm" => x.host # s.host
    BY <2>3 DEF LockInv, TypeOK, ShellInv, Says, Shells, Tokens, Nobody
  <2>8. ShellInv'
    BY <1>1, <2>1, <2>4, <2>6, <2>7 DEF LockInv, ShellInv, Between, Moved
  <2>9. DirInv'
    <3>1. \A h \in manual : h # s.host
      BY <2>3, LockAssumed DEF LockInv, DirInv, Says, Nobody
    <3>2. \A h \in Hosts \ made' : holder'[h] = Nobody
      BY <1>2, <2>3 DEF LockInv, DirInv, Says
    <3> QED BY <2>4, <3>1, <3>2 DEF LockInv, DirInv
  <2> QED BY <1>1, <1>2, <2>2, <2>4, <2>5, <2>8, <2>9, ShellStep DEF Places
<1>3. CASE ~Empty(s.host) /\ At(s, "failed") /\ UNCHANGED made
  <2>1. PICK r \in Shells : Moved(s, r, "failed") /\ shells' = (shells \ {s}) \cup {r}
    BY <1>3, NextShell DEF LockInv, Places
  <2>2. TypeOK'
    BY <1>1, <1>3, <2>1 DEF LockInv, TypeOK, run, past
  <2> QED BY <1>3, <2>2, ShellIdles DEF Places, remote
<1> QED BY <1>2, <1>3

LEMMA VanishStep ==
  ASSUME LockInv, NEW s \in shells, Vanish(s)
  PROVE  LockInv'
<1>1. TypeOK'
  BY DEF LockInv, TypeOK, Vanish, run, past, remote
<1>2. FleetInv'
  BY DEF LockInv, FleetInv, Vanish, run
<1>3. /\ UNCHANGED <<remote, issued, manual, held, mine, pc>>
      /\ shells' \subseteq shells
  BY DEF Vanish, run
<1> QED BY <1>1, <1>2, <1>3, QuietStep
-----------------------------------------------------------------------------
(* The operator's steps.                                                    *)

LEMMA ManualAcquireStep ==
  ASSUME LockInv, NEW h \in Hosts, ManualAcquire(h)
  PROVE  LockInv'
<1> USE DEF ManualAcquire, Disturbed
<1>1. TypeOK'
  BY LockAssumed DEF LockInv, TypeOK, run
<1>2. Says(h, Operator)'
  BY DEF LockInv, TypeOK, Says
<1>3. ASSUME NEW g, NEW t, Says(g, t) PROVE g # h /\ Says(g, t)'
  BY <1>3 DEF LockInv, TypeOK, Says
<1>4. TokenInv'
  BY DEF LockInv, TokenInv, LocksOf, run
<1>5. HeldInv'
  BY <1>3 DEF LockInv, HeldInv, Undropped, Taking, run
<1>6. ShellInv'
  BY <1>3 DEF LockInv, ShellInv, Between
<1>7. DirInv'
  <2>1. \A g \in Hosts \ made' : holder'[g] = Nobody
    BY DEF LockInv, TypeOK, DirInv
  <2> QED BY <1>2, <1>3, <2>1 DEF LockInv, DirInv
<1>8. FleetInv'
  BY DEF LockInv, FleetInv, run
<1> QED BY <1>1, <1>4, <1>5, <1>6, <1>7, <1>8 DEF LockInv

LEMMA ForceReleaseStep ==
  ASSUME LockInv, NEW h \in Hosts, ForceRelease(h)
  PROVE  LockInv'
<1> USE DEF ForceRelease, Disturbed
<1>1. /\ \A p \in Procs : pc[p] # "taking" /\ held[p] = {}
      /\ \A s \in shells : s.host # h
  BY DEF Quiet
<1>2. TypeOK'
  BY LockAssumed DEF LockInv, TypeOK, run, Nobody
<1>3. ASSUME NEW g, NEW t, Says(g, t), g # h PROVE Says(g, t)'
  BY <1>3 DEF LockInv, TypeOK, Says
<1>4. TokenInv'
  BY DEF LockInv, TokenInv, LocksOf, run
<1>5. HeldInv'
  BY <1>1 DEF LockInv, HeldInv, Taking, run
<1>6. ShellInv'
  BY <1>1, <1>3 DEF LockInv, ShellInv, Between
<1>7. DirInv'
  <2>1. \A g \in Hosts \ made' : holder'[g] = Nobody
    BY DEF LockInv, TypeOK, DirInv
  <2> QED BY <1>3, <2>1 DEF LockInv, DirInv
<1>8. FleetInv'
  BY DEF LockInv, FleetInv, run
<1> QED BY <1>2, <1>4, <1>5, <1>6, <1>7, <1>8 DEF LockInv

LEMMA StepLock == LockInv /\ [Next]_vars => LockInv'
<1> SUFFICES ASSUME LockInv, [Next]_vars PROVE LockInv'
  OBVIOUS
<1>1. CASE UNCHANGED vars
  <2>1. TypeOK'
    BY <1>1 DEF LockInv, TypeOK, vars, remote, run, past
  <2>2. FleetInv'
    BY <1>1 DEF LockInv, FleetInv, vars, run
  <2> QED BY <1>1, <2>1, <2>2, QuietStep DEF vars, run
<1>2. ASSUME NEW p \in Procs, Step(p) \/ Interrupt(p) \/ Crash(p) PROVE LockInv'
  BY <1>2, TakeStep, AcquiredStep, RefuseStep, DroppedStep, GiveUpStep, AllLockedStep,
     EndWorkStep, ReleaseStep, ReleasedStep, EndScriptStep, InterruptStep, CrashStep
  DEF Step
<1>3. ASSUME NEW p \in Procs, NEW f \in SUBSET Hosts \ {{}}, StartDeploy(p, f) PROVE LockInv'
  BY <1>3, StartDeployStep
<1>4. ASSUME NEW s \in shells,
             Mkdir(s) \/ WriteHolder(s) \/ CheckHolder(s) \/ RmHolder(s) \/ Rmdir(s) \/ Vanish(s)
      PROVE  LockInv'
  BY <1>4, MkdirStep, WriteHolderStep, CheckHolderStep, RmHolderStep, RmdirStep, VanishStep
<1>5. ASSUME NEW h \in Hosts, ManualAcquire(h) \/ ForceRelease(h) PROVE LockInv'
  BY <1>5, ManualAcquireStep, ForceReleaseStep
<1> QED BY <1>1, <1>2, <1>3, <1>4, <1>5 DEF Next
-----------------------------------------------------------------------------
(* The theorems.                                                            *)

\* Two runs that both hold a lock of a host are one run; no operator holds it.
LEMMA LockExcludes ==
  ASSUME LockInv, NEW p \in Procs, NEW q \in Procs, NEW l \in held[p], NEW k \in held[q]
  PROVE  l.host \notin manual /\ (l.host = k.host => p = q)
<1>1. l \in Locks /\ l \in LocksOf(p) /\ k \in LocksOf(q) /\ l.token \in Nat
  BY DEF LockInv, TypeOK, LocksOf, Locks, Tokens
<1>2. Says(l.host, l.token) /\ Says(k.host, k.token)
  BY DEF LockInv, HeldInv
<1>3. l.host \notin manual
  BY <1>1, <1>2, LockAssumed DEF LockInv, DirInv, Says
<1>4. ASSUME l.host = k.host PROVE p = q
  <2>1. l.token = k.token
    BY <1>2, <1>4 DEF Says
  <2> QED BY <1>1, <2>1 DEF LockInv, TokenInv
<1> QED BY <1>3, <1>4

LEMMA LockInvExcludes == LockInv => MutualExclusion
<1> SUFFICES ASSUME LockInv PROVE MutualExclusion
  OBVIOUS
<1>1. ASSUME NEW p \in Procs, pc[p] = "work", NEW h \in fleet[p]
      PROVE  \E l \in held[p] : l.host = h
  BY <1>1 DEF LockInv, FleetInv
<1>2. ASSUME NEW p \in Procs, pc[p] = "work" PROVE fleet[p] \cap manual = {}
  BY <1>1, <1>2, LockExcludes
<1>3. ASSUME NEW p \in Procs, pc[p] = "work", NEW q \in Procs \ {p}, pc[q] = "work"
      PROVE  fleet[p] \cap fleet[q] = {}
  BY <1>1, <1>3, LockExcludes
<1> QED BY <1>2, <1>3 DEF MutualExclusion

\* The inductive invariant: in every reachable state each token names one lock
\* and one take and drop command, a held lock owns its directory, and no other
\* command is half way through creating or removing that directory.
THEOREM LockInvariance == Spec => []LockInv
BY InitLock, StepLock, PTL DEF Spec

\* Runs, locks and commands stay within their ranges.
THEOREM TypeCorrect == Spec => []TypeOK
<1>1. LockInv => TypeOK
  BY DEF LockInv
<1> QED BY <1>1, LockInvariance, PTL

\* Two deploys never work on a common host, nor a deploy on a host an operator
\* has locked, with any number of hosts, runs, crashes and lost answers, in any
\* order of the commands left behind on the hosts.
THEOREM DeploysExclude == Spec => []MutualExclusion
BY LockInvariance, LockInvExcludes, PTL
-----------------------------------------------------------------------------
(* No directory is left without a run that answers for it.                  *)

\* A directory is of a lock whose token it holds, or whose command is half way.
Owner(h, l) == l.host = h /\ (Says(h, l.token) \/ \E s \in shells : Between(s) /\ s.token = l.token)
OwnedInv ==
  \A h \in made \ (manual \cup excused) : \E p \in Procs : \E l \in LocksOf(p) : Owner(h, l)

\* Where nothing was lost every command is awaited, and one that ended as failed
\* or was a drop has left no directory of its lock.
WaitInv == \A s \in shells : s.host \notin excused => Awaited(s)
Ended(s) == s.at = "failed" \/ (s.at = "done" /\ s.job = "drop")
GoneInv == \A s \in shells : s.host \notin excused /\ Ended(s) => ~Says(s.host, s.token)

\* No directory holds the token of a lock that is still to be taken.
KnownInv ==
  /\ \A s \in shells : s.at = "mkdir" => ~Says(s.host, s.token)
  /\ \A h \in Hosts : holder[h] \in Nat => holder[h] <= issued

\* A run waits for one command at a time.
AloneInv == \A p \in Procs : \A l, k \in mine[p] : l = k

OrphanInv == OwnedInv /\ WaitInv /\ GoneInv /\ KnownInv /\ AloneInv

LEMMA InitOrphan == Init => OrphanInv
BY DEF Init, OrphanInv, OwnedInv, WaitInv, GoneInv, KnownInv, AloneInv, Nobody

\* The command a run waits for is the only one of its kind for its lock.
LEMMA AwaitedOnce ==
  ASSUME LockInv, NEW p \in Procs, NEW l \in mine[p], NEW s \in shells, s.token = l.token
  PROVE  s.host = l.host /\ l \in LocksOf(p) /\ l \in Locks /\ s \in Shells
BY DEF LockInv, TokenInv, TypeOK, LocksOf

\* A step that touches neither the commands nor the locks.
LEMMA OrphanQuiet ==
  ASSUME OrphanInv, UNCHANGED <<remote, issued, shells, manual, excused, held, mine>>,
         \A p \in Procs : pc'[p] = "taking" <=> pc[p] = "taking"
  PROVE  OrphanInv'
<1>1. \A s \in shells : Awaited(s)' <=> Awaited(s)
  BY DEF Awaited
<1>2. WaitInv'
  BY <1>1 DEF OrphanInv, WaitInv
<1>3. OwnedInv'
  BY DEF OrphanInv, OwnedInv, Owner, LocksOf, Says, Between, remote
<1>4. GoneInv' /\ KnownInv' /\ AloneInv'
  BY DEF OrphanInv, GoneInv, KnownInv, AloneInv, Ended, Says, remote
<1> QED BY <1>2, <1>3, <1>4 DEF OrphanInv

LEMMA QuietOrphan ==
  ASSUME LockInv, OrphanInv, NEW p \in Procs,
         \/ AllLocked(p) \/ EndWork(p) \/ EndScript(p) \/ Released(p) \/ Interrupt(p)
         \/ \E f \in SUBSET Hosts : StartDeploy(p, f)
  PROVE  OrphanInv'
<1>1. pc \in [Procs -> Phases]
  BY DEF LockInv, TypeOK
<1>2. /\ UNCHANGED <<remote, issued, shells, manual, excused, held, mine>>
      /\ pc' = pc \/ \E x \in Phases \ {"taking"} : pc[p] # "taking" /\ pc' = [pc EXCEPT ![p] = x]
  <2>1. CASE AllLocked(p) \/ EndWork(p) \/ EndScript(p)
    BY <2>1 DEF AllLocked, EndWork, EndScript, Goto, Phases, past
  <2>2. CASE Released(p)
    BY <2>2 DEF Released, Goto, Phases, past
  <2>3. CASE Interrupt(p)
    BY <2>3 DEF Interrupt, Goto, Phases
  <2>4. CASE \E f \in SUBSET Hosts : StartDeploy(p, f)
    BY <2>4 DEF StartDeploy, Goto, Phases, past
  <2> QED BY <2>1, <2>2, <2>3, <2>4
<1>3. \A q \in Procs : pc'[q] = "taking" <=> pc[q] = "taking"
  BY <1>1, <1>2
<1> QED BY <1>2, <1>3, OrphanQuiet

\* What a run that gives up its locks or forgets them need not answer for.
LEMMA WaitOther ==
  ASSUME LockInv, WaitInv, NEW p \in Procs, NEW s \in shells, s.host \notin excused,
         \A l \in mine[p] : s.token # l.token,
         \A q \in Procs \ {p} : mine'[q] = mine[q] /\ pc'[q] = pc[q]
  PROVE  Awaited(s)'
<1>1. PICK q \in Procs : \E l \in mine[q] :
        s.token = l.token /\ s.job = IF pc[q] = "taking" THEN "take" ELSE "drop"
  BY DEF WaitInv, Awaited
<1>2. q # p
  BY <1>1
<1> QED BY <1>1, <1>2 DEF Awaited

LEMMA TakeOrphan ==
  ASSUME LockInv, OrphanInv, NEW p \in Procs, Take(p)
  PROVE  OrphanInv'
<1>1. PICK h \in Hosts :
        LET k == [host |-> h, token |-> issued + 1]
        IN  /\ mine' = [mine EXCEPT ![p] = {k}]
            /\ shells' = shells \cup {Shell("take", "mkdir", k)}
  BY DEF Take, LockInv, TypeOK, NextHosts
<1>2. PICK l \in Locks : /\ l.token = issued + 1 /\ mine' = [mine EXCEPT ![p] = {l}]
                         /\ shells' = shells \cup {Shell("take", "mkdir", l)}
  <2>1. [host |-> h, token |-> issued + 1] \in Locks
    BY DEF LockInv, TypeOK, Locks, Tokens
  <2> QED BY <1>1, <2>1
<1> DEFINE d == Shell("take", "mkdir", l)
<1>3. d.job = "take" /\ d.at = "mkdir" /\ d.host = l.host /\ d.token = issued + 1
  BY <1>2, ShellFields DEF Places
<1> HIDE DEF d
<1>4. /\ shells' = shells \cup {d} /\ issued \in Nat /\ issued' = issued + 1
      /\ mine[p] = {} /\ mine'[p] = {l} /\ pc'[p] = "taking"
      /\ \A q \in Procs \ {p} : mine'[q] = mine[q] /\ pc'[q] = pc[q]
      /\ UNCHANGED <<made, holder, held, manual, excused>>
  BY <1>2 DEF Take, Goto, LockInv, TypeOK, FleetInv, remote, past, d
<1>5. WaitInv'
  <2>1. Awaited(d)'
    BY <1>2, <1>3, <1>4 DEF Awaited
  <2>2. ASSUME NEW s \in shells, s.host \notin excused PROVE Awaited(s)'
    BY <1>4, <2>2, WaitOther DEF OrphanInv
  <2> QED BY <1>4, <2>1, <2>2 DEF WaitInv
<1>6. OwnedInv'
  <2>1. \A q \in Procs : LocksOf(q) \subseteq (LocksOf(q))'
    BY <1>4 DEF LocksOf
  <2>2. \A h2, k : Owner(h2, k) => Owner(h2, k)'
    BY <1>4 DEF Owner, Says
  <2> QED BY <1>4, <2>1, <2>2 DEF OrphanInv, OwnedInv
<1>7. GoneInv'
  BY <1>3, <1>4 DEF OrphanInv, GoneInv, Ended, Says
<1>8. KnownInv'
  <2>1. ~Says(d.host, d.token)
    <3>1. l.host \in Hosts
      BY DEF Locks
    <3> QED BY <1>3, <1>4, <3>1 DEF OrphanInv, KnownInv, Says
  <2>2. \A s \in shells' : s.at = "mkdir" => ~Says(s.host, s.token)'
    BY <1>4, <2>1 DEF OrphanInv, KnownInv, Says
  <2> QED BY <1>4, <2>2 DEF OrphanInv, KnownInv
<1>9. AloneInv'
  BY <1>4 DEF OrphanInv, AloneInv
<1> QED BY <1>5, <1>6, <1>7, <1>8, <1>9 DEF OrphanInv

LEMMA AcquiredOrphan ==
  ASSUME LockInv, OrphanInv, NEW p \in Procs, Acquired(p)
  PROVE  OrphanInv'
<1>1. PICK l \in mine[p] : Answer(l, "take", "done") /\ held' = [held EXCEPT ![p] = @ \cup {l}]
  BY DEF Acquired
<1> DEFINE d == Shell("take", "done", l)
<1>2. l \in Locks /\ mine[p] \subseteq Locks
  BY DEF LockInv, TypeOK
<1>3. d.job = "take" /\ d.at = "done" /\ d.token = l.token
  BY <1>2, ShellFields DEF Places
<1>4. d \in shells /\ shells' = shells \ {d}
  BY <1>1 DEF Answer
<1> HIDE DEF d
<1>5. /\ pc[p] = "taking" /\ mine'[p] = {} /\ held'[p] = held[p] \cup {l}
      /\ \A q \in Procs \ {p} : mine'[q] = mine[q] /\ pc'[q] = pc[q] /\ held'[q] = held[q]
      /\ UNCHANGED <<made, holder, issued, manual, excused>>
  BY <1>1 DEF Acquired, Goto, LockInv, TypeOK, remote, past
<1>6. \A k \in mine[p] : k = l
  BY DEF OrphanInv, AloneInv
<1>7. WaitInv'
  <2> SUFFICES ASSUME NEW s \in shells, s # d, s.host \notin excused PROVE Awaited(s)'
    BY <1>4, <1>5 DEF WaitInv
  <2>1. PICK q \in Procs : \E k \in mine[q] :
          s.token = k.token /\ s.job = IF pc[q] = "taking" THEN "take" ELSE "drop"
    BY DEF OrphanInv, WaitInv, Awaited
  <2>2. CASE q = p
    BY <1>3, <1>4, <1>5, <1>6, <2>1, <2>2 DEF LockInv, TokenInv
  <2>3. CASE q # p
    BY <1>5, <2>1, <2>3 DEF Awaited
  <2> QED BY <2>2, <2>3
<1>8. OwnedInv'
  <2>1. \A q \in Procs : LocksOf(q) \subseteq (LocksOf(q))'
    BY <1>5, <1>6 DEF LocksOf
  <2>2. \A h, k : Owner(h, k) => Owner(h, k)'
    BY <1>3, <1>4, <1>5 DEF Owner, Says, Between
  <2> QED BY <1>5, <2>1, <2>2 DEF OrphanInv, OwnedInv
<1>9. GoneInv' /\ KnownInv'
  BY <1>4, <1>5 DEF OrphanInv, GoneInv, KnownInv, Ended, Says
<1>10. AloneInv'
  BY <1>5 DEF OrphanInv, AloneInv
<1> QED BY <1>7, <1>8, <1>9, <1>10 DEF OrphanInv

\* A lock is dropped: it still answers for its directory until the drop is over.
LEMMA DropOrphan ==
  ASSUME LockInv, OrphanInv, UNCHANGED <<remote, issued, manual>>, excused \subseteq excused',
         NEW p \in Procs, NEW l \in LocksOf(p), \A k \in mine[p] : k = l,
         mine'[p] = {l}, held'[p] = held[p] \ {l}, pc'[p] = "dropping",
         \A q \in Procs \ {p} : held'[q] = held[q] /\ mine'[q] = mine[q] /\ pc'[q] = pc[q],
         NEW gone \in SUBSET shells, \A s \in gone : ~Between(s),
         shells' = (shells \ gone) \cup {Shell("drop", "check", l)},
         \A s \in shells \ gone : s.token = l.token => s.host \in excused'
  PROVE  OrphanInv'
<1> DEFINE d == Shell("drop", "check", l)
<1>1. l \in Locks
  BY DEF LockInv, TypeOK, LocksOf
<1>2. d.job = "drop" /\ d.at = "check" /\ d.token = l.token
  BY <1>1, ShellFields DEF Places
<1> HIDE DEF d
<1>3. shells' = (shells \ gone) \cup {d}
  BY DEF d
<1>4. WaitInv'
  <2>1. Awaited(d)'
    BY <1>2 DEF Awaited
  <2>2. ASSUME NEW s \in shells \ gone, s.host \notin excused' PROVE Awaited(s)'
    <3>1. s.host \notin excused /\ \A k \in mine[p] : s.token # k.token
      BY <2>2
    <3> QED BY <3>1, WaitOther DEF OrphanInv
  <2> QED BY <1>3, <2>1, <2>2 DEF WaitInv
<1>5. OwnedInv'
  <2>1. \A q \in Procs : LocksOf(q) \subseteq (LocksOf(q))'
    BY DEF LocksOf
  <2>2. \A h, k : Owner(h, k) => Owner(h, k)'
    BY <1>3 DEF Owner, Says, remote
  <2>3. made' \ (manual' \cup excused') \subseteq made \ (manual \cup excused)
    BY DEF remote
  <2> QED BY <2>1, <2>2, <2>3 DEF OrphanInv, OwnedInv
<1>6. GoneInv' /\ KnownInv'
  BY <1>2, <1>3 DEF OrphanInv, GoneInv, KnownInv, Ended, Says, remote
<1>7. AloneInv'
  BY DEF OrphanInv, AloneInv
<1> QED BY <1>4, <1>5, <1>6, <1>7 DEF OrphanInv

LEMMA RefuseOrphan ==
  ASSUME LockInv, OrphanInv, NEW p \in Procs, Refuse(p)
  PROVE  OrphanInv'
<1>1. PICK l \in mine[p] :
        /\ Shell("take", "failed", l) \in shells
        /\ shells' = (shells \ {Shell("take", "failed", l)}) \cup {Shell("drop", "check", l)}
        /\ DropLock(p, l, "script")
  BY DEF Refuse
<1> DEFINE d == Shell("take", "failed", l)
<1>2. /\ l \in Locks /\ l \in LocksOf(p) /\ \A k \in mine[p] : k = l
      /\ held[p] \ {l} = held[p]
  BY DEF LockInv, TypeOK, LocksOf, TokenInv, OrphanInv, AloneInv
<1>3. d.job = "take" /\ d.at = "failed" /\ d.token = l.token
  BY <1>2, ShellFields DEF Places
<1>4. /\ pc[p] = "taking" /\ mine'[p] = {l} /\ pc'[p] = "dropping" /\ held' = held
      /\ \A q \in Procs \ {p} : mine'[q] = mine[q] /\ pc'[q] = pc[q]
      /\ UNCHANGED <<made, holder, issued, manual, excused>>
  BY <1>1 DEF Refuse, DropLock, Goto, LockInv, TypeOK, remote
<1> HIDE DEF d
<1>5. ASSUME NEW s \in shells \ {d}, s.token = l.token PROVE s.host \in excused'
  <2>1. s.job # "take"
    BY <1>1, <1>3, <1>5 DEF LockInv, TokenInv, d
  <2>2. s.job # "drop"
    BY <1>4, <1>5 DEF LockInv, HeldInv, Taking, Undropped
  <2>3. s \in Shells
    BY DEF LockInv, TypeOK
  <2> QED BY <2>1, <2>2, <2>3 DEF Shells
<1>6. {d} \in SUBSET shells /\ \A s \in {d} : ~Between(s)
  BY <1>1, <1>3 DEF Between, d
<1> QED BY <1>1, <1>2, <1>4, <1>5, <1>6, DropOrphan DEF d, remote

LEMMA ReleaseOrphan ==
  ASSUME LockInv, OrphanInv, NEW p \in Procs, Release(p)
  PROVE  OrphanInv'
<1>1. PICK l \in held[p] : /\ DropLock(p, l, pc[p])
                           /\ shells' = shells \cup {Shell("drop", "check", l)}
                           /\ held' = [held EXCEPT ![p] = @ \ {l}]
  BY DEF Release, ToDrop
<1>2. l \in LocksOf(p) /\ mine[p] = {} /\ Undropped(l.token)
  BY DEF LocksOf, Release, LockInv, FleetInv, HeldInv
<1>3. /\ mine'[p] = {l} /\ pc'[p] = "dropping" /\ held'[p] = held[p] \ {l}
      /\ \A q \in Procs \ {p} : held'[q] = held[q] /\ mine'[q] = mine[q] /\ pc'[q] = pc[q]
      /\ UNCHANGED <<made, holder, issued, manual, excused>>
  BY <1>1 DEF Release, DropLock, Goto, LockInv, TypeOK, remote, past
<1>4. ASSUME NEW s \in shells, s.token = l.token PROVE s.host \in excused'
  <2> SUFFICES ASSUME s.host \notin excused PROVE FALSE
    BY <1>3
  <2>1. PICK q \in Procs : \E k \in mine[q] : s.token = k.token
    BY DEF OrphanInv, WaitInv, Awaited
  <2>2. PICK k \in mine[q] : s.token = k.token
    BY <2>1
  <2>3. k \in LocksOf(q)
    BY DEF LocksOf
  <2>4. q = p
    BY <1>2, <1>4, <2>2, <2>3, ZenonT(40) DEF LockInv, TokenInv
  <2> QED BY <1>2, <2>2, <2>4
<1>5. shells' = (shells \ {}) \cup {Shell("drop", "check", l)}
  BY <1>1
<1> QED BY <1>2, <1>3, <1>4, <1>5, DropOrphan DEF remote

\* The run forgets the lock whose command has ended, or whose answer is lost.
LEMMA ForgetOrphan ==
  ASSUME LockInv, OrphanInv, UNCHANGED <<remote, issued, manual, held>>, excused \subseteq excused',
         NEW p \in Procs, NEW l \in mine[p], pc[p] = "dropping", mine'[p] = {}, pc'[p] # "taking",
         \A q \in Procs \ {p} : mine'[q] = mine[q] /\ pc'[q] = pc[q],
         NEW gone \in SUBSET shells, \A s \in gone : ~Between(s), shells' = shells \ gone,
         l.host \notin excused' =>
           ~Says(l.host, l.token) /\ \A s \in shells : s.token = l.token => s \in gone
  PROVE  OrphanInv'
<1>1. /\ l \in LocksOf(p) /\ \A k \in mine[p] : k = l
  BY DEF LocksOf, OrphanInv, AloneInv
<1>2. \A s \in shells : s.token = l.token => s.host = l.host
  BY <1>1 DEF LockInv, TokenInv
<1>3. WaitInv'
  <2> SUFFICES ASSUME NEW s \in shells \ gone, s.host \notin excused' PROVE Awaited(s)'
    BY DEF WaitInv
  <2>1. s.host \notin excused /\ \A k \in mine[p] : s.token # k.token
    BY <1>1, <1>2
  <2> QED BY <2>1, WaitOther DEF OrphanInv
<1>4. OwnedInv'
  <2> SUFFICES ASSUME NEW h \in made \ (manual \cup excused')
               PROVE  \E q \in Procs : \E k \in LocksOf(q)' : Owner(h, k)'
    BY DEF OwnedInv, remote
  <2>1. PICK q \in Procs : \E k \in LocksOf(q) : Owner(h, k)
    BY DEF OrphanInv, OwnedInv
  <2>2. PICK k \in LocksOf(q) : Owner(h, k)
    BY <2>1
  <2>3. k # l
    BY <1>2, <2>2 DEF Owner, Between
  <2>4. k \in (LocksOf(q))'
    BY <1>1, <2>2, <2>3 DEF LocksOf
  <2>5. Owner(h, k)'
    BY <2>2 DEF Owner, Says, remote
  <2> QED BY <2>4, <2>5
<1>5. GoneInv' /\ KnownInv'
  BY DEF OrphanInv, GoneInv, KnownInv, Ended, Says, remote
<1>6. AloneInv'
  BY DEF OrphanInv, AloneInv
<1> QED BY <1>3, <1>4, <1>5, <1>6 DEF OrphanInv

LEMMA DroppedOrphan ==
  ASSUME LockInv, OrphanInv, NEW p \in Procs, Dropped(p)
  PROVE  OrphanInv'
<1>1. PICK l \in mine[p] : \E at \in {"done", "failed"} : Answer(l, "drop", at)
  BY DEF Dropped
<1>2. PICK at \in {"done", "failed"} : Answer(l, "drop", at)
  BY <1>1
<1> DEFINE d == Shell("drop", at, l)
<1>3. l \in Locks /\ l \in LocksOf(p)
  BY DEF LockInv, TypeOK, LocksOf
<1>4. d.job = "drop" /\ d.at = at /\ d.token = l.token /\ d.host = l.host
  BY <1>3, ShellFields DEF Places
<1>5. d \in shells /\ shells' = shells \ {d}
  BY <1>2 DEF Answer
<1>6. /\ pc[p] = "dropping" /\ mine'[p] = {} /\ pc'[p] # "taking" /\ held' = held
      /\ \A q \in Procs \ {p} : mine'[q] = mine[q] /\ pc'[q] = pc[q]
      /\ UNCHANGED <<made, holder, issued, manual, excused>>
  BY DEF Dropped, Resume, Goto, LockInv, TypeOK, remote, past
<1> HIDE DEF d
<1>7. ASSUME l.host \notin excused
      PROVE  ~Says(l.host, l.token) /\ \A s \in shells : s.token = l.token => s \in {d}
  <2>1. ~Says(l.host, l.token)
    BY <1>4, <1>5, <1>7 DEF OrphanInv, GoneInv, Ended
  <2>2. ASSUME NEW s \in shells, s.token = l.token, s # d PROVE FALSE
    <3>1. s.host = l.host /\ s.job # "drop"
      BY <1>3, <1>4, <1>5, <2>2 DEF LockInv, TokenInv
    <3>2. PICK q \in Procs : \E k \in mine[q] :
            s.token = k.token /\ s.job = IF pc[q] = "taking" THEN "take" ELSE "drop"
      BY <1>7, <3>1 DEF OrphanInv, WaitInv, Awaited
    <3>3. PICK k \in mine[q] :
            s.token = k.token /\ s.job = IF pc[q] = "taking" THEN "take" ELSE "drop"
      BY <3>2
    <3>4. k \in LocksOf(q) /\ k.token = l.token
      BY <2>2, <3>3 DEF LocksOf
    <3>5. q = p
      BY <1>3, <3>4 DEF LockInv, TokenInv
    <3>6. s.job = "drop"
      BY <1>6, <3>3, <3>5
    <3> QED BY <3>1, <3>6
  <2> QED BY <2>1, <2>2
<1>8. {d} \in SUBSET shells /\ \A s \in {d} : ~Between(s)
  BY <1>4, <1>5 DEF Between
<1> QED BY <1>5, <1>6, <1>7, <1>8, ForgetOrphan DEF remote

LEMMA GiveUpOrphan ==
  ASSUME LockInv, OrphanInv, NEW p \in Procs, GiveUp(p)
  PROVE  OrphanInv'
<1>1. PICK l \in mine[p] :
        /\ Lost(l)
        /\ \/ /\ pc[p] = "taking"
              /\ shells' = shells \cup {Shell("drop", "check", l)}
              /\ \E next \in {"script", "exit"} : DropLock(p, l, next)
           \/ pc[p] = "dropping" /\ Resume(p) /\ UNCHANGED shells
  BY DEF GiveUp
<1>2. /\ l \in LocksOf(p) /\ \A k \in mine[p] : k = l
      /\ held[p] \ {l} = held[p]
  BY DEF LockInv, LocksOf, TokenInv, OrphanInv, AloneInv
<1>3. /\ l.host \in excused' /\ excused \subseteq excused' /\ held' = held
      /\ UNCHANGED <<made, holder, issued, manual>>
  BY <1>1 DEF Lost, GiveUp, remote
<1>4. \A s \in shells : s.token = l.token => s.host \in excused'
  BY <1>2, <1>3 DEF LockInv, TokenInv
<1>5. CASE pc[p] = "taking"
  <2>1. /\ mine'[p] = {l} /\ pc'[p] = "dropping"
        /\ \A q \in Procs \ {p} : mine'[q] = mine[q] /\ pc'[q] = pc[q]
    BY <1>1, <1>5 DEF DropLock, Goto, LockInv, TypeOK
  <2>2. held'[p] = held[p] \ {l} /\ \A q \in Procs \ {p} : held'[q] = held[q]
    BY <1>2, <1>3
  <2>3. {} \in SUBSET shells /\ \A s \in {} : ~Between(s)
    OBVIOUS
  <2>4. /\ shells' = (shells \ {}) \cup {Shell("drop", "check", l)}
        /\ \A s \in shells \ {} : s.token = l.token => s.host \in excused'
    BY <1>1, <1>4, <1>5
  <2>5. UNCHANGED <<remote, issued, manual>>
    BY <1>3 DEF remote
  <2> QED BY <1>2, <1>3, <2>1, <2>2, <2>3, <2>4, <2>5, DropOrphan, ZenonT(40)
<1>6. CASE pc[p] = "dropping"
  <2>1. /\ mine'[p] = {} /\ pc'[p] # "taking"
        /\ \A q \in Procs \ {p} : mine'[q] = mine[q] /\ pc'[q] = pc[q]
        /\ shells' = shells \ {}
    BY <1>1, <1>6 DEF Resume, Goto, LockInv, TypeOK
  <2> QED BY <1>2, <1>3, <1>6, <2>1, ForgetOrphan DEF remote
<1> QED BY <1>1, <1>5, <1>6

LEMMA CrashOrphan ==
  ASSUME LockInv, OrphanInv, NEW p \in Procs, Crash(p)
  PROVE  OrphanInv'
<1>1. /\ held'[p] = {} /\ mine'[p] = {}
      /\ \A q \in Procs \ {p} : held'[q] = held[q] /\ mine'[q] = mine[q] /\ pc'[q] = pc[q]
      /\ excused' = excused \cup {l.host : l \in LocksOf(p)}
      /\ UNCHANGED <<made, holder, shells, issued, manual>>
  BY DEF Crash, Goto, LocksOf, LockInv, TypeOK, remote
<1>2. WaitInv'
  <2> SUFFICES ASSUME NEW s \in shells, s.host \notin excused' PROVE Awaited(s)'
    BY <1>1 DEF WaitInv
  <2>1. \A l \in mine[p] : s.token # l.token
    BY <1>1 DEF LockInv, TokenInv, LocksOf
  <2> QED BY <1>1, <2>1, WaitOther DEF OrphanInv
<1>3. OwnedInv'
  <2> SUFFICES ASSUME NEW h \in made \ (manual \cup excused')
               PROVE  \E q \in Procs : \E k \in LocksOf(q)' : Owner(h, k)'
    BY <1>1 DEF OwnedInv
  <2>1. h \in made \ (manual \cup excused)
    BY <1>1
  <2>2. PICK q \in Procs : \E k \in LocksOf(q) : Owner(h, k)
    BY <2>1 DEF OrphanInv, OwnedInv
  <2>3. q # p
    BY <1>1, <2>2 DEF Owner
  <2> QED BY <1>1, <2>2, <2>3 DEF LocksOf, Owner, Says
<1>4. GoneInv' /\ KnownInv'
  BY <1>1 DEF OrphanInv, GoneInv, KnownInv, Ended, Says
<1>5. AloneInv'
  BY <1>1 DEF OrphanInv, AloneInv
<1> QED BY <1>2, <1>3, <1>4, <1>5 DEF OrphanInv

\* A command that goes on is awaited as before.
LEMMA WaitMove ==
  ASSUME WaitInv, UNCHANGED <<mine, pc>>, excused \subseteq excused',
         NEW s \in shells, NEW r, NEW at, Moved(s, r, at), shells' = (shells \ {s}) \cup {r}
  PROVE  WaitInv'
<1>1. \A x : Awaited(x)' <=> Awaited(x)
  BY DEF Awaited
<1>2. Awaited(r) <=> Awaited(s)
  BY DEF Awaited, Moved
<1> QED BY <1>1, <1>2 DEF WaitInv, Moved

LEMMA MkdirOrphan ==
  ASSUME LockInv, OrphanInv, NEW s \in shells, Mkdir(s)
  PROVE  OrphanInv'
<1>1. /\ s \in Shells /\ s.host \in Hosts /\ s.token \in Tokens /\ s.at = "mkdir"
      /\ s.job = "take"
      /\ UNCHANGED <<holder, issued, held, mine, pc, manual, excused>>
  BY DEF Mkdir, LockInv, TypeOK, ShellInv, Shells, run, past
<1>2. ~Says(s.host, s.token)
  BY <1>1 DEF OrphanInv, KnownInv
<1>3. AloneInv'
  BY <1>1 DEF OrphanInv, AloneInv
<1>4. CASE s.host \notin made /\ made' = made \cup {s.host} /\ At(s, "write")
  <2>1. PICK r \in Shells : Moved(s, r, "write") /\ shells' = (shells \ {s}) \cup {r}
    BY <1>4, NextShell DEF LockInv, Places
  <2>2. WaitInv'
    BY <1>1, <2>1, WaitMove DEF OrphanInv
  <2>3. holder[s.host] = Nobody
    BY <1>1, <1>4 DEF LockInv, DirInv
  <2>4. \A h, t : t # Nobody => (Says(h, t)' <=> Says(h, t))
    BY <1>1, <1>4, <2>3 DEF Says
  <2>5. \A x \in shells : x.token # Nobody
    BY DEF LockInv, TypeOK, Shells, Tokens, Nobody
  <2>6. OwnedInv'
    <3> SUFFICES ASSUME NEW h \in made' \ (manual \cup excused)
                 PROVE  \E q \in Procs : \E k \in LocksOf(q) : Owner(h, k)'
      BY <1>1 DEF OwnedInv, LocksOf
    <3>1. CASE h = s.host
      <4>1. PICK q \in Procs : \E k \in mine[q] : s.token = k.token
        BY <3>1 DEF OrphanInv, WaitInv, Awaited
      <4>2. PICK k \in mine[q] : s.token = k.token
        BY <4>1
      <4>3. k \in LocksOf(q) /\ k.host = h
        BY <3>1, <4>2 DEF LocksOf, LockInv, TokenInv
      <4>4. r \in shells' /\ Between(r) /\ r.token = k.token
        BY <2>1, <4>2 DEF Moved, Between
      <4> QED BY <4>3, <4>4 DEF Owner, Between
    <3>2. CASE h # s.host
      <4>1. PICK q \in Procs : \E k \in LocksOf(q) : Owner(h, k)
        BY <1>4, <3>2 DEF OrphanInv, OwnedInv
      <4>2. \A k : Owner(h, k) => Owner(h, k)'
        BY <1>1, <1>4, <2>1 DEF Owner, Says, Between
      <4> QED BY <4>1, <4>2
    <3> QED BY <3>1, <3>2
  <2>7. GoneInv' /\ KnownInv'
    BY <1>1, <2>1, <2>4, <2>5 DEF OrphanInv, GoneInv, KnownInv, Ended, Moved
  <2> QED BY <1>3, <2>2, <2>6, <2>7 DEF OrphanInv
<1>5. CASE s.host \in made /\ At(s, "failed") /\ UNCHANGED made
  <2>1. PICK r \in Shells : Moved(s, r, "failed") /\ shells' = (shells \ {s}) \cup {r}
    BY <1>5, NextShell DEF LockInv, Places
  <2>2. WaitInv'
    BY <1>1, <2>1, WaitMove DEF OrphanInv
  <2>3. OwnedInv'
    <3>1. \A h, k : Owner(h, k) => Owner(h, k)'
      BY <1>1, <1>5, <2>1 DEF Owner, Says, Between
    <3> QED BY <1>1, <1>5, <3>1 DEF OrphanInv, OwnedInv, LocksOf
  <2>4. GoneInv' /\ KnownInv'
    BY <1>1, <1>2, <1>5, <2>1 DEF OrphanInv, GoneInv, KnownInv, Ended, Moved, Says
  <2> QED BY <1>3, <2>2, <2>3, <2>4 DEF OrphanInv
<1> QED BY <1>4, <1>5 DEF Mkdir, MkDir

LEMMA WriteHolderOrphan ==
  ASSUME LockInv, OrphanInv, NEW s \in shells, WriteHolder(s)
  PROVE  OrphanInv'
<1>1. /\ s \in Shells /\ s.host \in Hosts /\ s.token \in Tokens /\ s.at = "write"
      /\ s.job = "take" /\ s.token <= issued
      /\ UNCHANGED <<made, issued, held, mine, pc, manual>>
  BY DEF WriteHolder, LockInv, TypeOK, ShellInv, TokenInv, Shells, run
<1>2. AloneInv'
  BY <1>1 DEF OrphanInv, AloneInv
<1>3. Says(s.host, Nobody) /\ \A x \in shells : Between(x) /\ x.host = s.host => x = s
  BY <1>1 DEF LockInv, ShellInv, Between
<1>4. CASE /\ s.host \in made
           /\ holder' = [holder EXCEPT ![s.host] = s.token] /\ At(s, "done")
           /\ UNCHANGED <<excused, faults>>
  <2>1. PICK r \in Shells : Moved(s, r, "done") /\ shells' = (shells \ {s}) \cup {r}
    BY <1>4, NextShell DEF LockInv, Places
  <2>2. WaitInv'
    BY <1>1, <1>4, <2>1, WaitMove DEF OrphanInv
  <2>3. /\ \A h, t : h # s.host => (Says(h, t)' <=> Says(h, t))
        /\ \A t : Says(s.host, t)' <=> t = s.token
    BY <1>1, <1>4 DEF Says, LockInv, TypeOK
  <2>4. OwnedInv'
    <3> SUFFICES ASSUME NEW h \in made \ (manual \cup excused), NEW q \in Procs,
                        NEW k \in LocksOf(q), Owner(h, k)
                 PROVE  Owner(h, k)'
      BY <1>1, <1>4 DEF OrphanInv, OwnedInv, LocksOf
    <3>1. CASE h = s.host
      <4>1. k.token # Nobody /\ k.host = h
        BY DEF LockInv, TypeOK, LocksOf, Locks, Tokens, Nobody, Owner
      <4>2. PICK x \in shells : Between(x) /\ x.token = k.token
        BY <1>3, <3>1, <4>1 DEF Owner, Says
      <4>3. x.host = s.host
        BY <3>1, <4>1, <4>2 DEF LockInv, TokenInv
      <4>4. k.token = s.token
        BY <1>3, <4>2, <4>3
      <4> QED BY <2>3, <3>1, <4>1, <4>4 DEF Owner
    <3>2. CASE h # s.host
      <4>1. k.host = h
        BY DEF Owner
      <4>2. ~(k.token = s.token)
        BY <3>2, <4>1 DEF LockInv, TokenInv
      <4> QED BY <2>1, <2>3, <3>2, <4>1, <4>2 DEF Owner, Between
    <3> QED BY <3>1, <3>2
  <2>5. GoneInv'
    <3> SUFFICES ASSUME NEW x \in shells', x.host \notin excused, Ended(x), Says(x.host, x.token)'
                 PROVE  FALSE
      BY <1>4 DEF GoneInv, Ended
    <3>1. x \in shells /\ x # s
      BY <1>1, <2>1 DEF Ended, Moved
    <3>2. x.host = s.host /\ x.token = s.token
      BY <2>3, <3>1 DEF OrphanInv, GoneInv
    <3>3. x.job = "drop"
      BY <1>1, <3>1, <3>2 DEF LockInv, TypeOK, TokenInv, Shells
    <3>4. PICK q \in Procs : \E k \in mine[q] :
            s.token = k.token /\ s.job = IF pc[q] = "taking" THEN "take" ELSE "drop"
      BY <3>2 DEF OrphanInv, WaitInv, Awaited
    <3>5. Undropped(s.token)
      BY <1>1, <3>4 DEF LockInv, HeldInv, Taking
    <3> QED BY <3>1, <3>2, <3>3, <3>5 DEF Undropped
  <2>6. KnownInv'
    <3>1. \A x \in shells' : x.at = "mkdir" => x \in shells /\ x.job = "take" /\ x # s
      BY <1>1, <2>1 DEF LockInv, ShellInv, Moved
    <3>2. \A x \in shells' : x.at = "mkdir" => x.token # s.token
      BY <1>1, <3>1 DEF LockInv, TokenInv
    <3>3. \A x \in shells' : x.at = "mkdir" => ~Says(x.host, x.token)'
      BY <2>3, <3>1, <3>2 DEF OrphanInv, KnownInv
    <3>4. \A h \in Hosts : holder'[h] \in Nat => holder'[h] <= issued
      BY <1>1, <1>4 DEF OrphanInv, KnownInv, LockInv, TypeOK
    <3> QED BY <1>1, <3>3, <3>4 DEF KnownInv
  <2> QED BY <1>2, <2>2, <2>4, <2>5, <2>6 DEF OrphanInv
<1>5. CASE /\ excused' = excused \cup {s.host} /\ Noted
           /\ At(s, "failed") /\ UNCHANGED holder
  <2>1. PICK r \in Shells : Moved(s, r, "failed") /\ shells' = (shells \ {s}) \cup {r}
    BY <1>5, NextShell DEF LockInv, Places
  <2>2. WaitInv'
    BY <1>1, <1>5, <2>1, WaitMove DEF OrphanInv
  <2>3. OwnedInv'
    <3> SUFFICES ASSUME NEW h \in made \ (manual \cup excused), h # s.host, NEW q \in Procs,
                        NEW k \in LocksOf(q), Owner(h, k)
                 PROVE  Owner(h, k)'
      BY <1>1, <1>5 DEF OrphanInv, OwnedInv, LocksOf
    <3>1. k.token # s.token
      BY DEF Owner, LockInv, TokenInv
    <3> QED BY <1>1, <1>5, <2>1, <3>1 DEF Owner, Says, Between
  <2>4. GoneInv' /\ KnownInv'
    BY <1>1, <1>5, <2>1 DEF OrphanInv, GoneInv, KnownInv, Ended, Moved, Says
  <2> QED BY <1>2, <2>2, <2>3, <2>4 DEF OrphanInv
<1> QED BY <1>4, <1>5 DEF WriteHolder

\* The command finds the token of its lock and goes on, or is done.
LEMMA CheckHolderOrphan ==
  ASSUME LockInv, OrphanInv, NEW s \in shells, CheckHolder(s)
  PROVE  OrphanInv'
<1>1. UNCHANGED <<made, holder, issued, held, mine, pc, manual, excused>>
  BY DEF CheckHolder, run, past, remote
<1>2. PICK at \in {"rm", "done"} : At(s, at) /\ (at = "done" => ~Says(s.host, s.token))
  BY DEF CheckHolder, Owns, Says
<1>3. PICK r \in Shells : Moved(s, r, at) /\ shells' = (shells \ {s}) \cup {r}
  BY <1>2, NextShell DEF LockInv, Places
<1>4. WaitInv'
  BY <1>1, <1>3, WaitMove DEF OrphanInv
<1>5. OwnedInv'
  <2>1. \A h, k : Owner(h, k) => Owner(h, k)'
    BY <1>1, <1>3 DEF Owner, Says, Between, CheckHolder
  <2> QED BY <1>1, <2>1 DEF OrphanInv, OwnedInv, LocksOf
<1>6. GoneInv'
  BY <1>1, <1>2, <1>3 DEF OrphanInv, GoneInv, Ended, Moved, Says
<1>7. KnownInv' /\ AloneInv'
  BY <1>1, <1>3 DEF OrphanInv, KnownInv, AloneInv, Moved, Says
<1> QED BY <1>4, <1>5, <1>6, <1>7 DEF OrphanInv

\* The token goes; the command that took it answers for the directory.
LEMMA RmHolderOrphan ==
  ASSUME LockInv, OrphanInv, NEW s \in shells, RmHolder(s)
  PROVE  OrphanInv'
<1>1. /\ s \in Shells /\ s.host \in Hosts /\ s.token \in Tokens /\ s.at = "rm"
      /\ UNCHANGED <<made, issued, held, mine, pc, manual, excused>>
      /\ holder' = [holder EXCEPT ![s.host] = Nobody]
  BY DEF RmHolder, LockInv, TypeOK, Shells, run, past
<1>2. PICK r \in Shells : Moved(s, r, "rmdir") /\ shells' = (shells \ {s}) \cup {r}
  BY NextShell DEF LockInv, Places, RmHolder
<1>3. WaitInv'
  BY <1>1, <1>2, WaitMove DEF OrphanInv
<1>4. Says(s.host, s.token)
  BY <1>1 DEF LockInv, ShellInv
<1>5. /\ \A h, t : h # s.host => (Says(h, t)' <=> Says(h, t))
      /\ \A t : Says(s.host, t)' => t = Nobody
  BY <1>1 DEF Says, LockInv, TypeOK
<1>6. OwnedInv'
  <2> SUFFICES ASSUME NEW h \in made \ (manual \cup excused), NEW q \in Procs,
                      NEW k \in LocksOf(q), Owner(h, k)
               PROVE  Owner(h, k)'
    BY <1>1 DEF OrphanInv, OwnedInv, LocksOf
  <2>1. k.host = h
    BY DEF Owner
  <2>2. CASE \E x \in shells : Between(x) /\ x.token = k.token
    BY <1>1, <1>2, <2>1, <2>2 DEF Owner, Between
  <2>3. CASE Says(h, k.token) /\ h = s.host
    <3>1. k.token = s.token
      BY <1>4, <2>3 DEF Says
    <3>2. r \in shells' /\ Between(r) /\ r.token = k.token
      BY <1>2, <3>1 DEF Moved, Between
    <3> QED BY <2>1, <3>2 DEF Owner, Between
  <2>4. CASE Says(h, k.token) /\ h # s.host
    BY <1>5, <2>1, <2>4 DEF Owner
  <2> QED BY <2>2, <2>3, <2>4 DEF Owner
<1>7. \A x \in shells' : Says(x.host, x.token)' => Says(x.host, x.token)
  <2>1. \A x \in shells' : x.token # Nobody
    BY <1>2 DEF LockInv, TypeOK, Shells, Tokens, Nobody
  <2> QED BY <1>5, <2>1
<1>8. GoneInv'
  BY <1>1, <1>2, <1>7 DEF OrphanInv, GoneInv, Ended, Moved
<1>9. KnownInv'
  <2>1. \A x \in shells' : x.at = "mkdir" => ~Says(x.host, x.token)'
    BY <1>2, <1>7 DEF OrphanInv, KnownInv, Moved
  <2>2. \A h \in Hosts : holder'[h] \in Nat => holder'[h] <= issued'
    BY <1>1 DEF OrphanInv, KnownInv, LockInv, TypeOK, Nobody
  <2> QED BY <2>1, <2>2 DEF KnownInv
<1>10. AloneInv'
  BY <1>1 DEF OrphanInv, AloneInv
<1> QED BY <1>3, <1>6, <1>8, <1>9, <1>10 DEF OrphanInv

\* The directory goes: rmdir finds it empty, nobody else being between two steps.
LEMMA RmdirOrphan ==
  ASSUME LockInv, OrphanInv, NEW s \in shells, Rmdir(s)
  PROVE  OrphanInv'
<1>1. /\ s \in Shells /\ s.host \in Hosts /\ s.at = "rmdir"
      /\ UNCHANGED <<holder, issued, held, mine, pc, manual, excused>>
  BY DEF Rmdir, LockInv, TypeOK, Shells, run, past
<1>2. Says(s.host, Nobody)
  BY <1>1 DEF LockInv, ShellInv, Between
<1>3. made' = made \ {s.host} /\ At(s, "done")
  BY <1>2 DEF Rmdir, RmDir, Empty, Says
<1>4. PICK r \in Shells : Moved(s, r, "done") /\ shells' = (shells \ {s}) \cup {r}
  BY <1>3, NextShell DEF LockInv, Places
<1>5. WaitInv'
  BY <1>1, <1>4, WaitMove DEF OrphanInv
<1>6. \A h, t : Says(h, t)' <=> Says(h, t) /\ h # s.host
  BY <1>1, <1>3 DEF Says
<1>7. OwnedInv'
  <2> SUFFICES ASSUME NEW h \in made \ (manual \cup excused), h # s.host, NEW q \in Procs,
                      NEW k \in LocksOf(q), Owner(h, k)
               PROVE  Owner(h, k)'
    BY <1>1, <1>3 DEF OrphanInv, OwnedInv, LocksOf
  <2>1. k.host = h /\ k.token # s.token
    BY DEF Owner, LockInv, TokenInv
  <2> QED BY <1>4, <1>6, <2>1 DEF Owner, Between
<1>8. GoneInv' /\ KnownInv'
  BY <1>1, <1>4, <1>6 DEF OrphanInv, GoneInv, KnownInv, Ended, Moved
<1>9. AloneInv'
  BY <1>1 DEF OrphanInv, AloneInv
<1> QED BY <1>5, <1>7, <1>8, <1>9 DEF OrphanInv

\* A command nobody waits for is killed: an answer was lost on its host.
LEMMA VanishOrphan ==
  ASSUME LockInv, OrphanInv, NEW s \in shells, Vanish(s)
  PROVE  OrphanInv'
<1>1. /\ UNCHANGED <<made, holder, issued, held, mine, pc, manual, excused>>
      /\ shells' = shells \ {s} /\ ~Awaited(s)
  BY DEF Vanish, run, past, remote
<1>2. s.host \in excused
  BY <1>1 DEF OrphanInv, WaitInv
<1>3. \A x : Awaited(x)' <=> Awaited(x)
  BY <1>1 DEF Awaited
<1>4. WaitInv'
  BY <1>1, <1>3 DEF OrphanInv, WaitInv
<1>5. OwnedInv'
  <2> SUFFICES ASSUME NEW h \in made \ (manual \cup excused), NEW q \in Procs,
                      NEW k \in LocksOf(q), Owner(h, k)
               PROVE  Owner(h, k)'
    BY <1>1 DEF OrphanInv, OwnedInv, LocksOf
  <2>1. k.host = h /\ k.token # s.token
    BY <1>2 DEF Owner, LockInv, TokenInv
  <2> QED BY <1>1, <2>1 DEF Owner, Between, Says
<1>6. GoneInv' /\ KnownInv' /\ AloneInv'
  BY <1>1 DEF OrphanInv, GoneInv, KnownInv, AloneInv, Ended, Says
<1> QED BY <1>4, <1>5, <1>6 DEF OrphanInv

\* The operator locks a host no directory was on.
LEMMA ManualAcquireOrphan ==
  ASSUME LockInv, OrphanInv, NEW h \in Hosts, ManualAcquire(h)
  PROVE  OrphanInv'
<1>1. /\ h \notin made /\ made' = made \cup {h} /\ manual' = manual \cup {h}
      /\ holder' = [holder EXCEPT ![h] = Operator]
      /\ UNCHANGED <<shells, issued, held, mine, pc, excused>>
  BY DEF ManualAcquire, run
<1>2. /\ \A g, t : g # h => (Says(g, t)' <=> Says(g, t))
      /\ \A t : Says(h, t)' => t = Operator
  BY <1>1 DEF Says, LockInv, TypeOK
<1>3. \A x : Awaited(x)' <=> Awaited(x)
  BY <1>1 DEF Awaited
<1>4. WaitInv'
  BY <1>1, <1>3 DEF OrphanInv, WaitInv
<1>5. OwnedInv'
  <2> SUFFICES ASSUME NEW g \in made \ (manual \cup excused), g # h, NEW q \in Procs,
                      NEW k \in LocksOf(q), Owner(g, k)
               PROVE  Owner(g, k)'
    BY <1>1 DEF OrphanInv, OwnedInv, LocksOf
  <2> QED BY <1>1, <1>2 DEF Owner, Between
<1>6. \A x \in shells : Says(x.host, x.token)' => Says(x.host, x.token)
  <2>1. \A x \in shells : x.token # Operator
    BY LockAssumed DEF LockInv, TypeOK, Shells, Tokens
  <2> QED BY <1>2, <2>1
<1>7. GoneInv'
  BY <1>1, <1>6 DEF OrphanInv, GoneInv, Ended
<1>8. KnownInv'
  <2>1. \A g \in Hosts : holder'[g] \in Nat => holder'[g] <= issued'
    BY <1>1, LockAssumed DEF OrphanInv, KnownInv, LockInv, TypeOK
  <2> QED BY <1>1, <1>6, <2>1 DEF OrphanInv, KnownInv
<1>9. AloneInv'
  BY <1>1 DEF OrphanInv, AloneInv
<1> QED BY <1>4, <1>5, <1>7, <1>8, <1>9 DEF OrphanInv

\* The operator removes a directory: no command is left on that host.
LEMMA ForceReleaseOrphan ==
  ASSUME LockInv, OrphanInv, NEW h \in Hosts, ForceRelease(h)
  PROVE  OrphanInv'
<1>1. /\ made' = made \ {h} /\ manual' = manual \ {h} /\ excused' = excused \ {h}
      /\ holder' = [holder EXCEPT ![h] = Nobody]
      /\ UNCHANGED <<shells, issued, held, mine, pc>>
      /\ \A s \in shells : s.host # h
  BY DEF ForceRelease, Quiet, run
<1>2. \A g, t : Says(g, t)' <=> Says(g, t) /\ g # h
  BY <1>1 DEF Says, LockInv, TypeOK
<1>3. \A x : Awaited(x)' <=> Awaited(x)
  BY <1>1 DEF Awaited
<1>4. WaitInv'
  BY <1>1, <1>3 DEF OrphanInv, WaitInv
<1>5. OwnedInv'
  <2> SUFFICES ASSUME NEW g \in made \ (manual \cup excused), g # h, NEW q \in Procs,
                      NEW k \in LocksOf(q), Owner(g, k)
               PROVE  Owner(g, k)'
    BY <1>1 DEF OrphanInv, OwnedInv, LocksOf
  <2> QED BY <1>1, <1>2 DEF Owner, Between
<1>6. GoneInv'
  BY <1>1, <1>2 DEF OrphanInv, GoneInv, Ended
<1>7. KnownInv'
  <2>1. \A g \in Hosts : holder'[g] \in Nat => holder'[g] <= issued'
    BY <1>1 DEF OrphanInv, KnownInv, LockInv, TypeOK, Nobody
  <2> QED BY <1>1, <1>2, <2>1 DEF OrphanInv, KnownInv
<1>8. AloneInv'
  BY <1>1 DEF OrphanInv, AloneInv
<1> QED BY <1>4, <1>5, <1>6, <1>7, <1>8 DEF OrphanInv

LEMMA StepOrphan == LockInv /\ OrphanInv /\ [Next]_vars => OrphanInv'
<1> SUFFICES ASSUME LockInv, OrphanInv, [Next]_vars PROVE OrphanInv'
  OBVIOUS
<1>1. CASE UNCHANGED vars
  BY <1>1, OrphanQuiet DEF vars, run, past
<1>2. ASSUME NEW p \in Procs, Step(p) \/ Interrupt(p) \/ Crash(p) PROVE OrphanInv'
  BY <1>2, TakeOrphan, AcquiredOrphan, RefuseOrphan, DroppedOrphan, GiveUpOrphan,
     QuietOrphan, ReleaseOrphan, CrashOrphan
  DEF Step
<1>3. ASSUME NEW p \in Procs, NEW f \in SUBSET Hosts \ {{}}, StartDeploy(p, f)
      PROVE  OrphanInv'
  BY <1>3, QuietOrphan
<1>4. ASSUME NEW s \in shells,
             Mkdir(s) \/ WriteHolder(s) \/ CheckHolder(s) \/ RmHolder(s) \/ Rmdir(s) \/ Vanish(s)
      PROVE  OrphanInv'
  BY <1>4, MkdirOrphan, WriteHolderOrphan, CheckHolderOrphan, RmHolderOrphan, RmdirOrphan,
     VanishOrphan
<1>5. ASSUME NEW h \in Hosts, ManualAcquire(h) \/ ForceRelease(h) PROVE OrphanInv'
  BY <1>5, ManualAcquireOrphan, ForceReleaseOrphan
<1> QED BY <1>1, <1>2, <1>3, <1>4, <1>5 DEF Next

\* Where nothing was lost, every directory a run made is of a lock that the run
\* holds, takes or drops, or of one whose command is half way through.
THEOREM OrphanInvariance == Spec => []OrphanInv
BY InitOrphan, StepOrphan, LockInvariance, PTL DEF Spec

\* No directory is left on a host without a run that answers for it, unless an
\* answer, a write or a process was lost there or an operator locked it: any
\* number of refusals, failures and Ctrl-C between two commands leave none.
THEOREM LocksAreOwned == Spec => []NoOrphan
<1>1. OrphanInv => NoOrphan
  BY DEF OrphanInv, OwnedInv, NoOrphan, Owner, LocksOf
<1> QED BY <1>1, OrphanInvariance, PTL
-----------------------------------------------------------------------------
(* Racing deploys never all refuse each other.                              *)

\* A lock of the deploy a run is locking for: got, or owned and not yet answered.
Locking(p) == pc[p] \in {"acquire", "taking"}
Current(p, l) ==
  \/ Locking(p) /\ l \in held[p] /\ l.host \in fleet[p] \ want[p]
  \/ pc[p] = "taking" /\ l \in mine[p] /\ Owner(l.host, l)

\* Any other lock that owns its directory: of a deploy that was refused.
Leftover(p, l) == l \in LocksOf(p) /\ Owner(l.host, l) /\ ~Current(p, l)

\* The run whose lock stands above all that is left over meets none of it on
\* the hosts it has still to lock.
Leader(p, l) ==
  Current(p, l) /\ \A q \in Procs : \A k \in LocksOf(q) : Leftover(q, k) => k.host < l.host
LedFrom(h) == \E p \in Procs : \E l \in LocksOf(p) : Leader(p, l) /\ h <= l.host

\* A run locks its hosts in ascending order.
OrderInv == \A p \in Procs :
  /\ \A l \in held[p], h \in want[p] : Locking(p) /\ l.host \in fleet[p] \ want[p] => l.host < h
  /\ \A l \in mine[p] : pc[p] = "taking" => l.host \in NextHosts(want[p])

\* Nothing was lost, interrupted or locked by hand, and nobody got through yet.
Calm    == faults = 0 /\ reached = {}
CalmInv == faults = 0 => excused = {} /\ manual = {}

\* A refusal, and a take that is about to be one, is on account of a leader.
LeadInv == Calm =>
  /\ refused = {} => \A p \in Procs : \A l \in LocksOf(p) : ~Leftover(p, l)
  /\ refused # {} => \E p \in Procs : \E l \in LocksOf(p) : Leader(p, l)
  /\ \A s \in shells : s.job = "take" /\ s.at = "failed" => LedFrom(s.host)

RaceInv == OrderInv /\ CalmInv /\ LeadInv

LEMMA InitRace == Init => RaceInv
BY DEF Init, RaceInv, OrderInv, CalmInv, LeadInv, Calm, LocksOf
-----------------------------------------------------------------------------
(* The order, and the faults.                                               *)

\* A run that stops locking, the others as they were.
LEMMA OrderOther ==
  ASSUME OrderInv, NEW p \in Procs, ~Locking(p)',
         \A q \in Procs \ {p} : /\ pc'[q] = pc[q] /\ fleet'[q] = fleet[q] /\ want'[q] = want[q]
                                /\ held'[q] = held[q] /\ mine'[q] = mine[q]
  PROVE  OrderInv'
BY DEF OrderInv, Locking, NextHosts

LEMMA StepOrder == LockInv /\ OrphanInv /\ OrderInv /\ [Next]_vars => OrderInv'
<1> SUFFICES ASSUME LockInv, OrphanInv, OrderInv, [Next]_vars PROVE OrderInv'
  OBVIOUS
<1>1. /\ pc \in [Procs -> Phases] /\ fleet \in [Procs -> SUBSET Hosts]
      /\ want \in [Procs -> SUBSET Hosts] /\ held \in [Procs -> SUBSET Locks]
      /\ mine \in [Procs -> SUBSET Locks] /\ then \in [Procs -> {"script", "release", "exit"}]
  BY DEF LockInv, TypeOK
<1>2. ASSUME UNCHANGED run PROVE OrderInv'
  BY <1>2 DEF OrderInv, Locking, NextHosts, run
<1>3. ASSUME NEW p \in Procs,
             \/ Refuse(p) \/ Dropped(p) \/ GiveUp(p) \/ AllLocked(p) \/ EndWork(p)
             \/ Release(p) \/ Released(p) \/ EndScript(p) \/ Interrupt(p) \/ Crash(p)
      PROVE  OrderInv'
  <2> DEFINE Quits ==
        /\ pc'[p] \notin {"acquire", "taking"}
        /\ \A q \in Procs \ {p} : /\ pc'[q] = pc[q] /\ fleet'[q] = fleet[q] /\ want'[q] = want[q]
                                  /\ held'[q] = held[q] /\ mine'[q] = mine[q]
  <2>1. ASSUME Refuse(p) PROVE Quits
    BY <1>1, <2>1 DEF Refuse, DropLock, Goto, Leave
  <2>2. ASSUME Dropped(p) \/ GiveUp(p) PROVE Quits
    BY <1>1, <2>2 DEF Dropped, GiveUp, Resume, DropLock, Goto, Leave
  <2>3. ASSUME AllLocked(p) \/ EndWork(p) \/ EndScript(p) PROVE Quits
    BY <1>1, <2>3 DEF AllLocked, EndWork, EndScript, Goto
  <2>4. ASSUME Release(p) \/ Released(p) PROVE Quits
    BY <1>1, <2>4 DEF Release, Released, DropLock, Goto, Leave
  <2>5. ASSUME Interrupt(p) \/ Crash(p) PROVE Quits
    BY <1>1, <2>5 DEF Interrupt, Crash, Goto, Leave
  <2>6. Quits
    BY <1>3, <2>1, <2>2, <2>3, <2>4, <2>5
  <2> QED BY <2>6, OrderOther DEF Locking
<1>4. ASSUME NEW p \in Procs, NEW f \in SUBSET Hosts, StartDeploy(p, f) PROVE OrderInv'
  BY <1>1, <1>4 DEF StartDeploy, Goto, OrderInv, Locking, NextHosts
<1>5. ASSUME NEW p \in Procs, Take(p) PROVE OrderInv'
  <2>1. PICK h \in NextHosts(want[p]) :
          mine' = [mine EXCEPT ![p] = {[host |-> h, token |-> issued + 1]}]
    BY <1>5 DEF Take
  <2> QED BY <1>1, <1>5, <2>1 DEF Take, Goto, OrderInv, Locking, NextHosts
<1>6. ASSUME NEW p \in Procs, Acquired(p) PROVE OrderInv'
  <2>1. PICK l \in mine[p] : /\ held' = [held EXCEPT ![p] = @ \cup {l}]
                             /\ want' = [want EXCEPT ![p] = @ \ {l.host}]
    BY <1>6 DEF Acquired
  <2>2. /\ pc[p] = "taking" /\ pc' = [pc EXCEPT ![p] = "acquire"]
        /\ mine' = [mine EXCEPT ![p] = {}] /\ fleet' = fleet
    BY <1>6 DEF Acquired, Goto
  <2>3. l.host \in want[p] /\ \A h \in want[p] : l.host <= h
    BY <2>2 DEF OrderInv, NextHosts
  <2>4. ASSUME NEW k \in held'[p], NEW h \in want'[p], k.host \in fleet[p] \ want'[p]
        PROVE  k.host < h
    <3>1. h \in want[p] /\ h # l.host /\ h \in Nat /\ l.host \in Nat
      BY <1>1, <2>1, <2>3 DEF Hosts
    <3>2. CASE k.host = l.host
      BY <2>3, <3>1, <3>2
    <3>3. CASE k.host # l.host
      BY <1>1, <2>1, <2>2, <2>4, <3>1, <3>3 DEF OrderInv, Locking
    <3> QED BY <3>2, <3>3
  <2>5. \A q \in Procs \ {p} : /\ pc'[q] = pc[q] /\ fleet'[q] = fleet[q] /\ want'[q] = want[q]
                               /\ held'[q] = held[q] /\ mine'[q] = mine[q]
    BY <1>1, <2>1, <2>2
  <2>6. pc'[p] = "acquire"
    BY <1>1, <2>2
  <2> QED BY <2>2, <2>4, <2>5, <2>6 DEF OrderInv, Locking, NextHosts
<1>7. CASE UNCHANGED vars
  BY <1>2, <1>7 DEF vars
<1>8. ASSUME NEW s \in shells,
             Mkdir(s) \/ WriteHolder(s) \/ CheckHolder(s) \/ RmHolder(s) \/ Rmdir(s) \/ Vanish(s)
      PROVE  OrderInv'
  BY <1>2, <1>8 DEF Mkdir, WriteHolder, CheckHolder, RmHolder, Rmdir, Vanish
<1>9. ASSUME NEW h \in Hosts, ManualAcquire(h) \/ ForceRelease(h) PROVE OrderInv'
  BY <1>2, <1>9 DEF ManualAcquire, ForceRelease
<1> QED BY <1>3, <1>4, <1>5, <1>6, <1>7, <1>8, <1>9 DEF Next, Step

\* What a fault is counts as one.
LEMMA FaultCounts ==
  ASSUME LockInv,
         \/ \E p \in Procs : GiveUp(p) \/ Interrupt(p) \/ Crash(p)
         \/ \E h \in Hosts : ManualAcquire(h) \/ ForceRelease(h)
         \/ \E s \in shells : WriteHolder(s) /\ excused' # excused
  PROVE  faults' # 0
<1>1. faults \in Nat /\ MaxFaults \in Nat \ {0} /\ faults <= MaxFaults
  BY LockAssumed DEF LockInv, TypeOK
<1>2. (Noted \/ Disturbed) => faults' # 0
  BY <1>1 DEF Noted, Disturbed
<1> QED BY <1>2 DEF GiveUp, Lost, Interrupt, Crash, ManualAcquire, ForceRelease, WriteHolder

LEMMA StepCalm ==
  ASSUME LockInv, CalmInv, [Next]_vars
  PROVE  CalmInv' /\ (Calm' => Calm)
<1> DEFINE Goes == UNCHANGED <<excused, manual, faults>> /\ reached \subseteq reached'
<1>1. faults' # 0 \/ Goes
  <2>1. CASE UNCHANGED vars
    BY <2>1 DEF vars, past
  <2>2. ASSUME NEW p \in Procs, Step(p) \/ Interrupt(p) \/ Crash(p) PROVE faults' # 0 \/ Goes
    BY <2>2, FaultCounts DEF Step, Take, Acquired, Refuse, Dropped, AllLocked, EndWork, Release,
       Released, EndScript, past
  <2>3. ASSUME NEW p \in Procs, NEW f \in SUBSET Hosts \ {{}}, StartDeploy(p, f) PROVE Goes
    BY <2>3 DEF StartDeploy, past
  <2>4. ASSUME NEW s \in shells, WriteHolder(s) PROVE faults' # 0 \/ Goes
    <3>1. CASE excused' # excused
      BY <2>4, <3>1, FaultCounts
    <3>2. CASE excused' = excused /\ faults' = faults
      BY <2>4, <3>2 DEF WriteHolder
    <3>3. CASE Noted
      BY <3>3, LockAssumed DEF Noted, LockInv, TypeOK
    <3> QED BY <2>4, <3>1, <3>2, <3>3 DEF WriteHolder
  <2>5. ASSUME NEW s \in shells,
               Mkdir(s) \/ CheckHolder(s) \/ RmHolder(s) \/ Rmdir(s) \/ Vanish(s)
        PROVE  Goes
    BY <2>5 DEF Mkdir, CheckHolder, RmHolder, Rmdir, Vanish, past
  <2>6. ASSUME NEW h \in Hosts, ManualAcquire(h) \/ ForceRelease(h) PROVE faults' # 0
    BY <2>6, FaultCounts
  <2> QED BY <2>1, <2>2, <2>3, <2>4, <2>5, <2>6 DEF Next
<1> QED BY <1>1 DEF CalmInv, Calm
-----------------------------------------------------------------------------
(* The leader.                                                              *)

\* No lock of a deploy under way is lost, none is left over that was not.
Steady ==
  /\ \A p \in Procs : \A l \in LocksOf(p) : Current(p, l) => Current(p, l)'
  /\ \A p \in Procs : \A l \in (LocksOf(p))' : Leftover(p, l)' => Leftover(p, l)

LEMMA LedSteady ==
  ASSUME Steady
  PROVE  /\ \A p \in Procs : \A l \in LocksOf(p) : Leader(p, l) => l \in (LocksOf(p))' /\ Leader(p, l)'
         /\ \A h : LedFrom(h) => LedFrom(h)'
<1>1. ASSUME NEW p \in Procs, NEW l \in LocksOf(p), Leader(p, l)
      PROVE  l \in (LocksOf(p))' /\ Leader(p, l)'
  <2>1. Current(p, l)'
    BY <1>1 DEF Leader, Steady
  <2>2. l \in (LocksOf(p))'
    BY <2>1 DEF Current, LocksOf
  <2>3. \A q \in Procs : \A k \in (LocksOf(q))' : Leftover(q, k)' => k.host < l.host
    BY <1>1 DEF Leader, Steady, Leftover
  <2> QED BY <2>1, <2>2, <2>3 DEF Leader
<1> QED BY <1>1 DEF LedFrom

LEMMA LeadSteady ==
  ASSUME LeadInv, Calm, Steady, refused' = refused,
         \A s \in shells' : s.job = "take" /\ s.at = "failed" => s \in shells \/ LedFrom(s.host)
  PROVE  LeadInv'
<1>1. refused' = {} => \A p \in Procs : \A l \in (LocksOf(p))' : ~Leftover(p, l)'
  BY DEF LeadInv, Steady, Leftover
<1>2. refused' # {} => \E p \in Procs : \E l \in (LocksOf(p))' : Leader(p, l)'
  BY LedSteady DEF LeadInv
<1>3. \A s \in shells' : s.job = "take" /\ s.at = "failed" => LedFrom(s.host)'
  BY LedSteady DEF LeadInv
<1> QED BY <1>1, <1>2, <1>3 DEF LeadInv

\* A command goes on: only a take that is waited for may get its directory, and
\* none of those loses it.
LEMMA ShellSteady ==
  ASSUME UNCHANGED run,
         \A p \in Procs : \A l \in mine[p] :
           pc[p] = "taking" /\ Owner(l.host, l) => Owner(l.host, l)',
         \A p \in Procs : \A l \in LocksOf(p) :
           Owner(l.host, l)' => Owner(l.host, l) \/ (pc[p] = "taking" /\ l \in mine[p])
  PROVE  Steady
<1>1. UNCHANGED <<held, mine, pc, fleet, want>>
  BY DEF run
<1>2. \A p \in Procs : (LocksOf(p))' = LocksOf(p) /\ (Locking(p)' <=> Locking(p))
  BY <1>1 DEF LocksOf, Locking
<1>3. \A p \in Procs : \A l \in LocksOf(p) : Current(p, l) => Current(p, l)'
  BY <1>1, <1>2 DEF Current
<1>4. ASSUME NEW p \in Procs, NEW l \in LocksOf(p), Leftover(p, l)' PROVE Leftover(p, l)
  <2>1. ~(pc[p] = "taking" /\ l \in mine[p])
    BY <1>1, <1>4 DEF Leftover, Current
  <2>2. Owner(l.host, l)
    BY <1>4, <2>1 DEF Leftover
  <2>3. ~Current(p, l)
    BY <1>3, <1>4 DEF Leftover
  <2> QED BY <2>2, <2>3 DEF Leftover
<1> QED BY <1>2, <1>3, <1>4 DEF Steady

\* The directories stay as they are: who owns them does.
LEMMA OwnerSame ==
  ASSUME UNCHANGED remote, \A s \in shells' : Between(s) => s \in shells,
         \A s \in shells : Between(s) => s \in shells'
  PROVE  \A h, l : Owner(h, l)' <=> Owner(h, l)
BY DEF Owner, Says, Between, remote

LEMMA QuietLead ==
  ASSUME LockInv, RaceInv, Calm, NEW p \in Procs,
         \/ EndWork(p) \/ EndScript(p) \/ Released(p)
         \/ \E f \in SUBSET Hosts : StartDeploy(p, f)
  PROVE  LeadInv'
<1>1. /\ pc \in [Procs -> Phases] /\ fleet \in [Procs -> SUBSET Hosts]
      /\ want \in [Procs -> SUBSET Hosts]
  BY DEF LockInv, TypeOK
<1>2. /\ UNCHANGED <<made, holder, shells, held, mine, refused>>
      /\ ~Locking(p) /\ pc'[p] # "taking" /\ (Locking(p)' => fleet'[p] \ want'[p] = {})
      /\ \A q \in Procs \ {p} : pc'[q] = pc[q] /\ fleet'[q] = fleet[q] /\ want'[q] = want[q]
  <2>1. CASE EndWork(p) \/ EndScript(p)
    BY <1>1, <2>1 DEF EndWork, EndScript, Goto, Locking, remote, past
  <2>2. CASE Released(p)
    BY <1>1, <2>2 DEF Released, Goto, Leave, Locking, remote, past
  <2>3. CASE \E f \in SUBSET Hosts : StartDeploy(p, f)
    BY <1>1, <2>3 DEF StartDeploy, Goto, Locking, remote, past
  <2> QED BY <2>1, <2>2, <2>3
<1>3. \A h, l : Owner(h, l)' <=> Owner(h, l)
  BY <1>2, OwnerSame DEF remote
<1>4. \A q \in Procs : (LocksOf(q))' = LocksOf(q)
  BY <1>2 DEF LocksOf
<1>5. \A q \in Procs : \A l : Current(q, l)' <=> Current(q, l)
  <2>1. \A l : ~Current(p, l) /\ ~Current(p, l)'
    BY <1>2 DEF Current, Locking
  <2>2. \A q \in Procs \ {p} : \A l : Current(q, l)' <=> Current(q, l)
    BY <1>2, <1>3 DEF Current, Locking
  <2> QED BY <2>1, <2>2
<1>6. Steady
  BY <1>3, <1>4, <1>5 DEF Steady, Leftover
<1> QED BY <1>2, <1>6, LeadSteady DEF RaceInv

LEMMA TakeLead ==
  ASSUME LockInv, OrphanInv, RaceInv, Calm, NEW p \in Procs, Take(p)
  PROVE  LeadInv'
<1>1. PICK h \in Hosts :
        LET k == [host |-> h, token |-> issued + 1]
        IN  /\ mine' = [mine EXCEPT ![p] = {k}]
            /\ shells' = shells \cup {Shell("take", "mkdir", k)}
  BY DEF Take, LockInv, TypeOK, NextHosts
<1>2. PICK l \in Locks : /\ l.token = issued + 1 /\ mine' = [mine EXCEPT ![p] = {l}]
                         /\ shells' = shells \cup {Shell("take", "mkdir", l)}
  <2>1. [host |-> h, token |-> issued + 1] \in Locks
    BY DEF LockInv, TypeOK, Locks, Tokens
  <2> QED BY <1>1, <2>1
<1> DEFINE d == Shell("take", "mkdir", l)
<1>3. d.job = "take" /\ d.at = "mkdir"
  BY <1>2, ShellFields DEF Places
<1> HIDE DEF d
<1>4. /\ shells' = shells \cup {d} /\ issued \in Nat
      /\ mine[p] = {} /\ mine'[p] = {l} /\ pc[p] = "acquire" /\ pc'[p] = "taking"
      /\ \A q \in Procs \ {p} : mine'[q] = mine[q] /\ pc'[q] = pc[q]
      /\ UNCHANGED <<made, holder, held, fleet, want, refused>>
  BY <1>2 DEF Take, Goto, LockInv, TypeOK, FleetInv, remote, past, d
<1>5. \A g, k : Owner(g, k)' <=> Owner(g, k)
  BY <1>3, <1>4, OwnerSame DEF Between, remote
<1>6. ~Owner(l.host, l)
  <2>1. ~Says(l.host, l.token)
    BY <1>2, <1>4 DEF OrphanInv, KnownInv, Says, Locks
  <2>2. \A s \in shells : s.token # l.token
    BY <1>2, <1>4 DEF LockInv, TokenInv, TypeOK, Shells, Tokens
  <2> QED BY <2>1, <2>2 DEF Owner
<1>7. \A q \in Procs : \A k \in held[q] : Current(q, k) => Current(q, k)'
  BY <1>4, <1>5 DEF Current, Locking
<1>8. \A q \in Procs : \A k \in mine[q] : Current(q, k) => Current(q, k)'
  BY <1>4, <1>5 DEF Current, Locking
<1>9. \A q \in Procs : \A k \in (LocksOf(q))' : k \in LocksOf(q) \/ k = l
  BY <1>4 DEF LocksOf
<1>10. ASSUME NEW q \in Procs, NEW k \in (LocksOf(q))', Leftover(q, k)' PROVE Leftover(q, k)
  <2>1. Owner(k.host, k) /\ ~Current(q, k)'
    BY <1>5, <1>10 DEF Leftover
  <2>2. k \in LocksOf(q)
    BY <1>6, <1>9, <2>1
  <2>3. ~Current(q, k)
    BY <1>7, <1>8, <2>1, <2>2 DEF LocksOf
  <2> QED BY <2>1, <2>2, <2>3 DEF Leftover
<1>11. Steady
  BY <1>7, <1>8, <1>10 DEF Steady, LocksOf
<1>12. \A s \in shells' : s.job = "take" /\ s.at = "failed" => s \in shells
  BY <1>3, <1>4
<1> QED BY <1>4, <1>11, <1>12, LeadSteady DEF RaceInv

LEMMA AcquiredLead ==
  ASSUME LockInv, OrphanInv, RaceInv, Calm, NEW p \in Procs, Acquired(p)
  PROVE  LeadInv'
<1>1. PICK l \in mine[p] : /\ Answer(l, "take", "done")
                           /\ held' = [held EXCEPT ![p] = @ \cup {l}]
                           /\ want' = [want EXCEPT ![p] = @ \ {l.host}]
  BY DEF Acquired
<1> DEFINE d == Shell("take", "done", l)
<1>2. l \in Locks
  BY DEF LockInv, TypeOK
<1>3. d.at = "done"
  BY <1>2, ShellFields DEF Places
<1>4. d \in shells /\ shells' = shells \ {d}
  BY <1>1 DEF Answer
<1> HIDE DEF d
<1>5. /\ pc[p] = "taking" /\ pc'[p] = "acquire" /\ mine'[p] = {} /\ held'[p] = held[p] \cup {l}
      /\ want'[p] = want[p] \ {l.host}
      /\ \A q \in Procs \ {p} : /\ mine'[q] = mine[q] /\ pc'[q] = pc[q] /\ held'[q] = held[q]
                                /\ want'[q] = want[q]
      /\ UNCHANGED <<made, holder, fleet, refused>>
  BY <1>1 DEF Acquired, Goto, LockInv, TypeOK, remote, past
<1>6. \A k \in mine[p] : k = l
  BY DEF OrphanInv, AloneInv
<1>7. \A g, k : Owner(g, k)' <=> Owner(g, k)
  BY <1>3, <1>4, <1>5, OwnerSame DEF Between, remote
<1>8. Current(p, l)'
  <2>1. l.host \in fleet[p]
    BY <1>5 DEF RaceInv, OrderInv, NextHosts, LockInv, TypeOK
  <2> QED BY <1>5, <2>1 DEF Current, Locking
<1>9. \A k \in held[p] : Current(p, k) => Current(p, k)'
  BY <1>5, <1>6, <1>8 DEF Current, Locking
<1>10. \A q \in Procs \ {p} : /\ (LocksOf(q))' = LocksOf(q)
                              /\ \A k : Current(q, k) <=> Current(q, k)'
  BY <1>5, <1>7 DEF Current, Locking, LocksOf
<1>11. \A k \in (LocksOf(p))' : k = l \/ k \in held[p]
  BY <1>5 DEF LocksOf
<1>12. \A q \in Procs : \A k \in LocksOf(q) : Current(q, k) => Current(q, k)'
  BY <1>6, <1>8, <1>9, <1>10 DEF LocksOf
<1>13. ASSUME NEW q \in Procs, NEW k \in (LocksOf(q))', Leftover(q, k)' PROVE Leftover(q, k)
  <2>1. Owner(k.host, k) /\ ~Current(q, k)'
    BY <1>7, <1>13 DEF Leftover
  <2>2. k \in LocksOf(q)
    BY <1>8, <1>10, <1>11, <2>1 DEF LocksOf
  <2> QED BY <1>12, <2>1, <2>2 DEF Leftover
<1>14. Steady
  BY <1>12, <1>13 DEF Steady
<1> QED BY <1>4, <1>5, <1>14, LeadSteady DEF RaceInv

LEMMA DroppedLead ==
  ASSUME LockInv, RaceInv, Calm, NEW p \in Procs, Dropped(p)
  PROVE  LeadInv'
<1>1. PICK l \in mine[p] : \E at \in {"done", "failed"} : Answer(l, "drop", at)
  BY DEF Dropped
<1>2. PICK at \in {"done", "failed"} : Answer(l, "drop", at)
  BY <1>1
<1> DEFINE d == Shell("drop", at, l)
<1>3. d.at = at
  <2>1. l \in Locks
    BY DEF LockInv, TypeOK
  <2> QED BY <2>1, ShellFields DEF Places
<1>4. d \in shells /\ shells' = shells \ {d}
  BY <1>2 DEF Answer
<1> HIDE DEF d
<1>5. /\ pc[p] = "dropping" /\ mine'[p] = {} /\ pc'[p] \in {"script", "release", "exit"}
      /\ \A q \in Procs \ {p} : mine'[q] = mine[q] /\ pc'[q] = pc[q]
      /\ UNCHANGED <<made, holder, held, fleet, want, refused>>
  BY DEF Dropped, Resume, Goto, LockInv, TypeOK, remote, past
<1>6. \A g, k : Owner(g, k)' <=> Owner(g, k)
  BY <1>3, <1>4, <1>5, OwnerSame DEF Between, remote
<1>7. \A q \in Procs : (LocksOf(q))' \subseteq LocksOf(q)
  BY <1>5 DEF LocksOf
<1>8. \A q \in Procs : \A k : Current(q, k) <=> Current(q, k)'
  BY <1>5, <1>6 DEF Current, Locking
<1>9. Steady
  BY <1>6, <1>7, <1>8 DEF Steady, Leftover
<1> QED BY <1>4, <1>5, <1>9, LeadSteady DEF RaceInv

LEMMA ReleaseLead ==
  ASSUME LockInv, RaceInv, Calm, NEW p \in Procs, Release(p)
  PROVE  LeadInv'
<1>1. PICK l \in held[p] : /\ DropLock(p, l, pc[p])
                           /\ shells' = shells \cup {Shell("drop", "check", l)}
                           /\ held' = [held EXCEPT ![p] = @ \ {l}]
  BY DEF Release, ToDrop
<1> DEFINE d == Shell("drop", "check", l)
<1>2. d.at = "check"
  <2>1. l \in Locks
    BY DEF LockInv, TypeOK
  <2> QED BY <2>1, ShellFields DEF Places
<1>3. shells' = shells \cup {d}
  BY <1>1
<1> HIDE DEF d
<1>4. /\ ~Locking(p) /\ mine'[p] = {l} /\ pc'[p] = "dropping" /\ held'[p] = held[p] \ {l}
      /\ \A q \in Procs \ {p} : held'[q] = held[q] /\ mine'[q] = mine[q] /\ pc'[q] = pc[q]
      /\ UNCHANGED <<made, holder, fleet, want, refused>>
  BY <1>1 DEF Release, DropLock, Goto, LockInv, TypeOK, Locking, remote, past
<1>5. \A g, k : Owner(g, k)' <=> Owner(g, k)
  BY <1>2, <1>3, <1>4, OwnerSame DEF Between, remote
<1>6. \A q \in Procs : (LocksOf(q))' \subseteq LocksOf(q)
  BY <1>4 DEF LocksOf
<1>7. \A q \in Procs : \A k : Current(q, k) <=> Current(q, k)'
  BY <1>4, <1>5 DEF Current, Locking
<1>8. Steady
  BY <1>5, <1>6, <1>7 DEF Steady, Leftover
<1>9. \A s \in shells' : s.job = "take" /\ s.at = "failed" => s \in shells
  BY <1>2, <1>3
<1> QED BY <1>4, <1>8, <1>9, LeadSteady DEF RaceInv

\* A take that failed at a host owns nothing there.
LEMMA FailedOwnsNothing ==
  ASSUME LockInv, OrphanInv, CalmInv, Calm,
         NEW p \in Procs, NEW l \in mine[p], pc[p] = "taking", Shell("take", "failed", l) \in shells
  PROVE  ~Owner(l.host, l)
<1> DEFINE d == Shell("take", "failed", l)
<1>1. l \in Locks
  BY DEF LockInv, TypeOK
<1>2. d.job = "take" /\ d.at = "failed" /\ d.token = l.token /\ d.host = l.host
  BY <1>1, ShellFields DEF Places
<1>3. d \in shells
  OBVIOUS
<1> HIDE DEF d
<1>4. ~Says(l.host, l.token)
  BY <1>2, <1>3 DEF OrphanInv, GoneInv, Ended, CalmInv, Calm
<1>5. ASSUME NEW s \in shells, Between(s), s.token = l.token PROVE FALSE
  <2>1. s.job # "drop"
    BY <1>5 DEF LockInv, HeldInv, Undropped, Taking
  <2>2. s.job # "take"
    BY <1>2, <1>3, <1>5 DEF LockInv, TokenInv, Between
  <2> QED BY <2>1, <2>2 DEF LockInv, TypeOK, Shells
<1> QED BY <1>4, <1>5 DEF Owner

\* A run is refused: its locks are left over, below the host it was refused on,
\* and the leader that refused it stands above.
LEMMA RefuseLead ==
  ASSUME LockInv, OrphanInv, RaceInv, Calm, NEW p \in Procs, Refuse(p)
  PROVE  LeadInv'
<1>1. PICK l \in mine[p] :
        /\ Shell("take", "failed", l) \in shells
        /\ shells' = (shells \ {Shell("take", "failed", l)}) \cup {Shell("drop", "check", l)}
        /\ DropLock(p, l, "script")
  BY DEF Refuse
<1> DEFINE d == Shell("take", "failed", l)
           e == Shell("drop", "check", l)
<1>2. l \in Locks /\ l.host \in Nat
  BY DEF LockInv, TypeOK, Locks, Hosts
<1>3. d.job = "take" /\ d.at = "failed" /\ d.host = l.host /\ e.job = "drop" /\ e.at = "check"
  BY <1>2, ShellFields DEF Places
<1>4. d \in shells /\ shells' = (shells \ {d}) \cup {e}
  BY <1>1
<1>5. pc[p] = "taking"
  BY DEF Refuse
<1>6. ~Owner(l.host, l)
  BY <1>1, <1>5, FailedOwnsNothing DEF RaceInv
<1> HIDE DEF d, e
<1>7. /\ mine'[p] = {l} /\ pc'[p] = "dropping"
      /\ \A q \in Procs \ {p} : /\ mine'[q] = mine[q] /\ pc'[q] = pc[q]
                                /\ fleet'[q] = fleet[q] /\ want'[q] = want[q]
      /\ UNCHANGED <<made, holder, held>> /\ refused' # {}
  BY <1>1 DEF Refuse, DropLock, Goto, Leave, LockInv, TypeOK, remote
<1>8. \A g, k : Owner(g, k)' <=> Owner(g, k)
  BY <1>3, <1>4, <1>7, OwnerSame DEF Between, remote
<1>9. \A k \in mine[p] : k = l
  BY DEF OrphanInv, AloneInv
<1>10. /\ \A q \in Procs : (LocksOf(q))' = LocksOf(q)
       /\ \A q \in Procs \ {p} : \A k : Current(q, k)' <=> Current(q, k)
  BY <1>7, <1>8, <1>9 DEF LocksOf, Current, Locking
<1>11. \A k : Current(p, k) => k.host < l.host
  <2>1. l.host \in want[p]
    BY <1>5 DEF RaceInv, OrderInv, NextHosts
  <2> QED BY <1>6, <1>9, <2>1 DEF RaceInv, OrderInv, Current
<1>12. \A q \in Procs : \A k \in LocksOf(q) :
         k.host \in Nat /\ (Leftover(q, k)' => Leftover(q, k) \/ k.host < l.host)
  <2>1. \A q \in Procs : \A k \in LocksOf(q) : k.host \in Nat
    BY DEF LockInv, TypeOK, LocksOf, Locks, Hosts
  <2>2. \A q \in Procs \ {p} : \A k \in LocksOf(q) : Leftover(q, k)' => Leftover(q, k)
    BY <1>8, <1>10 DEF Leftover
  <2>3. \A k \in LocksOf(p) : Leftover(p, k)' => Leftover(p, k) \/ Current(p, k)
    BY <1>8, <1>10 DEF Leftover
  <2> QED BY <1>11, <2>1, <2>2, <2>3
<1>13. ASSUME NEW q \in Procs, NEW k \in LocksOf(q), Leader(q, k), l.host <= k.host
       PROVE  k \in (LocksOf(q))' /\ Leader(q, k)'
  <2>1. Current(q, k) /\ k.host \in Nat
    BY <1>12, <1>13 DEF Leader
  <2>2. q # p
    BY <1>2, <1>11, <1>13, <2>1
  <2>3. Current(q, k)' /\ k \in (LocksOf(q))'
    BY <1>10, <2>1, <2>2
  <2>4. \A o \in Procs : \A m \in (LocksOf(o))' : Leftover(o, m)' => m.host < k.host
    BY <1>2, <1>10, <1>12, <1>13, <2>1 DEF Leader
  <2> QED BY <2>3, <2>4 DEF Leader
<1>14. PICK q \in Procs : \E k \in LocksOf(q) : Leader(q, k) /\ l.host <= k.host
  BY <1>3, <1>4 DEF RaceInv, LeadInv, LedFrom
<1>15. PICK k \in LocksOf(q) : Leader(q, k) /\ l.host <= k.host
  BY <1>14
<1>16. k \in (LocksOf(q))' /\ Leader(q, k)' /\ k.host \in Nat
  BY <1>12, <1>13, <1>15
<1>17. ASSUME NEW s \in shells', s.job = "take", s.at = "failed" PROVE LedFrom(s.host)'
  <2>1. s \in shells /\ s.host \in Nat
    BY <1>3, <1>4, <1>17 DEF LockInv, TypeOK, Shells, Hosts
  <2>2. PICK o \in Procs : \E m \in LocksOf(o) : Leader(o, m) /\ s.host <= m.host
    BY <1>17, <2>1 DEF RaceInv, LeadInv, LedFrom
  <2>3. PICK m \in LocksOf(o) : Leader(o, m) /\ s.host <= m.host
    BY <2>2
  <2>4. m.host \in Nat
    BY <1>12
  <2>5. CASE l.host <= m.host
    BY <1>13, <2>3, <2>5 DEF LedFrom
  <2>6. CASE m.host < l.host
    <3>1. s.host <= k.host
      BY <1>2, <1>15, <1>16, <2>1, <2>3, <2>4, <2>6
    <3> QED BY <1>16, <3>1 DEF LedFrom
  <2> QED BY <1>2, <2>4, <2>5, <2>6
<1> QED BY <1>7, <1>16, <1>17 DEF LeadInv

\* A take finds the directory there: whoever owns it leads, or is led.
LEMMA MkdirLead ==
  ASSUME LockInv, OrphanInv, RaceInv, Calm, NEW s \in shells, Mkdir(s)
  PROVE  LeadInv'
<1>1. /\ s \in Shells /\ s.host \in Hosts /\ s.at = "mkdir" /\ s.job = "take"
      /\ excused = {} /\ manual = {}
      /\ UNCHANGED <<holder, run, refused>>
  BY DEF Mkdir, LockInv, TypeOK, ShellInv, Shells, past, RaceInv, CalmInv, Calm
<1>2. CASE s.host \notin made /\ made' = made \cup {s.host} /\ At(s, "write")
  <2>1. PICK r \in Shells : Moved(s, r, "write") /\ shells' = (shells \ {s}) \cup {r}
    BY <1>2, NextShell DEF LockInv, Places
  <2>2. \A h, t : t # Nobody => (Says(h, t)' <=> Says(h, t))
    BY <1>1, <1>2 DEF Says, LockInv, DirInv
  <2>3. \A q \in Procs : \A k \in LocksOf(q) : k.token # Nobody
    BY DEF LockInv, TypeOK, LocksOf, Locks, Tokens, Nobody
  <2>4. \A q \in Procs : \A k \in LocksOf(q) : Owner(k.host, k) => Owner(k.host, k)'
    BY <1>1, <2>1, <2>2, <2>3 DEF Owner, Between
  <2>5. PICK p \in Procs : \E l \in mine[p] : s.token = l.token /\ pc[p] = "taking"
    BY <1>1 DEF OrphanInv, WaitInv, Awaited
  <2>6. PICK l \in mine[p] : s.token = l.token /\ pc[p] = "taking"
    BY <2>5
  <2>7. ASSUME NEW q \in Procs, NEW k \in LocksOf(q), Owner(k.host, k)'
        PROVE  Owner(k.host, k) \/ (pc[q] = "taking" /\ k \in mine[q])
    <3>1. CASE \E x \in shells' : Between(x) /\ x.token = k.token /\ x = r
      <4>1. k.token = l.token /\ l \in LocksOf(p)
        BY <2>1, <2>6, <3>1 DEF Moved, LocksOf
      <4>2. q = p /\ k = l
        BY <4>1 DEF LockInv, TokenInv
      <4> QED BY <2>6, <4>2
    <3>2. CASE \E x \in shells' : Between(x) /\ x.token = k.token /\ x # r
      BY <2>1, <3>2 DEF Owner
    <3>3. CASE Says(k.host, k.token)'
      BY <2>2, <2>3, <3>3 DEF Owner
    <3> QED BY <2>7, <3>1, <3>2, <3>3 DEF Owner, Between
  <2>8. \A q \in Procs : \A k \in mine[q] : k \in LocksOf(q)
    BY DEF LocksOf
  <2>9. Steady
    BY <1>1, <2>4, <2>7, <2>8, ShellSteady
  <2>10. \A x \in shells' : x.job = "take" /\ x.at = "failed" => x \in shells
    BY <2>1 DEF Moved
  <2> QED BY <1>1, <2>9, <2>10, LeadSteady DEF RaceInv
<1>3. CASE s.host \in made /\ At(s, "failed") /\ UNCHANGED made
  <2>1. PICK r \in Shells : Moved(s, r, "failed") /\ shells' = (shells \ {s}) \cup {r}
    BY <1>3, NextShell DEF LockInv, Places
  <2>2. \A g, k : Owner(g, k)' <=> Owner(g, k)
    <3>1. \A x \in shells' : Between(x) => x \in shells
      BY <2>1 DEF Moved, Between
    <3>2. \A x \in shells : Between(x) => x \in shells'
      BY <1>1, <2>1 DEF Between
    <3> QED BY <1>1, <1>3, <3>1, <3>2, OwnerSame DEF remote
  <2>3. Steady
    <3>1. \A q \in Procs : \A k \in mine[q] : k \in LocksOf(q)
      BY DEF LocksOf
    <3> QED BY <1>1, <2>2, <3>1, ShellSteady
  <2>4. LedFrom(s.host)
    <3>1. PICK q \in Procs : \E k \in LocksOf(q) : Owner(s.host, k)
      BY <1>1, <1>3 DEF OrphanInv, OwnedInv
    <3>2. PICK k \in LocksOf(q) : Owner(s.host, k)
      BY <3>1
    <3>3. k.host = s.host /\ s.host \in Nat
      BY <1>1, <3>2 DEF Owner, Hosts
    <3>4. ASSUME NEW o \in Procs, NEW m \in LocksOf(o), Leader(o, m), ~(s.host <= m.host)
          PROVE  Leader(q, k)
      <4>1. m.host \in Nat /\ m.host < s.host
        BY <3>3, <3>4 DEF LockInv, TypeOK, LocksOf, Locks, Hosts
      <4>2. \A n \in Procs : \A j \in LocksOf(n) : Leftover(n, j) => j.host < m.host /\ j.host \in Nat
        BY <3>4 DEF Leader, LockInv, TypeOK, LocksOf, Locks, Hosts
      <4>3. ~Leftover(q, k)
        BY <3>3, <4>1, <4>2
      <4>4. Current(q, k)
        BY <3>2, <3>3, <4>3 DEF Leftover
      <4> QED BY <3>3, <4>1, <4>2, <4>4 DEF Leader
    <3>5. CASE refused = {}
      <4>1. \A o \in Procs : \A m \in LocksOf(o) : ~Leftover(o, m)
        BY <3>5 DEF RaceInv, LeadInv
      <4>2. Leader(q, k)
        BY <3>2, <3>3, <4>1 DEF Leader, Leftover
      <4> QED BY <3>3, <4>2 DEF LedFrom
    <3>6. CASE refused # {}
      <4>1. PICK o \in Procs : \E m \in LocksOf(o) : Leader(o, m)
        BY <3>6 DEF RaceInv, LeadInv
      <4>2. PICK m \in LocksOf(o) : Leader(o, m)
        BY <4>1
      <4> QED BY <3>3, <3>4, <4>2 DEF LedFrom
    <3> QED BY <3>5, <3>6
  <2>5. \A x \in shells' : x.job = "take" /\ x.at = "failed" => x \in shells \/ LedFrom(x.host)
    BY <2>1, <2>4 DEF Moved
  <2> QED BY <1>1, <2>3, <2>5, LeadSteady DEF RaceInv
<1> QED BY <1>2, <1>3 DEF Mkdir, MkDir

\* Steps after which every directory belongs to whom it did.
LEMMA OwnerLead ==
  ASSUME RaceInv, Calm, UNCHANGED <<run, refused>>,
         \A p \in Procs : \A l \in LocksOf(p) : Owner(l.host, l)' <=> Owner(l.host, l),
         \A s \in shells' : s.job = "take" /\ s.at = "failed" => s \in shells
  PROVE  LeadInv'
<1>1. \A p \in Procs : \A l \in mine[p] : l \in LocksOf(p)
  BY DEF LocksOf
<1>2. Steady
  BY <1>1, ShellSteady
<1> QED BY <1>2, LeadSteady DEF RaceInv

LEMMA WriteHolderLead ==
  ASSUME LockInv, RaceInv, Calm, NEW s \in shells, WriteHolder(s), excused' = excused, faults' = 0
  PROVE  LeadInv'
<1>1. /\ s \in Shells /\ s.host \in Hosts /\ s.token \in Tokens /\ s.at = "write"
      /\ UNCHANGED <<made, run, refused>>
  BY DEF WriteHolder, LockInv, TypeOK, Shells
<1>2. ~Noted
  BY LockAssumed DEF Noted, Calm
<1>3. holder' = [holder EXCEPT ![s.host] = s.token] /\ At(s, "done") /\ s.host \in made
  BY <1>2 DEF WriteHolder
<1>4. PICK r \in Shells : Moved(s, r, "done") /\ shells' = (shells \ {s}) \cup {r}
  BY <1>3, NextShell DEF LockInv, Places
<1>5. Says(s.host, Nobody)
  BY <1>1 DEF LockInv, ShellInv, Between
<1>6. /\ \A h, t : h # s.host => (Says(h, t)' <=> Says(h, t))
      /\ \A t : Says(s.host, t)' <=> t = s.token
  BY <1>1, <1>3 DEF Says, LockInv, TypeOK
<1>7. ASSUME NEW p \in Procs, NEW l \in LocksOf(p) PROVE Owner(l.host, l)' <=> Owner(l.host, l)
  <2>1. l.token # Nobody /\ (l.token = s.token => l.host = s.host)
    BY DEF LockInv, TypeOK, TokenInv, LocksOf, Locks, Tokens, Nobody
  <2>2. CASE l.token = s.token
    BY <1>1, <1>6, <2>1, <2>2 DEF Owner, Between
  <2>3. CASE l.token # s.token
    <3>1. (\E x \in shells' : Between(x) /\ x.token = l.token)
            <=> \E x \in shells : Between(x) /\ x.token = l.token
      BY <1>4, <2>3 DEF Moved
    <3>2. Says(l.host, l.token)' <=> Says(l.host, l.token)
      BY <1>5, <1>6, <2>1, <2>3 DEF Says
    <3> QED BY <3>1, <3>2 DEF Owner, Between
  <2> QED BY <2>2, <2>3
<1>8. \A x \in shells' : x.job = "take" /\ x.at = "failed" => x \in shells
  BY <1>4 DEF Moved
<1> QED BY <1>1, <1>7, <1>8, OwnerLead

LEMMA CheckHolderLead ==
  ASSUME LockInv, RaceInv, Calm, NEW s \in shells, CheckHolder(s)
  PROVE  LeadInv'
<1>1. s.at = "check" /\ s.job = "drop" /\ UNCHANGED <<remote, run, refused>>
  BY DEF CheckHolder, LockInv, ShellInv, past
<1>2. PICK at \in {"rm", "done"} : At(s, at)
  BY DEF CheckHolder
<1>3. PICK r \in Shells : Moved(s, r, at) /\ shells' = (shells \ {s}) \cup {r}
  BY <1>2, NextShell DEF LockInv, Places
<1>4. \A g, k : Owner(g, k)' <=> Owner(g, k)
  <2>1. \A x \in shells' : Between(x) => x \in shells
    BY <1>3 DEF Moved, Between
  <2>2. \A x \in shells : Between(x) => x \in shells'
    BY <1>1, <1>3 DEF Between
  <2> QED BY <1>1, <2>1, <2>2, OwnerSame
<1>5. \A x \in shells' : x.job = "take" /\ x.at = "failed" => x \in shells
  BY <1>3 DEF Moved
<1> QED BY <1>1, <1>4, <1>5, OwnerLead

LEMMA RmHolderLead ==
  ASSUME LockInv, RaceInv, Calm, NEW s \in shells, RmHolder(s)
  PROVE  LeadInv'
<1>1. /\ s.host \in Hosts /\ s.at = "rm" /\ UNCHANGED <<made, run, refused>>
      /\ holder' = [holder EXCEPT ![s.host] = Nobody]
  BY DEF RmHolder, LockInv, TypeOK, Shells, past
<1>2. PICK r \in Shells : Moved(s, r, "rmdir") /\ shells' = (shells \ {s}) \cup {r}
  BY NextShell DEF LockInv, Places, RmHolder
<1>3. Says(s.host, s.token)
  BY <1>1 DEF LockInv, ShellInv
<1>4. /\ \A h, t : h # s.host => (Says(h, t)' <=> Says(h, t))
      /\ \A t : Says(s.host, t)' => t = Nobody
  BY <1>1 DEF Says, LockInv, TypeOK
<1>5. ASSUME NEW p \in Procs, NEW l \in LocksOf(p) PROVE Owner(l.host, l)' <=> Owner(l.host, l)
  <2>1. l.token # Nobody /\ (l.token = s.token => l.host = s.host)
    BY DEF LockInv, TypeOK, TokenInv, LocksOf, Locks, Tokens, Nobody
  <2>2. CASE l.token = s.token
    <3>1. Owner(l.host, l)
      BY <1>3, <2>1, <2>2 DEF Owner
    <3>2. r \in shells' /\ Between(r) /\ r.token = l.token
      BY <1>2, <2>2 DEF Moved, Between
    <3> QED BY <3>1, <3>2 DEF Owner, Between
  <2>3. CASE l.token # s.token
    <3>1. (\E x \in shells' : Between(x) /\ x.token = l.token)
            <=> \E x \in shells : Between(x) /\ x.token = l.token
      BY <1>2, <2>3 DEF Moved
    <3>2. Says(l.host, l.token)' <=> Says(l.host, l.token)
      BY <1>3, <1>4, <2>1, <2>3 DEF Says
    <3> QED BY <3>1, <3>2 DEF Owner, Between
  <2> QED BY <2>2, <2>3
<1>6. \A x \in shells' : x.job = "take" /\ x.at = "failed" => x \in shells
  BY <1>2 DEF Moved
<1> QED BY <1>1, <1>5, <1>6, OwnerLead

LEMMA RmdirLead ==
  ASSUME LockInv, RaceInv, Calm, NEW s \in shells, Rmdir(s)
  PROVE  LeadInv'
<1>1. /\ s \in Shells /\ s.at = "rmdir" /\ s.job = "drop" /\ UNCHANGED <<holder, run, refused>>
  BY DEF Rmdir, LockInv, TypeOK, ShellInv, past
<1>2. Says(s.host, Nobody)
  BY <1>1 DEF LockInv, ShellInv, Between
<1>3. made' = made \ {s.host} /\ At(s, "done")
  BY <1>2 DEF Rmdir, RmDir, Empty, Says
<1>4. PICK r \in Shells : Moved(s, r, "done") /\ shells' = (shells \ {s}) \cup {r}
  BY <1>3, NextShell DEF LockInv, Places
<1>5. \A h, t : Says(h, t)' <=> Says(h, t) /\ h # s.host
  BY <1>1, <1>3 DEF Says
<1>6. \A x \in shells' : Between(x) => x \in shells
  BY <1>4 DEF Moved, Between
<1>7. \A p \in Procs : \A l \in LocksOf(p) : Owner(l.host, l)' => Owner(l.host, l)
  BY <1>5, <1>6 DEF Owner, Between
<1>8. ASSUME NEW p \in Procs, NEW l \in mine[p], pc[p] = "taking", Owner(l.host, l)
      PROVE  Owner(l.host, l)'
  <2>1. l.token # s.token
    BY <1>1, <1>8 DEF LockInv, HeldInv, Taking, Undropped
  <2>2. l.token # Nobody
    BY DEF LockInv, TypeOK, Locks, Tokens, Nobody
  <2>3. Says(l.host, l.token) => Says(l.host, l.token)'
    BY <1>2, <1>5, <2>2 DEF Says
  <2>4. (\E x \in shells : Between(x) /\ x.token = l.token)
          => \E x \in shells' : Between(x) /\ x.token = l.token
    BY <1>4, <2>1
  <2> QED BY <1>8, <2>3, <2>4 DEF Owner, Between
<1>9. Steady
  BY <1>1, <1>7, <1>8, ShellSteady
<1>10. \A x \in shells' : x.job = "take" /\ x.at = "failed" => x \in shells
  BY <1>4 DEF Moved
<1> QED BY <1>1, <1>9, <1>10, LeadSteady DEF RaceInv

LEMMA StepRace == LockInv /\ OrphanInv /\ RaceInv /\ [Next]_vars => RaceInv'
<1> SUFFICES ASSUME LockInv, OrphanInv, RaceInv, [Next]_vars PROVE RaceInv'
  OBVIOUS
<1>1. OrderInv' /\ CalmInv' /\ (Calm' => Calm)
  BY StepOrder, StepCalm DEF RaceInv
<1>2. ASSUME Calm' PROVE LeadInv'
  <2>1. Calm /\ faults' = 0 /\ reached' = {} /\ excused = {} /\ excused' = {}
    BY <1>1, <1>2 DEF Calm, RaceInv, CalmInv
  <2>2. CASE UNCHANGED vars
    <3>1. \A g, k : Owner(g, k)' <=> Owner(g, k)
      BY <2>2, OwnerSame DEF vars
    <3> QED BY <2>1, <2>2, <3>1, OwnerLead DEF vars, past
  <2>3. ASSUME NEW p \in Procs, Step(p) \/ Interrupt(p) \/ Crash(p) PROVE LeadInv'
    <3>1. ~(GiveUp(p) \/ Interrupt(p) \/ Crash(p)) /\ ~AllLocked(p)
      BY <2>1, FaultCounts DEF AllLocked
    <3> QED BY <2>1, <2>3, <3>1, TakeLead, AcquiredLead, RefuseLead, DroppedLead, QuietLead,
               ReleaseLead DEF Step
  <2>4. ASSUME NEW p \in Procs, NEW f \in SUBSET Hosts \ {{}}, StartDeploy(p, f)
        PROVE  LeadInv'
    BY <2>1, <2>4, QuietLead
  <2>5. ASSUME NEW s \in shells,
               Mkdir(s) \/ WriteHolder(s) \/ CheckHolder(s) \/ RmHolder(s) \/ Rmdir(s) \/ Vanish(s)
        PROVE  LeadInv'
    <3>1. ~Vanish(s)
      BY <2>1 DEF Vanish, OrphanInv, WaitInv
    <3> QED BY <2>1, <2>5, <3>1, MkdirLead, WriteHolderLead, CheckHolderLead, RmHolderLead, RmdirLead
  <2>6. \A h \in Hosts : ~(ManualAcquire(h) \/ ForceRelease(h))
    BY <2>1, FaultCounts
  <2> QED BY <2>2, <2>3, <2>4, <2>5, <2>6 DEF Next
<1>3. LeadInv'
  BY <1>2 DEF LeadInv
<1> QED BY <1>1, <1>3 DEF RaceInv

\* As long as nothing was lost, interrupted or locked by hand and no deploy got
\* through, a refused run, or one about to be, was refused for the sake of a
\* deploy that is still locking and holds a host above every lock left over.
THEOREM RaceInvariance == Spec => []RaceInv
BY InitRace, StepRace, LockInvariance, OrphanInvariance, PTL DEF Spec

\* Racing deploys never all refuse each other: whatever the number of runs and
\* hosts, and though refused runs keep the hosts they had locked, one of them
\* gets all its locks unless something was lost, interrupted or locked by hand.
THEOREM RacesAreWon == Spec => []OneGetsThrough
<1>1. LockInv /\ RaceInv => OneGetsThrough
  <2> SUFFICES ASSUME LockInv, RaceInv, faults = 0, refused # {}, reached = {}
               PROVE  \E p \in Procs : pc[p] \in {"acquire", "taking"}
    BY DEF OneGetsThrough
  <2>1. \E p \in Procs : \E l \in LocksOf(p) : Leader(p, l)
    BY DEF RaceInv, LeadInv, Calm
  <2> QED BY <2>1 DEF Leader, Current, Locking
<1> QED BY <1>1, LockInvariance, RaceInvariance, PTL
=============================================================================
