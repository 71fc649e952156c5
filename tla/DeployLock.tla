----------------------------- MODULE DeployLock -----------------------------
(***************************************************************************)
(* The cross-machine deploy lock: one directory per host and service,      *)
(* made by mkdir, owned through a random token in its holder file.  A run  *)
(* of nrg (a process on some control machine) locks every host of a deploy *)
(* in sorted order, works, and releases; the RemoteLock values left over   *)
(* are dropped when the run ends.  Taking and dropping are shell commands  *)
(* of several steps on the host: whoever waits for one may lose the answer *)
(* (dropped connection, deadline, Ctrl-C) while the shell goes on.         *)
(***************************************************************************)
EXTENDS Naturals, FiniteSets

CONSTANTS NumHosts,    \* hosts, numbered in the order their names sort
          Procs,       \* runs of nrg, each a process on a control machine
          MaxRuns,     \* bound: deploys one run starts
          MaxFaults,   \* bound: crashes, interruptions and operator commands
          Operator     \* a holder line that is no token: nrg lock acquire

ASSUME LockAssumed == /\ NumHosts \in Nat \ {0} /\ MaxRuns \in Nat /\ MaxFaults \in Nat \ {0}
                      /\ IsFiniteSet(Procs) /\ Operator \notin Nat

Hosts    == 1..NumHosts
Nobody   == 0                      \* no holder file
Tokens   == Nat \ {0}

Locks  == [host : Hosts, token : Tokens]      \* a RemoteLock value
Shells == [job : {"take", "drop"}, host : Hosts, token : Tokens,
           at : {"mkdir", "write", "check", "rm", "rmdir", "done", "failed"}]

VARIABLES
  made,     \* hosts where /tmp/nrg-deploy-lock-<service> exists
  holder,   \* holder[h]: the holder file in it: a token, Operator or Nobody
  shells,   \* take and drop commands running, or ended and not yet answered
  issued,   \* tokens drawn so far: 1..issued
  pc,       \* what each run does
  fleet,    \* lock_hosts of the deploy it is in
  want,     \* the hosts of the acquire loop still to lock
  held,     \* ctx.remote_locks
  mine,     \* the RemoteLock (if any) whose command the run waits for
  then,     \* where it goes on after a drop
  runs,     \* deploys it has started
  manual,   \* hosts locked by an operator
  excused,  \* history: hosts where an answer, a write or a process was lost
  faults,   \* history: losses, crashes, interruptions, operator commands so far
  refused, reached  \* history: runs refused a lock; runs that got all locks

remote == <<made, holder>>
run    == <<pc, fleet, want, held, mine, then, runs>>
past   == <<excused, faults, refused, reached>>
vars   == <<remote, shells, issued, run, manual, past>>

Init ==
  /\ made = {} /\ holder = [h \in Hosts |-> Nobody] /\ shells = {} /\ issued = 0
  /\ pc = [p \in Procs |-> "script"] /\ fleet = [p \in Procs |-> {}]
  /\ want = [p \in Procs |-> {}] /\ held = [p \in Procs |-> {}]
  /\ mine = [p \in Procs |-> {}]
  /\ then = [p \in Procs |-> "script"] /\ runs = [p \in Procs |-> 0]
  /\ manual = {} /\ excused = {} /\ faults = 0 /\ refused = {} /\ reached = {}
-----------------------------------------------------------------------------
(* A run: the script, deploy() in it, and the end of the process.           *)

\* A fault of this kind is counted, or bounded as well.
Noted     == faults' = IF faults < MaxFaults THEN faults + 1 ELSE faults
Disturbed == faults < MaxFaults /\ faults' = faults + 1

Goto(p, l) == pc' = [pc EXCEPT ![p] = l]

Shell(job, at, l) == [job |-> job, host |-> l.host, token |-> l.token, at |-> at]

\* The command of l ended so, and the run that waits for it gets the answer.
Answer(l, job, at) == /\ Shell(job, at, l) \in shells
                      /\ shells' = shells \ {Shell(job, at, l)}

StartDeploy(p, f) ==
  /\ pc[p] = "script" /\ runs[p] < MaxRuns
  /\ runs' = [runs EXCEPT ![p] = @ + 1]
  /\ fleet' = [fleet EXCEPT ![p] = f] /\ want' = [want EXCEPT ![p] = f]
  /\ Goto(p, "acquire")
  /\ UNCHANGED <<remote, shells, issued, held, mine, then, manual, past>>

\* deploy() returns or throws: its lock_hosts are gone.
Leave(p) == fleet' = [fleet EXCEPT ![p] = {}] /\ want' = [want EXCEPT ![p] = {}]

\* lock_hosts is sorted: every run asks for its hosts in the same order.
AnyOrder(hs)  == hs                                \* mutant
NextHosts(hs) == {h \in hs : \A g \in hs : h <= g}

\* RemoteLock::acquire: a fresh token, then one command on the host.
Take(p) ==
  /\ pc[p] = "acquire"
  /\ \E h \in NextHosts(want[p]) :
       LET l == [host |-> h, token |-> issued + 1]
       IN  /\ mine' = [mine EXCEPT ![p] = {l}]
           /\ shells' = shells \cup {Shell("take", "mkdir", l)}
  /\ issued' = issued + 1
  /\ Goto(p, "taking")
  /\ UNCHANGED <<remote, fleet, want, held, then, runs, manual, past>>

Acquired(p) ==
  /\ pc[p] = "taking"
  /\ \E l \in mine[p] : /\ Answer(l, "take", "done")
                       /\ held' = [held EXCEPT ![p] = @ \cup {l}]
                       /\ want' = [want EXCEPT ![p] = @ \ {l.host}]
  /\ mine' = [mine EXCEPT ![p] = {}] /\ Goto(p, "acquire")
  /\ UNCHANGED <<remote, issued, fleet, then, runs, manual, past>>

\* Drop of a RemoteLock: one command on the host, whatever came before.
DropLock(p, l, next) ==
  /\ mine' = [mine EXCEPT ![p] = {l}] /\ then' = [then EXCEPT ![p] = next]
  /\ Goto(p, "dropping")

\* acquire() failed: its own RemoteLock is dropped and deploy() throws.  The
\* loop stands before deploy()'s try: nothing releases the hosts locked so far.
Refuse(p) ==
  /\ pc[p] = "taking"
  /\ \E l \in mine[p] :
       /\ Shell("take", "failed", l) \in shells
       /\ shells' = (shells \ {Shell("take", "failed", l)}) \cup {Shell("drop", "check", l)}
       /\ DropLock(p, l, "script")
  /\ Leave(p) /\ refused' = refused \cup {p}
  /\ UNCHANGED <<remote, issued, held, runs, manual, excused, faults, reached>>

Resume(p) == /\ Goto(p, then[p]) /\ then' = [then EXCEPT ![p] = "script"]
             /\ mine' = [mine EXCEPT ![p] = {}]

Dropped(p) ==
  /\ pc[p] = "dropping"
  /\ \E l \in mine[p] : Answer(l, "drop", "done") \/ Answer(l, "drop", "failed")
  /\ Resume(p)
  /\ UNCHANGED <<remote, issued, fleet, want, held, runs, manual, past>>

\* The answer is lost: connection, deadline, or (taking only) Ctrl-C.  The
\* shell may still be running, and takes effect later or never.
NoDeadline(l) == FALSE                             \* mutant
Lost(l)       == excused' = excused \cup {l.host} /\ Noted

GiveUp(p) ==
  /\ \E l \in mine[p] :
       /\ Lost(l)
       /\ \/ /\ pc[p] = "taking" /\ Leave(p)
             /\ shells' = shells \cup {Shell("drop", "check", l)}
             /\ \E next \in {"script", "exit"} : DropLock(p, l, next)
          \/ /\ pc[p] = "dropping" /\ Resume(p)
             /\ UNCHANGED <<shells, fleet, want>>
  /\ UNCHANGED <<remote, issued, held, runs, manual, refused, reached>>

AllLocked(p) ==
  /\ pc[p] = "acquire" /\ want[p] = {}
  /\ reached' = reached \cup {p}
  /\ Goto(p, "work")
  /\ UNCHANGED <<remote, shells, issued, fleet, want, held, mine, then, runs,
                 manual, excused, faults, refused>>

\* The try block returned or threw; both paths run the same release loop.
EndWork(p) ==
  /\ pc[p] = "work" /\ Goto(p, "release")
  /\ UNCHANGED <<remote, shells, issued, fleet, want, held, mine, then, runs, manual, past>>

\* remote_lock_release drops the locks of the deploy's hosts, the end of the
\* run drops whatever is left.
ToDrop(p) == {l \in held[p] : pc[p] = "release" => l.host \in fleet[p]}

Release(p) ==
  /\ pc[p] \in {"release", "exit"}
  /\ \E l \in ToDrop(p) : /\ DropLock(p, l, pc[p])
                          /\ shells' = shells \cup {Shell("drop", "check", l)}
                          /\ held' = [held EXCEPT ![p] = @ \ {l}]
  /\ UNCHANGED <<remote, issued, fleet, want, runs, manual, past>>

Released(p) ==
  /\ pc[p] \in {"release", "exit"} /\ ToDrop(p) = {}
  /\ Goto(p, IF pc[p] = "release" THEN "script" ELSE "ended")
  /\ Leave(p)
  /\ UNCHANGED <<remote, shells, issued, held, mine, then, runs, manual, past>>

\* The script is over (or threw): the run ends, and its context is dropped.
EndScript(p) ==
  /\ pc[p] = "script" /\ Goto(p, "exit")
  /\ UNCHANGED <<remote, shells, issued, fleet, want, held, mine, then, runs, manual, past>>

\* Ctrl-C between commands; a drop in flight is not interruptible and goes on.
Interrupt(p) ==
  /\ \/ pc[p] \in {"acquire", "work", "release"} /\ Goto(p, "exit") /\ UNCHANGED then
     \/ pc[p] = "dropping" /\ then' = [then EXCEPT ![p] = "exit"] /\ UNCHANGED pc
  /\ Leave(p) /\ Disturbed
  /\ UNCHANGED <<remote, shells, issued, held, mine, runs, manual,
                 excused, refused, reached>>

\* Crash, SIGKILL, second signal: no Drop runs.
Crash(p) ==
  /\ pc[p] # "ended" /\ Goto(p, "ended") /\ Leave(p)
  /\ held' = [held EXCEPT ![p] = {}] /\ mine' = [mine EXCEPT ![p] = {}]
  /\ then' = [then EXCEPT ![p] = "script"]
  /\ excused' = excused \cup {l.host : l \in held[p] \cup mine[p]}
  /\ Disturbed
  /\ UNCHANGED <<remote, shells, issued, runs, manual, refused, reached>>
-----------------------------------------------------------------------------
(* The shells on the hosts.                                                 *)

At(s, at) == shells' = (shells \ {s}) \cup {[s EXCEPT !.at = at]}

\* mkdir <dir> && ...: it creates the directory or fails.
MkDir(s)  ==
  \/ s.host \notin made /\ made' = made \cup {s.host} /\ At(s, "write")
  \/ s.host \in made /\ At(s, "failed") /\ UNCHANGED made

Mkdir(s) ==
  /\ s.at = "mkdir" /\ MkDir(s)
  /\ UNCHANGED <<holder, issued, run, manual, past>>

\* ... printf <token> > <dir>/holder: a failure leaves the directory behind.
WriteHolder(s) ==
  /\ s.at = "write"
  /\ \/ /\ s.host \in made
        /\ holder' = [holder EXCEPT ![s.host] = s.token] /\ At(s, "done")
        /\ UNCHANGED <<excused, faults>>
     \/ /\ excused' = excused \cup {s.host} /\ Noted
        /\ At(s, "failed") /\ UNCHANGED holder
  /\ UNCHANGED <<made, issued, run, manual, refused, reached>>

\* if [ "$(cat holder)" = <token> ]
AnyHolder(s) == s.host \in made                    \* mutant: rm -rf
Owns(s)      == s.host \in made /\ holder[s.host] = s.token

CheckHolder(s) ==
  /\ s.at = "check"
  /\ At(s, IF Owns(s) THEN "rm" ELSE "done")
  /\ UNCHANGED <<remote, issued, run, manual, past>>

\* rm -f holder && rmdir <dir>
RmHolder(s) ==
  /\ s.at = "rm"
  /\ holder' = [holder EXCEPT ![s.host] = Nobody]
  /\ At(s, "rmdir")
  /\ UNCHANGED <<made, issued, run, manual, past>>

LeaveDir(s) == At(s, "done") /\ UNCHANGED made     \* mutant: no rmdir
Empty(h)    == h \in made /\ holder[h] = Nobody
RmDir(s)    ==
  \/ Empty(s.host) /\ made' = made \ {s.host} /\ At(s, "done")
  \/ ~Empty(s.host) /\ At(s, "failed") /\ UNCHANGED made

Rmdir(s) ==
  /\ s.at = "rmdir" /\ RmDir(s)
  /\ UNCHANGED <<holder, issued, run, manual, past>>

\* Nobody waits for the shell: its result goes nowhere, and it may be killed.
Awaited(s) == \E p \in Procs : \E l \in mine[p] :
  /\ s.token = l.token
  /\ s.job = IF pc[p] = "taking" THEN "take" ELSE "drop"

Vanish(s) ==
  /\ ~Awaited(s)
  /\ shells' = shells \ {s}
  /\ UNCHANGED <<remote, issued, run, manual, past>>
-----------------------------------------------------------------------------
(* The operator's nrg lock acquire and nrg lock release --yes.              *)

ManualAcquire(h) ==
  /\ h \notin made
  /\ made' = made \cup {h} /\ holder' = [holder EXCEPT ![h] = Operator]
  /\ manual' = manual \cup {h} /\ Disturbed
  /\ UNCHANGED <<shells, issued, run, excused, refused, reached>>

\* "Only do this if you're certain no deploy/rollback of this service is
\* genuinely still running": neither a run nor a command it left on the host.
Quiet(h) == /\ \A p \in Procs : pc[p] \in {"script", "ended"} /\ held[p] = {}
            /\ \A s \in shells : s.host # h

ForceRelease(h) ==
  /\ h \in made /\ Quiet(h)
  /\ made' = made \ {h} /\ holder' = [holder EXCEPT ![h] = Nobody]
  /\ manual' = manual \ {h} /\ excused' = excused \ {h} /\ Disturbed
  /\ UNCHANGED <<shells, issued, run, refused, reached>>
-----------------------------------------------------------------------------
Step(p) == \/ Take(p) \/ Acquired(p) \/ Refuse(p) \/ Dropped(p) \/ GiveUp(p)
           \/ AllLocked(p) \/ EndWork(p) \/ Release(p) \/ Released(p) \/ EndScript(p)

Next == \/ \E p \in Procs : \/ Step(p) \/ Interrupt(p) \/ Crash(p)
                            \/ \E f \in SUBSET Hosts \ {{}} : StartDeploy(p, f)
        \/ \E s \in shells : \/ Mkdir(s) \/ WriteHolder(s) \/ CheckHolder(s)
                             \/ RmHolder(s) \/ Rmdir(s) \/ Vanish(s)
        \/ \E h \in Hosts : ManualAcquire(h) \/ ForceRelease(h)

Spec == Init /\ [][Next]_vars

\* A run keeps executing, and every command it waits for has a deadline
\* (runner.rs); nothing is assumed of the shells on the hosts.
FairSpec == Spec /\ \A p \in Procs : WF_vars(Step(p))
-----------------------------------------------------------------------------
Phases == {"script", "acquire", "taking", "dropping", "work", "release", "exit", "ended"}

TypeOK ==
  /\ made \subseteq Hosts /\ manual \subseteq Hosts /\ excused \subseteq Hosts
  /\ holder \in [Hosts -> Nat \cup {Operator}]
  /\ shells \subseteq Shells /\ issued \in Nat
  /\ pc \in [Procs -> Phases] /\ then \in [Procs -> {"script", "release", "exit"}]
  /\ fleet \in [Procs -> SUBSET Hosts] /\ want \in [Procs -> SUBSET Hosts]
  /\ held \in [Procs -> SUBSET Locks] /\ mine \in [Procs -> SUBSET Locks]
  /\ \A p \in Procs : want[p] \subseteq fleet[p]
  /\ runs \in [Procs -> 0..MaxRuns] /\ faults \in 0..MaxFaults
  /\ refused \subseteq Procs /\ reached \subseteq Procs

\* No two deploys of the service ever change the same host, nor does a deploy
\* change a host an operator has locked: whatever commands of refused, given-up
\* or crashed runs are still executing on the hosts.
MutualExclusion ==
  \A p \in Procs : pc[p] = "work" =>
    /\ fleet[p] \cap manual = {}
    /\ \A q \in Procs \ {p} : pc[q] = "work" => fleet[p] \cap fleet[q] = {}

\* A lock outlives its run only where an answer, a write or a process was lost:
\* a deploy that fails, is refused half way or is stopped by Ctrl-C between two
\* commands leaves no lock behind (remote_lock.rs: Drop on errors and
\* interruption alike; general_workflows.rs:653 tests it).  docs/safety.md:460-468
\* and the comment at deploy.rhai:269-274 still say that an interrupted deploy
\* leaves its lock to the operator.
NoOrphan ==
  \A h \in made \ (manual \cup excused) :
    \E p \in Procs : \E l \in held[p] \cup mine[p] : l.host = h

\* Racing deploys never all refuse each other: if nothing was lost, interrupted
\* or locked by hand, and nobody is locking any more, a refused run was refused
\* for the sake of one that got through all its locks (deploy.rhai 257-264).
OneGetsThrough ==
  faults = 0 /\ refused # {} /\ (\A p \in Procs : pc[p] \notin {"acquire", "taking"})
    => reached # {}

\* No deploy waits forever for a lock, even one on a host that went silent.
LockingEnds ==
  \A p \in Procs : pc[p] \in {"acquire", "taking", "dropping", "release"}
                     ~> pc[p] \in {"work", "script", "ended"}

\* docs/safety.md: the lock is "released (rm -rf) once the whole deploy
\* finishes, success or failure": outside deploy() a run holds none, even when
\* no command was lost and nobody interrupted anything.
ReleasedWhenDeployEnds ==
  faults = 0 => \A p \in Procs : pc[p] = "script" => held[p] = {}
=============================================================================
