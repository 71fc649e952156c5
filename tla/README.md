# nrgize, verified

TLA+ models of `nrg`, a deployment tool whose recipes are Rhai scripts run by a
Rust engine: the modules, the TLC configurations that check small instances of
them, and the theorems TLAPS proves about them. `PROJECT.json` lists every run,
every theorem, the source lines each definition models, and, for each property,
a plausible bug of the code that the property catches.

Paths below are relative to the repository: `engine/...`, `cli/...` and
`secrets/...` are Rust, below `src/`; `lib/*.rhai` is the script library.

## 1. The system

One `nrg run` is one process that evaluates one script, sequentially. What makes
it hard is around that script: remote commands over ssh whose answer may be
lost, a second `nrg` on another machine or nested in a hook, a signal at any
moment, and the process dying between any two steps.

| part | state it keeps | operations | talks to |
|---|---|---|---|
| Fleet deploy, `lib/deploy.rhai` | containers and proxy routes on the hosts; state keys `.target.<host>`, `.transition.<host>`, `.prev`, `.prev_config` | `deploy`, `deploy_one_host`, post-commit cleanup | runner, state store, transactions, deploy lock, health gate, proxies |
| Rollback chain, `rollback()` of `lib/deploy.rhai`, `cli/rollback.rs` | the keys `.image`, `.prev`, `.config`, `.prev_config` | roll back by a nested `deploy()` | fleet deploy, state store |
| `nrg remove`, `cli/remove.rs` | none of its own | removes containers, routes, state | state store, deploy lock |
| Deploy lock, `engine/remote_lock.rs`, `builtins/lock.rs`, `cli/lock.rs` | a directory and a holder file per host and service; the locks held by a run | acquire, drop, release, `nrg lock acquire/status/release` | runner |
| Transactions, `engine/transaction.rs` | the compensation stack and the nesting depth | `transaction`, `on_rollback`, `in_transaction` | interrupt flag |
| Interruption, `engine/interrupt.rs`, `context.rs` | one flag | set by SIGINT/SIGTERM, consumed by the poll before every operation | transactions, runner |
| Command runner, `engine/runner.rs` | none across commands but ssh's control sockets | run with a deadline, poll for the flag, kill the local child; atomic upload and download | ssh, docker |
| State store, `engine/state.rs`, `builtins/state.rs` | one JSON file, its backup, an in-memory copy, the project lock | get, set, del, update, purge; flush by temporary file and rename | nested `nrg` runs |
| Steps, journal, audit, `builtins/steps.rs`, `engine/journal.rs`, `audit.rs` | an append-only event log and an audit trail | step, retry, check; `nrg audit` | runner |
| Redaction, `engine/diagnostics.rs`, `engine/secret.rs` | registered values, bytes held back | push a chunk, redact | every sink |
| Secrets, `engine/secret.rs`, `secrets/`, `cli/secrets.rs` | key files, sealed files, `.env` | lookup, reveal; init, encrypt, decrypt, seal, unseal | age |
| Dry-run overlay, `engine/sim.rs`, `builtins/sim.rs` | what a dry run believes of containers, images and ports | record, probe once, answer | runner |
| Health gates, `lib/healthcheck.rhai` | none | retry until a streak of good answers | runner, HTTP |
| Proxies, `lib/proxy.rhai`, `lib/caddy.rhai` | the routes of a host | boot, deploy, TLS, maintenance, remove | runner |
| Release directories, `lib/release.rhai` | directories, a link | deploy, rollback, prune | runner, deploy lock |
| Bunny apps, `lib/bunny.rhai` | a snapshot per app | `deploy_fleet`, `deploy_app`, `rollback_app` | HTTP, state store |
| HTTP builtins, `builtins/http.rs` | none | the verbs, a parallel batch of PATCHes | servers |
| Evaluation, stdlib, vendoring, `engine/eval.rs`, `stdlib.rs`, `cli/vendor.rs` | loaded modules; `lib/` | run, fall back to the embedded library, vendor | scripts |
| Project root and trust, `engine/state.rs`, `trust.rs` | none | search upward | the file system |
| Reports, `cli/status.rs`, `doctor.rs`, `logs.rs`, `setup.rs`, `rehearse.rs` | none; a workspace of a rehearsal | probe, print, exit code | runner |

What each must get right:

* **Fleet deploy.** Traffic never reaches a host with nothing behind the route,
  whatever fails. A deploy happens on all hosts or on none. The recorded target
  is what the proxy serves, or a journal says it may not be. A host without a
  journal can be trusted by the next deploy.
* **Rollback, removal.** The rollback target is not the current image and goes
  with its own configuration; what runs somewhere is recorded there.
* **Deploy lock.** Two deploys never change one host. A lock is left behind only
  where something was lost. Racing deploys do not all refuse each other. Nobody
  waits for ever.
* **Transactions.** A failed transaction undoes all it did, newest effect first;
  a committed outermost one is final; a signal costs at most one compensation.
* **Command runner.** No child blocks the call, no call outlives its deadline or
  leaves a process behind, success means all of the input and output, and a
  destination is never half written. A command runs on the host its alias names.
* **State store.** One writer at a time, nested runs included; no edit of another
  run or destination is lost; a power cut leaves a whole file; an unreadable file
  is never replaced; purged keys do not come back.
* **Steps, journal, audit.** A command given to a host is in the journal first;
  an unfinished run is listed as such; both logs tell the same story.
* **Secrets and redaction.** No value reaches a sink, in whatever chunks; what
  was sealed here opens here; `.env` is not clobbered; no place that others may
  write is believed.
* **Dry run.** Its answers are those of the live run.
* **Gates, proxies, releases, apps.** A gate opens after enough good probes in a
  row; a service has one route, the one the script was told; the current and the
  previous release stay on disk; no app is touched after too many failures, and
  its rollback target survives the failed ones.
* **HTTP, modules, reports.** Each answer belongs to its request; a script's
  effects are never run twice by the fallback; a reported success happened.

The hard behaviours, each at its line, are the `hazards` of `PROJECT.json`.

## 2. The modules

| module | models | checked by | proved in |
|---|---|---|---|
| `FleetLedger` | the promise of a deploy about the durable record (abstract) | refinement in `fleet_deploy` | `FleetDeployProofs` |
| `FleetDeploy` | `deploy()`, `deploy_one_host()`, unwind, cleanup, recovery | `fleet_deploy` | `FleetDeployProofs` |
| `FleetLateSwitch` | `FleetDeploy` with a switch that lands after it was given up | `late_switch` | |
| `DeployLock` | the cross-machine lock, several runs, shells on the hosts, the operator | `deploy_lock`, `deploy_lock_ends`, `partial_lock` | `DeployLockProofs` |
| `Transaction` | `transaction()`, `on_rollback()`, the interrupt flag | `transaction`, `second_signal` | `TransactionProofs` |
| `DestStores` | the promise of the state store about its destinations (abstract) | refinement in `state_store` | `StateStoreProofs` |
| `StateStore` | the state file, its backup, the project lock, nested runs | `state_store` | `StateStoreProofs` |
| `RunLog` | steps, fan-out, retries, the run journal and the audit trail | `run_log` | `RunLogProofs` |
| `CommandRunner` | one command: child, pipes, threads, deadline, signals, transfers | `runner` | `CommandRunnerProofs` |
| `HostProbes` | what a probe's exit code and words are taken for | `tools`, `probe_absent` | `LocalProofs` |
| `SimOverlay` | the dry-run overlay next to the live run of the same script | `tools`, `probe_absent` | `LocalProofs` |
| `PortPicks` | `sim_pick_port`, `sim_wait_port`, live and dry | `tools` | `LocalProofs` |
| `Redactor` | streaming redaction of chunks | `tools` | `LocalProofs` |
| `SecretUse` | lookup, reveal, encodings, sinks | `tools` | `LocalProofs` |
| `UpwardSearch` | search for a key file or the project root, trust rule | `tools` | `LocalProofs` |
| `KeyFiles` | init, encrypt, decrypt, seal, unseal with kills | `tools` | `LocalProofs` |
| `ServiceLife` | deploys, rollbacks and removals of one service in a row | `tools` | `HostProofs` |
| `HttpCalls` | one call of an HTTP builtin | `tools` | `HostProofs` |
| `ModuleRun` | imports, fallback to the embedded library, `nrg vendor` meanwhile | `tools` | `LocalProofs` |
| `SshConnections` | control sockets, host keys, multiplexing | `tools` | `HostProofs` |
| `Rehearsal` | `nrg rehearse` | `tools` | `HostProofs` |
| `HostReports` | `status --check`, `doctor`, `logs`, `setup` | `tools` | `HostProofs` |
| `ReleaseDirs` | `lib/release.rhai` under its lock | `tools` | `HostProofs` |
| `CaddyRoutes` | the routes of several services in one Caddy | `tools` | `HostProofs` |
| `HealthGate` | the polling loops of `lib/healthcheck.rhai` | `tools` | `HostProofs` |
| `BunnyFleet` | rollouts over the apps of a Bunny account | `tools` | `HostProofs` |
| `LocalTools`, `HostTools` | the parts above as one specification each; `Parts` has what they share | `tools` | `LocalProofs`, `HostProofs` |

`MC*.tla` extend or instantiate modules for TLC. Definitions marked `\* mutant`
are the bugs the mutants put in place of the definition that follows them;
nothing else uses them. `TypeOK` stays in the modules that have one; for
`FleetDeploy`, `DeployLock`, `Transaction`, `RunLog` and `CommandRunner` it is
proved, so no run repeats it.

How the parts fit. `FleetDeploy` assumes what other modules show: that one
deploy at a time works on a host (`DeployLock`), that a state write is atomic
(`StateStore`), that a failed transaction attempts every compensation
(`Transaction`), that a command ends (`CommandRunner`) and that a gate which
opened saw good answers (`HealthGate`). `ServiceLife` takes a deploy as one step
with the outcomes `FleetDeploy` has. `ReleaseDirs` and `CaddyRoutes` take their
lock, and `BunnyFleet` its HTTP calls, as one step each.

### FleetDeploy

State. `box[h]` is the set of the service's containers on host `h`: who created
it, its published port, its name (`<service>-web`, `-web-old`, or its own
versioned name), whether it runs and whether it is healthy. `route[h]` is the
proxy's target; `target[h]` and `trans[h]` are the durable state keys. `pc`,
`todo`, `cur` are the position in the script; `comps` is the compensation stack;
`oldTarget`, `newPort` are what the closures captured by value, `switched` and
`restored` the flags they share. `before` and `tidy` are history.

One action per command of the script that changes something, in the script's
order:

    StartDeploy, Prepare                       guards, build, push, proxy boot
    BeginHost                                  reads, sim_pick_port, on_rollback(remove)
    WriteJournal, RunContainer, HealthGate,    steps (a) to (e) of deploy_one_host
      SwitchProxy, CommitTransaction
    Restore, SkipRemove, RemoveNew,            the unwind
      ClearJournal, Reraise
    RecordRelease, RenameOld, Promote,         after the commit
      RetireOld, Settle, FinishDeploy
    Interrupt, Die, Reconcile                  Ctrl-C, process death, the operator

A remote command has three outcomes: it worked, it failed without effect, or it
took effect and its failure is reported all the same. `Reconcile` follows the
Recovery section of `docs/deploy.md`. The order in which hosts are rolled is
left open, which includes the order of the array. `gated` stands for the two
proxy backends: kamal-proxy refuses an unhealthy target, caddy does not.

Assumed: the deploy lock is held (that is `DeployLock`); a state write is
atomic; a command that has failed is over. The last is not always true:
`FleetLateSwitch` drops it and TLC finds a host whose traffic goes nowhere
(section 5). `rollback()` and the `.prev` chain are in `ServiceLife`. An application that was healthy and dies later is outside it: no step of a deploy does that.

### FleetLedger

A host has a recorded target, a live target, and may be open. Traffic moves only
on open hosts; the ledger of a group of hosts advances in one step to what they
serve; a host closes only when ledger and traffic agree. `FleetDeploy`
implements it with `live <- route`, `ledger <- target` and `open` the hosts with
a `.transition` key.

### DeployLock

`made` and `holder` are the directory and the holder file on each host. A take
and a drop are shell commands of several steps that run on the host by
themselves (`shells`): `mkdir`, then the write of the token; the check of the
token, then `rm`, then `rmdir`. A run waits for the answer and may stop waiting
(`GiveUp`: connection, deadline, Ctrl-C), while the shell goes on or vanishes.
A run locks its hosts in sorted order, works, releases; when it ends by itself
the locks left in `ctx.remote_locks` are dropped, when it crashes they are not.

The loop that acquires stands before the `try` of `deploy()`: a refusal at the
second host throws with the first one still locked, until the run ends
(section 5).

Assumed: no two tokens are equal; the operator forces a release only when no run
is in a deploy and no command for that host is under way, as the message of
`nrg lock release` asks; the `mkdir` and `printf` of `nrg lock acquire` are one
step. A deploy that opts out of the lock is not modelled.

### Transaction

`comps`, `depth` and `flag` are the fields of the run's context; `calls` is the
native call stack of `transaction()`, each with its mark and what it is doing.
The script is every program over these calls: nested transactions, transactions
in a compensation, compensations that register others, errors that a `try`
catches. A signal may come between any two steps; the poll before each operation
consumes the flag and raises an error no `try` can catch.

### StateStore and DestStores

State. `file`, `bak` and `flock` are `state.json`, its backup and who holds
`state.lock`; a process has its place `pc`, the `NRG_STATE_LOCK` it inherited
(`env`), the run whose hook started it (`parent`), its destination, `mem`
(`StateStore.data`), the mutation under way and what `update` would restore
(`prev`). `versions` is history: all that `state.json` has held, or would hold
after a power cut right after the rename; `purged` and `stale` too.

    Start, Spawn, Inherit, Probe, Probed,      wire_run: by hand, or nested in a hook;
      Acquire, Refused, LoadStore                the re-entrant lock, the lock, load
    Mutate                                     reload and edit of set, del, update, purge
    BackUp, WriteTemp, SyncTemp, Publish,      flush, step by step; its failure at any
      FailFlush                                  of them
    Sanitize, FailSanitize                     purge: the copy over the backup
    End, HookOver, Kill                        ends; a set of processes dies at once

`DestStores` is the abstract specification: each destination has its own map, and
a mutation takes effect at one instant on the map of its own, or not at all.
`Isolated` is the refinement, with `stores[d]` what `StateStore::all` shows of
the file and `pending` the edits that are being flushed.

Assumed: process ids are never reused, and a nested run does not outlive the
hook that started it (`Detached = FALSE`). The second matters: a nested run that
detaches itself keeps the right to write after its parent is over, and
`OneWriter` fails with `Detached = TRUE` (section 5). The search for the project
root is in `UpwardSearch`.

### RunLog

The journal and the audit trail are sequences of writes, each whole, without its
newline, cut, or cut in the middle of a character; readers see what such a file
parses to. A run makes calls: commands, steps with retries, fan-outs in chunks.
`Begin`, `Answer`, `Finish`, `Retry`, `NextChunk` and `Return` are the loop of
`steps.rs` and `ssh_exec_all`; `Check` is the poll of the interrupt flag;
`FinishRun` and `File` end a run. Runs follow one another or are nested in a
command. A write may fail, or only its `sync_data`; a process may die in one, a
signal may come at any time. A run that was warned that its journal is incomplete is left out of the
claims (`Sure`), and so is a journal that is not UTF-8 any more (section 5).

### CommandRunner

One call of `piped_io` and what its callers make of it: the polling loop, three
threads, two output pipes of `Cap` units and one for input, the child and a
grandchild in its group, the deadline, the flag, and for transfers the far side
and the destination. The child may read, write, wait, exit and fork as it likes;
a `put` only acts on exactly what was announced, as `atomic_write_command` and the
script frame do, and a `get` may exit 0 only after the whole file. What a call
captures is abstracted to counts. Assumed: no grandchild leaves the process
group (`CanEscape = FALSE`); one that calls `setsid` keeps the pipes and makes
`Ends` fail (section 5).

### The parts of `LocalTools` and `HostTools`

`LocalTools` and `HostTools` instantiate sixteen modules that share no variable: seven
that are about the machine `nrg` runs on, nine about hosts, proxies and accounts. A
behaviour is one of them, chosen by `part`, and the variables of the others are 0.
`MCTools` extends both and gives the constants values, so one run answers for all of
them, without their product. The properties that this run checks are those of
`LocalTools` and `HostTools`, which the proofs are about.

* **SimOverlay, HostProbes, PortPicks.** Every container command is applied to
  the overlay and to the live host; every read is answered by both. `real` is the
  host before the run, `sim` and `seeded` the fields of the overlay. A probe may
  fail in the dry run, in the live run or in both, with any exit code and any
  `Wordings`: run `tools` leaves out the words of `probe_absent`. Hosts share
  nothing, so one is enough. Ports end at 8 instead of 65535.
* **Redactor.** A stream of bytes in chunks of any size, with secrets that overlap
  and begin with one another, against the redaction of the whole text at once.
* **SecretUse.** A string is known by the pieces in it: the value, its URL
  encodings, the marker of an unrevealed `Secret`. Any string made of pieces a
  script has may go to any builtin. `shown` is what the sinks got, `ran` what
  hosts did.
* **KeyFiles.** Commands in one directory, each file access a step, killed
  anywhere, while the user edits `.env`. One `seal` at a time: the code has no
  lock for two (section 5). `age` is external.
* **UpwardSearch.** Who may write each directory and file on the way up, against
  the nearest candidate.
* **ServiceLife.** `deploy`, `rollback`, `remove` and the operator's reconciliation
  over the state keys of one service; a deploy is one step with every outcome a
  deploy has. `shape` is history: the configuration that the current and the
  recorded previous image last ran with, and `misread` are the hosts forgotten by a
  removal that took a failure for an absent container (section 5).
* **HttpCalls.** One call with a thread per request of a chunk; servers answer,
  fail, redirect, or act without their answer coming through.
* **ModuleRun.** A module is what it imports, calls and does, at its top level and
  in its function. The attempt with the files of the project, the test of the
  error, and the attempt with the embedded library, while `nrg vendor` writes.
  Assumed (`ModulesAssumption`): the top level of a module imports and may act, but
  calls no function of the library, as in every embedded module; one of the project
  that does is outside the model.
* **SshConnections.** Aliases that name accounts, the socket each gets from the
  `ControlPath` template, masters that outlive a command, and host keys.
* **Rehearsal, HostReports.** The control of the two kinds of report: what is run
  or probed, tolerated, retried and reported, with connections that fail and an
  operator who interrupts.
* **ReleaseDirs.** Two runs on one root, each command with its lost answers; the
  lock is one step, `DeployLock` has its commands. `Deactivate` says whether the
  caller gave a deactivate command.
* **CaddyRoutes.** The routes array of one Caddy and two services; PATCH, and POST
  only after a 404; boot with `--resume`; crashes of the container. `claims` is
  history: what each script may believe of its route. Assumed: one script per
  service at a time (`DeployLock`), a command that failed is over
  (`FleetLateSwitch` drops that).
* **HealthGate.** The four loops with their limits, against any sequence of
  answers, live and dry; Ctrl-C ends the script and the gate with it.
* **BunnyFleet.** `deploy_fleet` with canaries and batches, `deploy_app` and
  `rollback_app`. A canary is a batch of one whose failed snapshot counts against
  it. Images are known by their tags, and targets are apart.

## 3. Runs

| run | instance | shows |
|---|---|---|
| `fleet_deploy` | 2 hosts, 3 ports, 2 deploys, fair | `RecordedHostServes`, `ClosedHostIsClean`, `FailedDeployUndoesFleet`, `RecordedOnlyWhenFleetServes`, the refinement of `FleetLedger`, `DeployEnds` |
| `deploy_lock` | 2 hosts, 2 runs, 2 faults, any number of lost answers | `MutualExclusion`, `NoOrphan`, `OneGetsThrough` |
| `deploy_lock_ends` | 1 host, 2 runs, 1 fault, fair | `LockingEnds` |
| `transaction` | 4 effects, 3 nested calls, 2 signals | `FinalStays`, `FailureUndoesAll`, `NewestFirst`, `SignalCutsOne` |
| `state_store` | 3 runs, 2 destinations, 5 edits of which 2 are made | `OneWriter`, `WholeAfterPowerCut`, `PurgedStaysPurged`, `ReadsWhatWasOnDisk`, `ForeignFileKept`, the refinement of `DestStores` |
| `run_log` | 2 runs, 1 call each of 4 kinds, 2 faults, 2 kept steps | `WriteAhead`, `IncompleteIsListed`, `AuditAgrees` |
| `runner` | 4 kinds of call, pipes of 1 unit, 2 units each way, fair | `SuccessIsComplete`, `TransferWhole`, `NothingLeft`, `PipesFlow`, `Ends` |
| `tools` | the sixteen parts, below | `DryRunAgrees`, `SecretsStayInside`, `SealedOpens`, `EditsSurvive`, `RollbackTargets`, `NoneForgotten`, `RunsAtMostOnce`, `AnswersAreReal`, `RightMachine`, `ReportsHonest`, `ReleaseKept`, `TrafficAsReported` |
| `partial_lock`, `late_switch`, `second_signal`, `probe_absent` | as small as the case needs | violations, section 5 |

Bounds and why they are enough.

* `FleetDeploy`: two hosts are the least for "all or none" and for one host
  failing after the other was switched; more hosts repeat the same per-host
  steps, and the theorems of section 4 cover them. Two deploys let the second
  one meet whatever the first left. Three ports leave a free one when an old and
  an orphaned container both listen.
* `DeployLock`: two hosts are the least for partial acquisition and for lock
  order. `MaxFaults` bounds crashes, interruptions and operator commands; lost
  answers and failed writes are not bounded. `MaxRuns` is 1: a run that deploys
  twice keeps its context, and its second deploy meets its own first one's locks.
  That case, and a third run that profits from a leftover command while the
  second works, are left to the theorems `DeploysExclude`, `LocksAreOwned` and
  `RacesAreWon`, which cover any number of runs and of deploys of a run.
* `Transaction`: three nested calls cover a transaction in a compensation of a
  nested transaction; four effects cover two on each side of a mark; two signals
  cover a second one that meets a pending first and a second one that does not.
* `StateStore`: three runs are a parent, its nested run and a stranger. Two
  mutations are a purge and a write after it, or one in each of two runs. The
  edits have a key of the default destination, a key with a slash, one per kind.
* `RunLog`: two runs are one that tears the file and one that reads it, or one
  nested in the other; two faults are a tear and a kill. The calls are a retried
  step, one that must not be retried, a compensation that does not poll, and a
  fan-out over more hosts than a chunk, with more steps than are kept.
* `CommandRunner`: pipes of one unit block as soon as anybody is ahead; two
  units are one more than a pipe or a limit holds.
* `MCTools`: 3 container names and 4 commands; texts of 6 bytes with 3 secrets,
  the longest of 3, in chunks of up to 2; 2 processes on key files and 3 edits; 2
  hosts, 3 images of which one is `:latest`, and 2 configurations for a service
  (rollback over two releases, a tag that moves, one host ahead of the other);
  chunks of 2 requests
  with a malformed one at each end; a library of 3 modules; 3 aliases and 3
  commands; 2 runs, 3 versions, 3 operations and 2 failures for releases (a third
  version for one that failed between two that worked), with a deactivate command;
  2 services and 3 calls of Caddy; gates of up to 4 attempts; 3 apps and 2 calls of a fleet. About 940,000
  states.

Deadlock is checked for `CommandRunner`, which has `Done` to stutter.
`CHECK_DEADLOCK FALSE` elsewhere: deploys, runs and scripts are bounded and end.

Fairness. `FleetDeploy` assumes `WF(Script)`: the script is one sequential
process, every command has a deadline (`runner.rs`), every retry a bound. It is
one condition on the whole script and not one per command, so nothing is assumed
of which outcome a command has. `DeployLock` assumes `WF(Step(p))` for each run,
by the same deadline, and nothing of the shells on the hosts: `GiveUp` is what
keeps a run going. `CommandRunner`, which is that deadline, assumes that the
operating system runs the threads of the call (`WF` of `Spawn`, of the waiting
loop, of the writer and of each drain). `Ends` adds that time passes
(`WF(Deadline)`) and assumes nothing of the child. `PipesFlow` adds no deadline:
it says that a child which is given what it waits for, and gets rid of what there
is room for (`WF` of `Read` and `Output`), never waits on a pipe for ever. `Transaction` and the others claim no liveness:
a script may loop.

## 4. Proofs

`FleetDeployProofs` proves, for any finite set of hosts, any number of ports and
deploys, from `HostsFinite`, `PortsAssumed` and `NoneAssumed`:

* `TypeCorrect`: `Spec => []TypeOK`
* `NoBlackhole`: `Spec => []RecordedHostServes`
* `ClosedMeansClean`: `Spec => []ClosedHostIsClean`
* `RecordAfterServe`: `Spec => RecordedOnlyWhenFleetServes`
* `ImplementsLedger`: `Spec => LedgerRefinement`
* `FailureUndoesFleet`: `Spec => FailedDeployUndoesFleet`

The argument. None of these is inductive. `RecordedHostServes` says the route
leads to a healthy container, but nothing in it says why the unwind does not
remove that very container. `TransitionInv` adds what the code relies on:
`GenInv` (containers of the running deploy exist only on hosts it has begun, at
the port it captured), `BodyInv` (where the host in hand stands for each `pc`),
`CurInv`, `StackInv` (what the compensations still on the stack say of their
hosts: a pending restore means the old container still serves the captured
target), and `RetireInv` (after the record, an old container is only stopped
once the route has left it). `TransitionInvariance` proves it inductive, one
lemma per action; the properties follow.

`FailureUndoesFleet` needs the past as well. `UndoInv`: whatever differs on a host
from what the deploy found there (`before`) is undone by a compensation that is
still on the stack, and the one that restores the route stands above the one that
removes the container, so a removal that is skipped because the route still leads
there cannot be the last word. When the unwind has emptied the stack nothing
differs any more.

`DeployLockProofs` proves, for any number of hosts, any finite set of runs and
any number of faults, from `LockAssumed`:

* `TypeCorrect`: `Spec => []TypeOK`
* `DeploysExclude`: `Spec => []MutualExclusion`
* `LocksAreOwned`: `Spec => []NoOrphan`
* `RacesAreWon`: `Spec => []OneGetsThrough`

The argument. Mutual exclusion is about runs, and what could break it are
commands that nobody waits for any more. `LockInv` therefore speaks of tokens.
`TokenInv`: a token names one lock of one run, and at most one take and one drop
command, on that lock's host. `HeldInv`: a held lock, or a taken one whose
answer is on its way, is named in its holder file, and its drop has not been
sent. `ShellInv`: a command half way through creating or removing a directory is
alone there and the holder file is missing; one about to remove the file still
finds its own token in it, so no held lock is under it. `FleetInv`: a run that
works holds a lock for each host of its fleet. Two runs on one host would both
find their token in one file. `LockInvariance` proves it inductive, one lemma
per action of a run, of a command and of the operator. The proof uses what the
operator is asked for: `ForceRelease` only when no run is in a deploy.

`LocksAreOwned` needs to know of every directory whose it is. `OrphanInv`, where no
lost answer, crash or operator excuses the host: a directory belongs to a lock that
some run has or asks for, whose token it holds or whose command is half way there
(`OwnedInv`); every command is awaited (`WaitInv`); one that failed, or was a drop
and is done, has left no directory of its lock (`GoneInv`); no holder file has the
token of a lock still to be taken (`KnownInv`); and a run waits for one command at a
time (`AloneInv`). `RacesAreWon` uses the order of the hosts. `RaceInv`: what a run
has locked for a deploy is below what it has still to lock (`OrderInv`); and while
nothing went wrong and nobody got through, every refusal is on account of a leader,
a run whose lock stands above all locks that refused deploys have left behind
(`LeadInv`): it meets none of them on its way.

`TransactionProofs` proves, for any bounds, from `BoundsAssumed`:

* `TypeCorrect`: `Spec => []TypeOK`, which includes that `depth` counts the
  bodies under way
* `CommittedStays`: `Spec => []FinalStays`
* `AllOrNothing`: `Spec => FailureUndoesAll`
* `LastInFirstOut`: `Spec => NewestFirst`
* `SignalBudget`: `Spec => []SignalCutsOne`

The argument. A mark is a stack height, while the properties are about effects.
`TxnInv` ties the two: the registered effects are in the order they were made
(`CompsInv`); the mark of every call under way, innermost or not, separates the
effects made before it from those since, and only a call that compensates holds
an effect, one of its own time (`CallsInv`); and every effect is settled, final,
registered or being compensated (`FateInv`). When an unwind has emptied the
stack down to its mark, an effect of its time can only be settled or final.
`SignalBudget` needs a budget of its own, `CutInv`: compensations cut, unwinds
that carry an interruption, and the pending flag together never exceed the
signals received; each step only moves a unit from one to the next.

`StateStoreProofs` proves, for any sets of runs, destinations and edits, any
number of mutations, and nested runs that may outlive their hooks, from
`DestsAssumption`:

* `PowerCutSafe`: `Spec => []WholeAfterPowerCut`
* `ForeignKept`: `Spec => ForeignFileKept`
* `MemoryIsOnDisk`: `Spec => []ReadsWhatWasOnDisk`

The argument. `StoreInv` adds what a flush under way relies on: what `update`
would restore (`prev`) is a version that was on disk, and the file was readable
when the flush began and is still, for it may only be replaced by a rename,
which makes it whole. So no flush meets a foreign file.

With the further assumptions `~Detached` (the mode that section 5 excepts),
`EditsAssumption` (a purge writes nothing) and `KeysAssumption` (a key is a
sequence of parts):

* `OneWriterAtATime`: `Spec => []OneWriter`
* `PurgeIsFinal`: `Spec => []PurgedStaysPurged`
* `EditsAreIsolated`: `Spec => Isolated`, the refinement of `DestStores`

The argument. The re-entrant lock is no lock: a nested run does not ask for the
file lock at all, it looks at an environment variable. `OwnerInv` says why that
is enough: the runs that own the project are a chain `s[1], ..., s[n]`, where
`s[1]` holds the lock, each was started by the one before it, all carry the pid of
`s[1]`, and all but the last wait for their hook. A kill takes the processes of
a hook with it, so it cuts the chain at its end; the first one that is gone
exists by the well-ordering of the naturals (`Least`). Two runs in a mutation would
both be last. `PurgesInv` stands on that: from the reload of a purge to its copy
of the backup no other run writes either file, and a backup made later is a copy
of a file without the purged keys.

`EditsAreIsolated` maps the rename of a flush to the abstract step and every other
step to a stutter. `IsolationInv`: while a run flushes, its memory is its edit
applied to the file as it is at that moment, which holds only because no other run
writes since the reload (`OneWriter`). Lemmas on `Put` and `All` say that the raw
keys of two destinations never meet, for any keys, slashes included: so an edit of
one destination leaves what `all` shows of every other.

`RunLogProofs` proves, for any number of runs, calls, hosts, retries and faults,
from `LogAssumption`:

* `TypeCorrect`: `Spec => []TypeOK`
* `StartsAreWritten`: `Spec => []WriteAhead`
* `IncompleteIsRight`: `Spec => []IncompleteIsListed`
* `LogsAgree`: `Spec => []AuditAgrees`

The argument. The properties compare files with what runs did, but a file may end
in half of a line of some other run. `LogInv`: whoever runs and has not been
warned finds the journal closed by a newline (`TailInv`), so what it appends is a
line of its own; what a call has done so far is in the journal, and what it has
begun and not ended is there as begun (`CallInv`, `EndInv`); each line was written
by the run and for the step that it names (`LineInv`, `GivenInv`); and the audit
line of an ended run counts the failures its journal shows (`AuditInv`).

`CommandRunnerProofs` proves, for pipes, limits and files of any size, and also
for grandchildren that leave the group (`CanEscape`), from `SizesAssumption`:

* `TypeCorrect`: `Spec => []TypeOK`
* `SuccessMeansComplete`: `Spec => []SuccessIsComplete`
* `TransfersAreWhole`: `Spec => []TransferWhole`
* `GroupIsGone`: `Spec => []NothingLeft`

The argument. `RunnerInv`: the child writes only while there is room for it and is
fed no more than there is (`SizesInv`); the loop is left only by a call whose child
is gone (`ChildInv`); a drain that came to the end has all of its stream, for good
(`DrainInv`); a child that exits with 0 says something of its transfer (`TransferInv`);
a call that gave up passes through the kill of the group (`GroupInv`); and a call
that reports success has seen child, writer and drains succeed (`ResultInv`).

`HostProofs` and `LocalProofs` prove the properties of run `tools` for every value
of the constants, from `HostAssumption` and `LocalAssumption` (the assumptions of
the parts; TLC evaluates them through `MCTools`):

* of `HostTools`: `RollbacksAreRight` (`RollbackTargets`), `NobodyIsForgotten`
  (`NoneForgotten`), `AnswersStand` (`AnswersAreReal`), `CommandsRunWhereMeant`
  (`RightMachine`), `ReportsAreHonest` (`ReportsHonest`), `ReleasesAreKept`
  (`ReleaseKept`), `TrafficGoesAsReported` (`TrafficAsReported`)
* of `LocalTools`: `PlansAgree` (`DryRunAgrees`), `SecretsStay`
  (`SecretsStayInside`), `WhatIsSealedOpens` (`SealedOpens`), `EditsStay`
  (`EditsSurvive`), `ModulesRunOnce` (`RunsAtMostOnce`)

The argument. Each part has an inductive invariant of its own and a lemma that its
behaviours keep the part's property (`LifeHolds`, `SimHolds`, ...). A behaviour
of `HostTools` keeps `part`, starts as that part and steps as that part
(`HostStart`, `HostStep`), so the property carries over; every behaviour of
`MCTools` is one of both. What the invariants say:

* `ServiceLife`: the current image last ran with the current configuration, a
  configuration is forgotten only with its release (`ChainInv`), and what runs on
  a host is recorded there, unless it was misread (`HostsInv`).
* `ReleaseDirs`: for each step of the run that holds the lock, what `current` and
  what runs are; nobody else is past its lock.
* `CaddyRoutes`: every list of routes has one route per service at most, and what
  a script may believe of its route is true of the live list.
* `BunnyFleet`: groups are disjoint blocks of the fleet, and an app that has left
  "waits" did so when all groups before its own were settled and good enough.
* `HealthGate`: the streak counts the good probes at the end of the sequence.
* `HttpCalls`: one chunk is in flight, and an answer names its request.
* `SshConnections`: a master is logged in where the alias that opened it points, on
  a host that was let in.
* `HostReports`, `Rehearsal`: what was seen of a host is so; a row that a rehearsal
  has passed ran, unless it was not wanted, failed or was cut. What `FlattenSeq`
  makes of a contract is a lemma, by the least counterexample (`Least`).
* `SimOverlay`: each name is untouched, in doubt, or as on the live host.
* `PortPicks`: the next port of a plan is above all that it named for a base.
* `Redactor`: what is out and the redaction of what waits are the redaction of the
  whole, whatever comes after; and no secret begins any more in what was shown.
* `SecretUse`: a resolved value is registered; an encoding that is not was made
  before.
* `KeyFiles`: who is in `init` made the key and has not written its public half; a
  public half of a process, and what was sealed for it, go with the key that is there.
* `ModuleRun`: before the first call only top levels ran, and these call nothing;
  so the second attempt starts only while nothing has acted.
* `UpwardSearch`: a search under way has passed no candidate and no boundary.

Only model-checked: `DeployEnds`, `LockingEnds`, `PipesFlow` and `Ends`, which
are liveness under fairness and beyond the prover. Every invariant, action property and
refinement that a run checks is proved, except those that section 5 refutes. No
module with a theorem declares a RECURSIVE operator.

## 5. Where the code and its documentation disagree

Shown by a run:

* `partial_lock`: `docs/safety.md` says the lock is released once the whole
  deploy finishes, success or failure. A deploy refused at its second host keeps
  the first one locked until the run ends. A script that catches the error and
  goes on holds a lock for a deploy that is over.
* `late_switch`: the runner gives up at the deadline with "remote outcome is
  unknown". If the proxy switch lands after the unwind has restored the old
  target and removed the new container, the recorded host serves nothing.
* `second_signal`: `docs/safety.md` says a second signal exits at once, any time
  after the first. The first is consumed where it strikes, so a second one that
  arrives in the unwind only cuts one compensation short.
* `probe_absent`: `sim.rs` says a probe that failed to run is never mistaken for
  an absent container. An ssh that exits with 255 after complaining of "no such
  identity" is.

Met while modelling, and excepted in the models where a property would meet
them:

* Locks. `docs/safety.md:460-468` and the comment at `lib/deploy.rhai:269-274` say
  that a deploy stopped by Ctrl-C leaves its lock held until an operator removes
  it. The code releases it: the locks belong to the run (`ctx.remote_locks`), their
  `Drop` runs when the run ends, interrupted or not, and
  `tests/general_workflows.rs:653` tests that it does. `NoOrphan` says what the
  code does. The same section has one lock, on the first host, removed with
  `rm -rf` (`:436-440`), and no `nrg lock` (`:469-471`); the code locks every host
  in sorted order, with a token that only its owner removes, and has `nrg lock`.
* State, logs. A nested run that detaches itself keeps `NRG_STATE_LOCK` of a
  parent that lives, and writes beside it (`OneWriter` with `Detached = TRUE`). A
  writer killed in a flush leaves its temporary file. A write cut in the middle of
  a character makes the whole audit trail, and the whole journal, unreadable,
  though `audit.rs:98-100` says malformed lines are skipped. `purge_globals`
  deletes target, port, transition and container of every host of the service,
  also of hosts that another recipe owns.
* Runner. A grandchild that calls `setsid` keeps the output pipes, and the call
  waits for it past its deadline, though `docs/safety.md:1051` gives every call
  one (`Ends` with `CanEscape = TRUE`). A `ControlPath` override with `%h` is
  shared by two aliases of one host name.
* Dry runs. `sim.rs:13-14` and `docs/safety.md:104` say a container is never read
  again; a rename forgets the mark of the old name. The counter of picked ports
  belongs to the host, so picks from different bases can collide. A dry run
  accepts base ports 55437 to 55535 that a live run refuses. `wait_port` on an
  explicitly published port is false in a dry run though `sim_docker_run` is said
  to mark ports; so is `wait_container_healthy` of a container never read. Image
  ids and container names share one map of marks. A gate with an
  `expected_status` other than 200 fails every dry run, whose comment says it
  assumes the container healthy.
* Secrets. The marker of an unrevealed `Secret` is not looked for in standard
  input, and `json_string` or `url_encode` of an interpolated one disguises it.
  `docs/safety.md:1065` describes `NRG_STRICT_TRUST=1`, which
  `ensure_key_file_is_trusted` does not read. Two concurrent seals of one file
  corrupt it while both exit with 0. `nrg secrets init` killed between its two
  files, with a public key committed by the team, leaves a pair that does not
  match.
* Commands. `nrg remove` takes any failure but an ssh one for an absent container
  if its error output has "no such" in it (`remove.rs:217`): "dial unix
  /var/run/docker.sock: connect: no such file or directory" is one. Its comment
  (`:191`) and `docker.rhai:732` speak of "no such container". With `--purge-state`
  the host is then forgotten while its container runs (`NoneForgotten` excepts
  such hosts, `misread`). A rehearsal that is interrupted and cannot close its workspace exits
  with 1, though `docs/rehearsal.md` says 130. `setup --yes` takes a connection
  lost between its two probes for a missing runtime and runs the installer.
  `nrg vendor` takes no lock: a run meanwhile may mix old and new modules. The
  comment of `attempt_rollback` does not consider that a customised module may
  act at its top level before the import that is missing.
* Scripts. Comments of `rollback()` (`deploy.rhai:971-999`, `:1085-1118`) speak of
  a change of `.prev` before the nested deploy that the code no longer makes. The
  comment of `lock_host_for` (`:1306`) anchors the lock on one host; deploys lock
  every host. `accessory_upgrade` is said to bump a running accessory, but it
  reads neither the result of its stop nor that of its remove: when both fail,
  `accessory_run` finds the old container running and reports success.
  `accessory_stop` does not read the result of its stop either.
* Caddy. Two services of one host that boot its proxy at the same time: the look
  and the `rm -f` are two commands, so the second `rm -f` kills the proxy that the
  first boot has just started, though the comment says "No-op if already
  running". A route without a domain swallows the traffic of the routes posted
  after it. A deploy without `cfg.domain` after `proxy_set_tls` replaces the
  whole route and drops the match.
* Bunny. `deploy_app` is said to snapshot the current tag before the PATCH; it
  does so afterwards, so a process that dies in between, or a PATCH whose answer
  is lost, leaves an app on the new image with the older snapshot, and a rollback
  then goes back two releases. The same holds for a target of `deploy_fleet` that
  failed its check; and the next rollout takes that unverified image as its
  rollback target. `rollback_app` is said to send only the tag; it sends the name
  and digest of the snapshot too.

## 6. Not modelled, and what is left

Not modelled, and why:

* kamal-proxy's boot, TLS and maintenance mode: one remote command each, without
  a second step that a failure could part from the first. Its switch and restore
  are in `FleetDeploy`.
* Image pruning of a deploy: after the commit and best effort, on images no step
  uses.
* Accessories (`accessory_run`, `_stop`, `_restart`, `_upgrade`): functions of the
  script outside the roll, each a check and one to three commands on a container
  of its own name that no other step of the library touches.
* `create_app` and `delete_app` of `lib/bunny.rhai`: one request each after their
  checks.
* `nrg app`, `init`, `ssh`, `tasks`, `run`, and the scripts registry, notify,
  mise, runtime, recipe and contracts: they hand over to one process or one
  request and keep no state that another step reads.
* The Rhai interpreter, `age`, ssh, docker, Caddy, the HTTP client: external, and
  modelled by how the code uses them.

Left to do. Liveness stays with TLC. Of the hazards, the boot of one proxy by two
services at once (section 5, Caddy) has no property: the code does not keep it.
The partial components above are where the model can still grow: kamal-proxy's
own commands and the accessories first.
