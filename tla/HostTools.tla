------------------------------ MODULE HostTools -----------------------------
(* What nrg does to hosts, proxies and accounts, and what it reports of them: parts
   that stand alone, each an instance of its module.  A behaviour is one of them,
   and the variables of the others are 0.                                    *)
EXTENDS Parts

CONSTANTS
  Hosts, Services,                                 \* of several parts
  Statuses, MaxOps,
  Images, Configs, Mutable,                        \* ServiceLife
  Requests, Chunk,                                 \* HttpCalls: its batches
  Aliases, Option, Overrides, MaxCommands,         \* SshConnections
  Contracts, MaxScenarios, MaxTotal, Codes,        \* Rehearsal: steps in all
  Fleets, Records,                                 \* HostReports: its worlds
  Versions, Keeps, Deactivate, MaxFaults,          \* ReleaseDirs
  Upstreams, Domains,                              \* CaddyRoutes: its targets
  Limits,                                          \* HealthGate
  Apps, Builds, Canaries, Batches, Tolerated,      \* BunnyFleet: its images, its failures
  MaxCalls

VARIABLES
  verb, planning, batch, answers, outcome, responses, acted, types, notes,
  contract, executing, faults, wrong, rows, place, started, broken, signals,
  scratch, verdict, code,
  gate, cfg, is_dry_run, probed, streak, opened,
  tool, asked, option, rehearsing, store, record, amiss, fleet, seen,
  installed, booted, exit,
  path, home_dir, persist, policy, trusted, known, masters, commands, last,
  releases, newer, current, running, healthy, holder, step, op, replaced,
  unsettled, ops, failures,
  caddy, saved, stage, call, claims, secured, calls,
  served, snapshot, rollout, went, earlier, finish, before, begun,
  image, config, prev, prev_config, target, transition, web, own, shape, misread
-----------------------------------------------------------------------------
Life     == INSTANCE ServiceLife
Http     == INSTANCE HttpCalls WITH Batches <- Requests
Ssh      == INSTANCE SshConnections
Rehearse == INSTANCE Rehearsal WITH MaxSteps <- MaxTotal
Report   == INSTANCE HostReports WITH Worlds <- Fleets
Release  == INSTANCE ReleaseDirs
Proxy    == INSTANCE CaddyRoutes WITH Targets <- Upstreams
Gate     == INSTANCE HealthGate
Bunny    == INSTANCE BunnyFleet WITH Images <- Builds, Failures <- Tolerated

ASSUME HostAssumption ==
  /\ Life!ServiceAssumption /\ Http!HttpAssumption /\ Ssh!SshAssumption
  /\ Rehearse!RehearsalAssumption /\ Report!ReportsAssumption /\ Release!ReleaseAssumption
  /\ Proxy!CaddyAssumption /\ Gate!GateAssumption /\ Bunny!BunnyAssumption
-----------------------------------------------------------------------------
HttpVars == <<verb, planning, batch, answers, outcome, responses, acted, types, notes>>
RehearseVars == <<contract, executing, faults, wrong, rows, place, started,
                  broken, signals, scratch, verdict, code>>
GateVars == <<gate, cfg, is_dry_run, probed, streak, opened>>
ReportVars == <<tool, asked, option, rehearsing, store, record, amiss, fleet,
                seen, installed, booted, exit>>
SshVars == <<path, home_dir, persist, policy, trusted, known, masters, commands, last>>
ReleaseVars == <<releases, newer, current, running, healthy, holder, step, op, replaced,
                 unsettled, ops, failures>>
ProxyVars == <<caddy, saved, stage, call, claims, secured, calls>>
BunnyVars == <<served, snapshot, rollout, went, earlier, finish, before, begun>>
LifeVars == <<image, config, prev, prev_config, target, transition, web, own, shape, misread>>

HostInit ==
  /\ part \in Parts
  /\ \/ part = "http" /\ Http!Init
     \/ /\ part # "http"
        /\ verb = 0 /\ planning = 0 /\ batch = 0 /\ answers = 0
        /\ outcome = 0 /\ responses = 0 /\ acted = 0 /\ types = 0
        /\ notes = 0
  /\ \/ part = "rehearsal" /\ Rehearse!Init
     \/ /\ part # "rehearsal"
        /\ contract = 0 /\ executing = 0 /\ faults = 0 /\ wrong = 0
        /\ rows = 0 /\ place = 0 /\ started = 0 /\ broken = 0
        /\ signals = 0 /\ scratch = 0 /\ verdict = 0 /\ code = 0
  /\ \/ part = "gates" /\ Gate!Init
     \/ /\ part # "gates"
        /\ gate = 0 /\ cfg = 0 /\ is_dry_run = 0 /\ probed = 0
        /\ streak = 0 /\ opened = 0
  /\ \/ part = "reports" /\ Report!Init
     \/ /\ part # "reports"
        /\ tool = 0 /\ asked = 0 /\ option = 0 /\ rehearsing = 0
        /\ store = 0 /\ record = 0 /\ amiss = 0 /\ fleet = 0 /\ seen = 0
        /\ installed = 0 /\ booted = 0 /\ exit = 0
  /\ \/ part = "ssh" /\ Ssh!Init
     \/ /\ part # "ssh"
        /\ path = 0 /\ home_dir = 0 /\ persist = 0 /\ policy = 0
        /\ trusted = 0 /\ known = 0 /\ masters = 0 /\ commands = 0
        /\ last = 0
  /\ \/ part = "releases" /\ Release!Init
     \/ /\ part # "releases"
        /\ releases = 0 /\ newer = 0 /\ current = 0 /\ running = 0
        /\ healthy = 0 /\ holder = 0 /\ step = 0 /\ op = 0
        /\ replaced = 0 /\ unsettled = 0 /\ ops = 0 /\ failures = 0
  /\ \/ part = "proxy" /\ Proxy!Init
     \/ /\ part # "proxy"
        /\ caddy = 0 /\ saved = 0 /\ stage = 0 /\ call = 0 /\ claims = 0
        /\ secured = 0 /\ calls = 0
  /\ \/ part = "apps" /\ Bunny!Init
     \/ /\ part # "apps"
        /\ served = 0 /\ snapshot = 0 /\ rollout = 0 /\ went = 0
        /\ earlier = 0 /\ finish = 0 /\ before = 0 /\ begun = 0
  /\ \/ part = "service" /\ Life!Init
     \/ /\ part # "service"
        /\ image = 0 /\ config = 0 /\ prev = 0 /\ prev_config = 0
        /\ target = 0 /\ transition = 0 /\ web = 0 /\ own = 0
        /\ shape = 0 /\ misread = 0

\* Only the chosen one steps.
HostNext ==
  /\ UNCHANGED part
  /\ \/ part = "http" /\ Http!Next
     \/ part # "http" /\ UNCHANGED HttpVars
  /\ \/ part = "rehearsal" /\ Rehearse!Next
     \/ part # "rehearsal" /\ UNCHANGED RehearseVars
  /\ \/ part = "gates" /\ Gate!Next
     \/ part # "gates" /\ UNCHANGED GateVars
  /\ \/ part = "reports" /\ Report!Next
     \/ part # "reports" /\ UNCHANGED ReportVars
  /\ \/ part = "ssh" /\ Ssh!Next
     \/ part # "ssh" /\ UNCHANGED SshVars
  /\ \/ part = "releases" /\ Release!Next
     \/ part # "releases" /\ UNCHANGED ReleaseVars
  /\ \/ part = "proxy" /\ Proxy!Next
     \/ part # "proxy" /\ UNCHANGED ProxyVars
  /\ \/ part = "apps" /\ Bunny!Next
     \/ part # "apps" /\ UNCHANGED BunnyVars
  /\ \/ part = "service" /\ Life!Next
     \/ part # "service" /\ UNCHANGED LifeVars

host_vars == <<part, HttpVars, RehearseVars, GateVars, ReportVars, SshVars,
              ReleaseVars, ProxyVars, BunnyVars, LifeVars>>

HostSpec == HostInit /\ [][HostNext]_host_vars
-----------------------------------------------------------------------------
(* lib/deploy.rhai, bunny.rhai: what a rollback goes back to is the release that
   ran before the last one that was verified, with the config it ran with, and no
   app of a fleet is touched before its turn or after too many failures.      *)
RollbackTargets ==
  /\ part = "service" => Life!RollbackPair
  /\ part = "apps" => Bunny!RolloutAsReported

(* cli/remove.rs: a service that runs somewhere is recorded there, unless the
   failure of its removal was taken for an absent container.                  *)
NoneForgotten == part = "service" => Life!NoneForgotten

(* builtins/http.rs: each answer is that of its request, and a batch with a
   malformed one sends nothing.                                               *)
AnswersAreReal == part = "http" => Http!AnswersAreReal

(* engine/runner.rs: a command runs on the machine its alias names.            *)
RightMachine == part = "ssh" => Ssh!RightMachine

(* cli/rehearse.rs, status.rs, doctor.rs, logs.rs, setup.rs: what is reported as a
   success was run or found, and the cleanup of a rehearsal is attempted.      *)
ReportsHonest ==
  (part = "rehearsal" => Rehearse!RehearsalHonest) /\ (part = "reports" => Report!ReportsHonest)

(* lib/release.rhai: the current release and the one it replaced stay on disk,
   and what the link names runs and passed its check.                         *)
ReleaseKept == part = "releases" => Release!ReleaseKept

(* lib/caddy.rhai, healthcheck.rhai: a service has one route at most, the one its
   script was told of, and a gate opens after enough good probes in a row.     *)
TrafficAsReported ==
  (part = "proxy" => Proxy!RoutesAsReported) /\ (part = "gates" => Gate!PassesInARow)
=============================================================================
