----------------------------- MODULE LocalTools -----------------------------
(* What nrg does on the machine it runs on: parts that stand alone, each an
   instance of its module.  A behaviour is one of them, and the variables of the
   others are 0.                                                             *)
EXTENDS Parts

CONSTANTS
  Wordings, Containers, Tags, Worlds, MaxSteps,   \* SimOverlay: its names
  Bases, Offset, Span, MaxPort, Busy, MaxPicks,   \* PortPicks
  Bytes, Secrets, Mask, MaxText, MaxChunk,        \* Redactor
  Keys, Sources,                                  \* SecretUse
  Depth,                                          \* UpwardSearch
  MaxEdits, Armors,                               \* KeyFiles
  Embedded, StdText, OwnModule,                   \* ModuleRun
  Mains, Customs, NoFile

VARIABLES
  kind, dir, holds, home, strict, at, result,
  pending, out, scanning, eof, text,
  files, copying, force, command, request, main, attempt, loaded, frames,
  missing, ended, did,
  env, edits, enc, key, pub, pc, arg, token,
  port_picks, occupied, listening, picked, waited,
  source, haveKey, dry, registered, pieces, resolved, fetched, shown, ran,
  early,
  real, images, live, sim, seeded, ids, mine, doubt, answer, steps
-----------------------------------------------------------------------------
Sim    == INSTANCE SimOverlay WITH Names <- Containers
Ports  == INSTANCE PortPicks
Redact == INSTANCE Redactor
Secret == INSTANCE SecretUse
Upward == INSTANCE UpwardSearch
Seal   == INSTANCE KeyFiles
Module == INSTANCE ModuleRun WITH Own <- OwnModule

ASSUME LocalAssumption ==
  /\ Sim!OverlayAssumption /\ Ports!PortsAssumption /\ Redact!RedactorAssumption
  /\ Secret!SourcesAssumption /\ Upward!DepthAssumption /\ Seal!KeyFilesAssumption
  /\ Module!ModulesAssumption
-----------------------------------------------------------------------------
UpwardVars == <<kind, dir, holds, home, strict, at, result>>
RedactVars == <<pending, out, scanning, eof, text>>
ModuleVars == <<files, copying, force, command, request, main, attempt, loaded,
                frames, missing, ended, did>>
SealVars == <<env, edits, enc, key, pub, pc, arg, token>>
PortsVars == <<port_picks, occupied, listening, picked, waited>>
SecretVars == <<source, haveKey, dry, registered, pieces, resolved, fetched, shown, ran, early>>
SimVars == <<real, images, live, sim, seeded, ids, mine, doubt, answer, steps>>

LocalInit ==
  /\ part \in Parts
  /\ \/ part = "search" /\ Upward!Init
     \/ /\ part # "search"
        /\ kind = 0 /\ dir = 0 /\ holds = 0 /\ home = 0 /\ strict = 0
        /\ at = 0 /\ result = 0
  /\ \/ part = "redactor" /\ Redact!Init
     \/ /\ part # "redactor"
        /\ pending = 0 /\ out = 0 /\ scanning = 0 /\ eof = 0 /\ text = 0
  /\ \/ part = "modules" /\ Module!Init
     \/ /\ part # "modules"
        /\ files = 0 /\ copying = 0 /\ force = 0 /\ command = 0
        /\ request = 0 /\ main = 0 /\ attempt = 0 /\ loaded = 0
        /\ frames = 0 /\ missing = 0 /\ ended = 0 /\ did = 0
  /\ \/ part = "keys" /\ Seal!Init
     \/ /\ part # "keys"
        /\ env = 0 /\ edits = 0 /\ enc = 0 /\ key = 0 /\ pub = 0
        /\ pc = 0 /\ arg = 0 /\ token = 0
  /\ \/ part = "ports" /\ Ports!Init
     \/ /\ part # "ports"
        /\ port_picks = 0 /\ occupied = 0 /\ listening = 0 /\ picked = 0
        /\ waited = 0
  /\ \/ part = "secrets" /\ Secret!Init
     \/ /\ part # "secrets"
        /\ source = 0 /\ haveKey = 0 /\ dry = 0 /\ registered = 0
        /\ pieces = 0 /\ resolved = 0 /\ fetched = 0 /\ shown = 0
        /\ ran = 0 /\ early = 0
  /\ \/ part = "sim" /\ Sim!Init
     \/ /\ part # "sim"
        /\ real = 0 /\ images = 0 /\ live = 0 /\ sim = 0 /\ seeded = 0
        /\ ids = 0 /\ mine = 0 /\ doubt = 0 /\ answer = 0 /\ steps = 0

\* Only the chosen one steps.
LocalNext ==
  /\ UNCHANGED part
  /\ \/ part = "search" /\ Upward!Next
     \/ part # "search" /\ UNCHANGED UpwardVars
  /\ \/ part = "redactor" /\ Redact!Next
     \/ part # "redactor" /\ UNCHANGED RedactVars
  /\ \/ part = "modules" /\ Module!Next
     \/ part # "modules" /\ UNCHANGED ModuleVars
  /\ \/ part = "keys" /\ Seal!Next
     \/ part # "keys" /\ UNCHANGED SealVars
  /\ \/ part = "ports" /\ Ports!Next
     \/ part # "ports" /\ UNCHANGED PortsVars
  /\ \/ part = "secrets" /\ Secret!Next
     \/ part # "secrets" /\ UNCHANGED SecretVars
  /\ \/ part = "sim" /\ Sim!Next
     \/ part # "sim" /\ UNCHANGED SimVars

local_vars == <<part, UpwardVars, RedactVars, ModuleVars, SealVars, PortsVars,
               SecretVars, SimVars>>

LocalSpec == LocalInit /\ [][LocalNext]_local_vars
-----------------------------------------------------------------------------
(* engine/sim.rs, builtins/sim.rs: a dry run tells what the live run would find,
   through renames, restarts, failed probes and ports that are taken.         *)
DryRunAgrees == (part = "sim" => Sim!PlanAgrees) /\ (part = "ports" => Ports!PicksAreSound)

(* builtins/sim.rs probe_absent_or_err: a probe that did not run never says that
   a container is not there.                                                  *)
FailedProbeNeverAbsent == part = "sim" => Sim!FailedProbeNeverAbsent

(* engine/secret.rs, diagnostics.rs, builtins/util.rs: no sink shows a resolved
   secret, however its output is cut into chunks, no marker reaches a command,
   and a place that others may write is never read.                           *)
SecretsStayInside ==
  (part = "secrets" => Secret!SecretsStayInside) /\ (part = "redactor" => Redact!Redaction)

(* secrets/mod.rs, cli/secrets.rs, trust.rs, state.rs: what was sealed or
   encrypted here opens here, with the key that is found: the nearest candidate
   is taken or refused, never passed over.                                    *)
SealedOpens ==
  (part = "keys" => Seal!SealedOpens) /\ (part = "search" => Upward!NearestIsTaken)

(* secrets/mod.rs unseal_file: a .env that appeared since the look is kept.    *)
EditsSurvive == Seal!EditsSurvive

(* engine/eval.rs: the fallback to the embedded stdlib never runs a script's
   effects again, nor hides a module of the project that is missing.          *)
RunsAtMostOnce == part = "modules" => Module!RunsAtMostOnce
=============================================================================
