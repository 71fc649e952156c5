----------------------------- MODULE ModuleRun -----------------------------
(* One `nrg exec`, `run`, `rollback` or `setup`: which module runs for an import
   (engine/eval.rs, engine/stdlib.rs), while `nrg vendor` (cli/vendor.rs), which
   takes no lock, may be writing lib/.

   A module is two lists of items: its top level and its function.  An item
   imports a module, calls the function of one, or is an effect.               *)
EXTENDS Naturals, Sequences, SequencesExt

CONSTANTS
  Embedded,      \* names of the standard library, in dependency order
  StdText,       \* their text
  Own,           \* a module of the project that is not in the library
  Mains,         \* texts of an Energize.rhai
  Customs,       \* what a file of lib/ may hold: a set of texts for each name
  NoFile

Names == ToSet(Embedded) \cup {Own}
Commands == {"exec", "run", "rollback", "setup"}

(* The top level of a module imports and may act, but calls no function of the
   library: none of the embedded ones does.  What rollback and setup are about
   does something.                                                            *)
IsText(n, text) ==
  /\ {text.top, text.body} \subseteq Seq(ToSet(text.top) \cup ToSet(text.body))
  /\ \A item \in ToSet(text.top) : item.do # "call" /\ (item.do = "import" => item.of \in Names)
  /\ n \in {"deploy", "proxy"} => \E item \in ToSet(text.body) : item.do = "effect"

ModulesAssumption ==
  /\ Embedded \in Seq(ToSet(Embedded)) /\ {"deploy", "docker", "proxy"} \subseteq ToSet(Embedded)
  /\ Own \notin ToSet(Embedded) \cup {"none"}
  /\ DOMAIN StdText = ToSet(Embedded) /\ DOMAIN Customs = Names
  /\ \A n \in ToSet(Embedded) : StdText[n] # NoFile /\ IsText(n, StdText[n])
  /\ \A n \in Names : \A text \in Customs[n] \ {NoFile} : IsText(n, text)

VARIABLES
  files,           \* lib/ on disk
  copying, force,  \* the next module `nrg vendor` writes; 0: not started
  command, request, main,
  attempt,         \* "file", "lib" or "std"
  loaded,          \* by the FileModuleResolver
  frames,          \* what is running, innermost first
  missing,         \* the last module that was not found
  ended,
  did              \* history: effects that happened

call   == <<command, request, main>>
vendor == <<files, copying, force>>
vars   == <<vendor, call, attempt, loaded, frames, missing, ended, did>>

\* What can be wrong with a call, by command.
Refusals == [exec |-> {}, run |-> {"no identifier", "undefined", "arity"},
             rollback |-> {"unknown runtime"}, setup |-> {"unknown proxy"}]

Init ==
  /\ files \in [Names -> UNION {Customs[n] : n \in Names}]
  /\ \A n \in Names : files[n] \in Customs[n]
  /\ copying = 0 /\ force \in BOOLEAN
  /\ command \in Commands /\ request \in {"ok"} \cup Refusals[command]
  /\ main \in Mains
  /\ attempt = "file" /\ loaded = [n \in Names |-> NoFile] /\ frames = <<>>
  /\ missing = "none" /\ ended = "not started" /\ did = <<>>

(* ------------------------------ nrg vendor -------------------------------- *)
\* A temporary file, then a rename; what is there stays unless --force is given.
VendorWrites ==
  /\ copying < Len(Embedded)
  /\ LET n == Embedded[copying + 1] IN
       files' = IF files[n] = NoFile \/ force
                  THEN [files EXCEPT ![n] = StdText[n]] ELSE files
  /\ copying' = copying + 1
  /\ UNCHANGED <<force, call, attempt, loaded, frames, missing, ended, did>>

(* --------------------------------- a run ---------------------------------- *)
Import(from, n) == [do |-> "import", from |-> from, of |-> n]
Call(from, n)   == [do |-> "call", from |-> from, of |-> n]

\* The script each command evaluates; `run` appends its call to the file.
run_file == main.top
run_fn   == main.top \o main.body
attempt_rollback(prefix) == <<Import(prefix, "deploy"), Call(prefix, "deploy")>>
attempt_setup(prefix) == <<Import(prefix, "docker"), Import(prefix, "proxy"),
                           Call(prefix, "docker"), Call(prefix, "proxy")>>
Script(prefix) ==
  CASE command = "exec"     -> run_file
    [] command = "run"      -> run_fn
    [] command = "rollback" -> attempt_rollback(prefix)
    [] command = "setup"    -> attempt_setup(prefix)

Frame(in, from, of, items) == [in |-> in, from |-> from, of |-> of, rest |-> items]
Begin(prefix) == <<Frame("script", "lib", command, Script(prefix))>>

\* Names, arity, the persisted runtime and the proxy are checked before anything runs.
Refuse ==
  /\ ended = "not started" /\ request # "ok" /\ ended' = "refused"
  /\ UNCHANGED <<vendor, call, attempt, loaded, frames, missing, did>>

Start ==
  /\ ended = "not started" /\ request = "ok" /\ ended' = "no"
  /\ attempt' = IF command \in {"exec", "run"} THEN "file"
                ELSE IF files["deploy"] # NoFile THEN "lib" ELSE "std"
  /\ frames' = Begin(attempt')
  /\ UNCHANGED <<vendor, call, loaded, missing, did>>

Running == ended = "no" /\ frames # <<>>
Top     == frames[1]
Item    == Head(Top.rest)
At(do)  == Running /\ Top.rest # <<>> /\ Item.do = do
Rest    == <<[Top EXCEPT !.rest = Tail(@)]>> \o Tail(frames)
\* Modules of the library see each other only.
From    == IF Top.from = "std" THEN "std" ELSE Item.from

\* A module of the library is there already; one of lib/ is read and its top
\* level runs, once.
Resolve ==
  /\ At("import") /\ (From = "std" \/ files[Item.of] # NoFile \/ loaded[Item.of] # NoFile)
  /\ IF From = "std" \/ loaded[Item.of] # NoFile THEN frames' = Rest /\ UNCHANGED loaded
     ELSE /\ frames' = <<Frame("top", "lib", Item.of, files[Item.of].top)>> \o Rest
          /\ loaded' = [loaded EXCEPT ![Item.of] = files[Item.of]]
  /\ UNCHANGED <<vendor, call, attempt, missing, ended, did>>

AnyFrame(name) == name \in ToSet(Embedded)                            \* mutant
\* The error is wrapped once per module it passes, and otherwise by each
\* function it passes, which is not looked into.
is_module_not_found(name) ==
  name \in ToSet(Embedded) /\ \A i \in DOMAIN frames : frames[i].in # "body"

NotFound ==
  /\ At("import") /\ From = "lib" /\ files[Item.of] = NoFile /\ loaded[Item.of] = NoFile
  /\ missing' = Item.of
  /\ IF attempt = "lib" /\ is_module_not_found(Item.of)
       THEN attempt' = "std" /\ frames' = Begin("std") /\ UNCHANGED ended
       ELSE ended' = "failed" /\ frames' = <<>> /\ UNCHANGED attempt
  /\ UNCHANGED <<vendor, call, loaded, did>>

CallFn ==
  /\ At("call")
  /\ LET text == IF From = "std" THEN StdText[Item.of] ELSE loaded[Item.of]
     IN frames' = <<Frame("body", From, Item.of, text.body)>> \o Rest
  /\ UNCHANGED <<vendor, call, attempt, loaded, missing, ended, did>>

\* What the script does may fail too.
Effect ==
  /\ At("effect") /\ did' = Append(did, [attempt |-> attempt, in |-> Top.in, of |-> Top.of])
  /\ \/ frames' = Rest /\ UNCHANGED ended
     \/ frames' = <<>> /\ ended' = "failed"
  /\ UNCHANGED <<vendor, call, attempt, loaded, missing>>

Leave ==
  /\ Running /\ Top.rest = <<>> /\ frames' = Tail(frames)
  /\ ended' = IF Len(frames) = 1 THEN "done" ELSE ended
  /\ UNCHANGED <<vendor, call, attempt, loaded, missing, did>>

Next == \/ VendorWrites \/ Refuse \/ Start \/ Resolve \/ NotFound
        \/ CallFn \/ Effect \/ Leave

Spec == Init /\ [][Next]_vars
-----------------------------------------------------------------------------
(* eval.rs run_fn, run_rollback, run_setup, is_module_not_found: a call that is
   refused did nothing; the embedded stdlib stands in for a vendored one only
   where a module of it was missing, never for a module of the project; and no
   function of the library runs after one of the vendored copy did anything.   *)
RunsAtMostOnce ==
  /\ ended = "refused" => did = <<>>
  /\ \A i, j \in DOMAIN did :
       did[i].in = "body" /\ did[j].in = "body" => did[i].attempt = did[j].attempt
  /\ attempt = "std" /\ missing # "none" => missing \in ToSet(Embedded)
  /\ missing = Own => ended = "failed"
  /\ ended = "done" /\ command \in {"rollback", "setup"} =>
       \E i \in DOMAIN did :
         did[i] = [attempt |-> attempt, in |-> "body",
                   of |-> IF command = "setup" THEN "proxy" ELSE "deploy"]
=============================================================================
