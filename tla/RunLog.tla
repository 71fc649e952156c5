------------------------------ MODULE RunLog ------------------------------
(* What a run leaves behind about itself: the events of the run journal
   (engine/journal.rs), written before and after every command it gives to a
   host (builtins/exec.rs, builtins/steps.rs, engine/diagnostics.rs), and its
   entry in the audit trail (audit.rs, cli/exec.rs), in files that several
   runs append to, one after another or one nested in another, and that any
   of them may leave torn.

   A log is the sequence of writes made to it.  A write is Whole (a line and
   its newline), Bare (the line without its newline), Cut (part of the line),
   Split (part of it, up to the middle of a character), or the newline that
   Journal::open adds.                                                      *)
EXTENDS Integers, Sequences, FiniteSets, SequencesExt

CONSTANTS
  Runs,
  Calls,      \* what a script may ask for: [hosts, chunk, retries, idempotent, checks]
  KeptSteps,  \* step records an audit entry keeps (128)
  MaxCalls,   \* bound: calls a script makes
  MaxFaults,  \* bound: failed writes, kills and signals
  None

\* ssh_exec_all answers for no host without a command; a chunk has a host.
ASSUME LogAssumption ==
  /\ \A c \in Calls :
       /\ Len(c.hosts) \in Nat \ {0} /\ c.chunk \in Nat \ {0} /\ c.retries \in Nat
  /\ KeptSteps \in Nat \ {0} /\ {MaxCalls, MaxFaults} \subseteq Nat /\ None \notin Calls

VARIABLES
  journal, audit,
  pc, call, from, at, attempt,
  steps,      \* RunCtx.steps, by step id
  held,       \* runs whose RunCtx.journal is there
  next,       \* Journal.next
  interrupted, wasInterrupted,
  calls, faults,
  bad,        \* runs with a failed command in the chunk under way
  failed,     \* runs whose script failed
  unsure,     \* runs told that a journal event is not persisted
  given,      \* <<run, step id>> of the commands of current calls given to a host
  filed       \* runs whose audit entry was appended without a warning

logs  == <<journal, audit>>
where == <<call, from, at, attempt, bad>>
ghost == <<unsure, given, filed>>
vars  == <<journal, audit, pc, call, from, at, attempt, bad, steps, held, next,
           interrupted, wasInterrupted, calls, faults, failed, unsure, given, filed>>

(* ------------------------- logs, and reading them ------------------------ *)
Write(e, how) == [entry |-> e, form |-> how]
Ended(w)     == w.form \in {"whole", "newline"}

(* The write that starts at i is a line of its own that parses.              *)
IsLine(log, i) ==
  /\ log[i].form \in {"whole", "bare"}
  /\ i > 1 => Ended(log[i - 1])
  /\ log[i].form = "bare" /\ i < Len(log) => log[i + 1].form = "newline"

(* read and read_all: malformed lines are skipped, but a file that is not
   UTF-8 is not read at all.                                                *)
Utf8(log) ==
  \A i \in DOMAIN log : log[i].form # "split"
Lines(log) == {i \in DOMAIN log : IsLine(log, i)}
Read(log)  == IF Utf8(log) THEN {log[i].entry : i \in Lines(log)} ELSE {}

Event(r, kind, id) == [run |-> r, event |-> kind, id |-> id]
Events(r, kind) == {e \in Read(journal) : e.run = r /\ e.event = kind}

(* nrg audit --incomplete                                                   *)
Incomplete == {e.run : e \in Read(journal)}
                \ {r \in Runs : Events(r, "run_finished") # {}}

(* What a write leaves when it fails or its process dies in the middle; and when
   Journal::write fails, be it only in its sync_data.                       *)
Torn(log, e)   == {log} \cup {Append(log, Write(e, how)) : how \in {"bare", "cut", "split"}}
Failed(log, e) == Torn(log, e) \cup {Append(log, Write(e, "whole"))}
Fault == faults < MaxFaults /\ faults' = faults + 1

Over   == {"ended", "gone", "dead"}
Active == {r \in Runs : pc[r] \notin Over \cup {"off"}}

(* Journal::append: a failure is a warning, the run goes on.  Every run that
   appends to the same file after a tear may be affected by it.             *)
Record(r, e) ==
  IF r \notin held THEN UNCHANGED <<journal, faults, unsure>>
  ELSE \/ journal' = Append(journal, Write(e, "whole")) /\ UNCHANGED <<faults, unsure>>
       \/ journal' \in Failed(journal, e) /\ unsure' = unsure \cup Active /\ Fault

Init ==
  /\ journal = <<>> /\ audit = <<>>
  /\ pc = [r \in Runs |-> "off"]
  /\ call = [r \in Runs |-> None]
  /\ from = [r \in Runs |-> 0] /\ at = [r \in Runs |-> 0] /\ attempt = [r \in Runs |-> 0]
  /\ steps = [r \in Runs |-> <<>>]
  /\ held = {} /\ next = [r \in Runs |-> 0]
  /\ interrupted = {} /\ wasInterrupted = {}
  /\ calls = [r \in Runs |-> 0] /\ faults = 0 /\ failed = {}
  /\ bad = {} /\ unsure = {} /\ given = {} /\ filed = {}

(* One run at a time, or one that a command of the other has started.       *)
Turn(r) == \A q \in Active \ {r} : pc[q] = "commands"

(* --------------------------- starting a run ----------------------------- *)
(* Journal::open: a torn last line is closed before run_started.            *)
Unrepaired(log) == log                                                \* mutant
Repaired(log) ==
  IF log # <<>> /\ ~Ended(Last(log)) THEN Append(log, Write(None, "newline")) ELSE log

Start(r) ==
  /\ pc[r] = "off" /\ Turn(r)
  /\ pc' = [pc EXCEPT ![r] = "script"]
  /\ \/ /\ journal' = Append(Repaired(journal), Write(Event(r, "run_started", 0), "whole"))
        /\ held' = held \cup {r} /\ UNCHANGED <<faults, unsure>>
     \/ /\ journal' \in {journal} \cup Failed(Repaired(journal), Event(r, "run_started", 0))
        /\ Fault /\ unsure' = unsure \cup Active \cup {r} /\ UNCHANGED held
  /\ UNCHANGED <<audit, where, steps, next, interrupted, wasInterrupted, calls,
                 failed, given, filed>>

(* ------------------------------- commands ------------------------------- *)
(* steps.rs: retries require idempotent: true.                              *)
Accepted(c) == c.retries > 0 => c.idempotent

Call(r) ==
  /\ pc[r] = "script" /\ Turn(r) /\ calls[r] < MaxCalls
  /\ \E c \in Calls :
       /\ Accepted(c)
       /\ call' = [call EXCEPT ![r] = c]
       /\ pc' = [pc EXCEPT ![r] = IF c.checks THEN "check" ELSE "begin"]
  /\ calls' = [calls EXCEPT ![r] = @ + 1]
  /\ UNCHANGED <<logs, from, at, attempt, bad, steps, held, next, interrupted,
                 wasInterrupted, faults, failed, ghost>>

(* check_interrupt: a pending signal is consumed and ends the call; what the
   script does next are its compensations, whose commands run as usual.     *)
Checked(r, then) ==
  IF r \in interrupted
  THEN /\ interrupted' = interrupted \ {r} /\ wasInterrupted' = wasInterrupted \cup {r}
       /\ pc' = [pc EXCEPT ![r] = "script"]
  ELSE UNCHANGED <<interrupted, wasInterrupted>> /\ pc' = [pc EXCEPT ![r] = then]

(* The call is over: what is kept of it while it lasts is forgotten.        *)
Forgotten(r) ==
  /\ call' = [call EXCEPT ![r] = None]
  /\ from' = [from EXCEPT ![r] = 0] /\ at' = [at EXCEPT ![r] = 0]
  /\ attempt' = [attempt EXCEPT ![r] = 0] /\ bad' = bad \ {r}
  /\ given' = {x \in given : x[1] # r}

Check(r) ==
  /\ pc[r] = "check" /\ Turn(r)
  /\ Checked(r, "begin")
  /\ IF pc'[r] = "script" THEN Forgotten(r) ELSE UNCHANGED <<where, given>>
  /\ UNCHANGED <<logs, steps, held, next, calls, faults, failed, unsure, filed>>

(* The hosts of the chunk under way: positions from + 1 to Until(r).        *)
Until(r) == IF from[r] + call[r].chunk < Len(call[r].hosts)
            THEN from[r] + call[r].chunk ELSE Len(call[r].hosts)
Chunk(r) == (from[r] + 1) .. Until(r)

FirstBegun(r) == at[r] + 1 > from[r]                                  \* mutant
AllBegun(r) ==
  at[r] + 1 = Until(r)

(* diagnostics::begin, for each host of the chunk before any is contacted.  *)
StepId(r, i) == next[r] - Until(r) + i
Begin(r) ==
  /\ pc[r] = "begin" /\ Turn(r)
  /\ next' = [next EXCEPT ![r] = IF r \in held THEN @ + 1 ELSE @]
  /\ Record(r, Event(r, "step_started", next'[r]))
  /\ IF AllBegun(r)
     THEN /\ at' = [at EXCEPT ![r] = from[r]]
          /\ pc' = [pc EXCEPT ![r] = "commands"]
          /\ given' = given \cup {<<r, next'[r] - Until(r) + i>> : i \in Chunk(r)}
     ELSE /\ at' = [at EXCEPT ![r] = @ + 1] /\ UNCHANGED <<pc, given>>
  /\ UNCHANGED <<audit, call, from, attempt, bad, steps, held, interrupted,
                 wasInterrupted, calls, failed, filed>>

(* The commands of a chunk run side by side until all have answered.        *)
Answer(r) ==
  /\ pc[r] = "commands" /\ Turn(r)
  /\ bad' \in {bad, bad \cup {r}}
  /\ pc' = [pc EXCEPT ![r] = "finish"]
  /\ UNCHANGED <<logs, call, from, at, attempt, steps, held, next, interrupted,
                 wasInterrupted, calls, faults, failed, ghost>>

(* record_started, for each host of the chunk in order.                     *)
KeptFirst(s, x) == IF Len(s) = KeptSteps THEN s ELSE Append(s, x)      \* mutant
Kept(s, x) ==
  IF Len(s) = KeptSteps THEN Append(Tail(s), x) ELSE Append(s, x)

Finish(r) ==
  /\ pc[r] = "finish" /\ Turn(r)
  /\ LET i == at[r] + 1
     IN  /\ Record(r, Event(r, "step_finished", StepId(r, i)))
         /\ steps' = [steps EXCEPT ![r] = Kept(@, StepId(r, i))]
         /\ at' = [at EXCEPT ![r] = i]
         /\ pc' = [pc EXCEPT ![r] = IF i = Until(r) THEN "decide" ELSE "finish"]
  /\ UNCHANGED <<audit, call, from, attempt, bad, held, next, interrupted,
                 wasInterrupted, calls, failed, given, filed>>

(* After a chunk: another attempt, the next chunk, the answer or an error.  *)
Retry(r) ==
  /\ pc[r] = "decide" /\ Turn(r)
  /\ r \in bad /\ attempt[r] < call[r].retries /\ r \notin interrupted
  /\ attempt' = [attempt EXCEPT ![r] = @ + 1]
  /\ bad' = bad \ {r}
  /\ at' = [at EXCEPT ![r] = from[r]]
  /\ pc' = [pc EXCEPT ![r] = "check"]
  /\ UNCHANGED <<logs, call, from, steps, held, next, interrupted, wasInterrupted,
                 calls, faults, failed, ghost>>

NextChunk(r) ==
  /\ pc[r] = "decide" /\ Turn(r)
  /\ Until(r) < Len(call[r].hosts) /\ r \notin interrupted
  /\ from' = [from EXCEPT ![r] = Until(r)]
  /\ bad' = bad \ {r}
  /\ pc' = [pc EXCEPT ![r] = "check"]
  /\ UNCHANGED <<logs, call, at, attempt, steps, held, next, interrupted,
                 wasInterrupted, calls, faults, failed, ghost>>

Return(r) ==
  /\ pc[r] = "decide" /\ Turn(r)
  /\ \/ r \in interrupted
     \/ /\ Until(r) = Len(call[r].hosts)
        /\ r \in bad => attempt[r] = call[r].retries
  /\ Checked(r, "script") /\ Forgotten(r)
  /\ UNCHANGED <<logs, steps, held, next, calls, faults, failed, unsure, filed>>

(* ------------------------------ ending a run ---------------------------- *)
Cancelled(r) == r \in interrupted \cup wasInterrupted

(* The script returns or throws; a signal, pending or not, is a failure.    *)
EndScript(r) ==
  /\ pc[r] = "script" /\ Turn(r)
  /\ \E threw \in BOOLEAN :
       failed' = IF threw \/ Cancelled(r) THEN failed \cup {r} ELSE failed
  /\ wasInterrupted' = wasInterrupted \cup (interrupted \cap {r})
  /\ interrupted' = interrupted \ {r}
  /\ pc' = [pc EXCEPT ![r] = "closing"]
  /\ UNCHANGED <<logs, where, steps, held, next, calls, faults, ghost>>

FinishRun(r) ==
  /\ pc[r] = "closing" /\ Turn(r)
  /\ Record(r, Event(r, "run_finished", 0))
  /\ pc' = [pc EXCEPT ![r] = "filing"]
  /\ UNCHANGED <<audit, where, steps, held, next, interrupted, wasInterrupted, calls,
                 failed, given, filed>>

Entry(r) == [run |-> r, outcome |-> r \notin failed, steps |-> steps[r]]

File(r) ==      \* audit::append
  /\ pc[r] = "filing" /\ Turn(r)
  /\ \/ /\ audit' = Append(audit, Write(Entry(r), "whole"))
        /\ filed' = filed \cup {r} /\ UNCHANGED faults
     \/ audit' \in Torn(audit, Entry(r)) /\ Fault /\ UNCHANGED filed
  /\ pc' = [pc EXCEPT ![r] = "ended"]
  /\ UNCHANGED <<journal, where, steps, held, next, interrupted, wasInterrupted,
                 calls, failed, unsure, given>>

(* ------------------------------- the outside ---------------------------- *)
Signal(r) ==
  /\ r \in Active \ interrupted /\ Fault
  /\ interrupted' = interrupted \cup {r}
  /\ UNCHANGED <<logs, pc, where, steps, held, next, wasInterrupted, calls, failed,
                 ghost>>

(* A process dies, perhaps in the middle of the write it was about to make. *)
AboutTo(r) ==
  IF r \notin held THEN {}
  ELSE CASE pc[r] = "begin" -> {Event(r, "step_started", next[r] + 1)}
         [] pc[r] = "finish" -> {Event(r, "step_finished", StepId(r, at[r] + 1))}
         [] pc[r] = "closing" -> {Event(r, "run_finished", 0)}
         [] OTHER -> {}

Kill(r) ==
  /\ r \in Active /\ Fault
  /\ journal' \in {journal} \cup UNION {Torn(journal, e) : e \in AboutTo(r)}
  /\ unsure' = IF journal' = journal THEN unsure ELSE unsure \cup (Active \ {r})
  /\ audit' \in IF pc[r] = "filing" THEN Torn(audit, Entry(r)) ELSE {audit}
  /\ pc' = [pc EXCEPT ![r] = IF @ \in {"closing", "filing"} THEN "gone" ELSE "dead"]
  /\ Forgotten(r) /\ steps' = [steps EXCEPT ![r] = <<>>] /\ next' = [next EXCEPT ![r] = 0]
  /\ interrupted' = interrupted \ {r}
  /\ UNCHANGED <<held, wasInterrupted, calls, failed, filed>>

Step(r) == \/ Start(r) \/ Call(r) \/ Check(r) \/ Begin(r)
           \/ Answer(r) \/ Finish(r) \/ Retry(r) \/ NextChunk(r) \/ Return(r)
           \/ EndScript(r) \/ FinishRun(r) \/ File(r)

Next == \E r \in Runs : Step(r) \/ Signal(r) \/ Kill(r)
Spec == Init /\ [][Next]_vars

---------------------------------------------------------------------------
Sure(r) == r \in held \ unsure /\ Utf8(journal)

Kinds      == {"run_started", "step_started", "step_finished", "run_finished"}
EventsOf   == [run : Runs, event : Kinds, id : Int]
EntriesOf  == [run : Runs, outcome : BOOLEAN, steps : Seq(Int)]
Writes(es) == [entry : es, form : {"whole", "bare", "cut", "split", "newline"}]

TypeOK ==
  /\ journal \in Seq(Writes(EventsOf \cup {None})) /\ audit \in Seq(Writes(EntriesOf))
  /\ pc \in [Runs -> Over \cup {"off", "script", "check", "begin", "commands", "finish",
                                "decide", "closing", "filing"}]
  /\ call \in [Runs -> Calls \cup {None}]
  /\ {from, at, attempt, next} \subseteq [Runs -> Nat]
  /\ steps \in [Runs -> Seq(Int)] /\ \A r \in Runs : Len(steps[r]) <= KeptSteps
  /\ calls \in [Runs -> 0 .. MaxCalls] /\ faults \in 0 .. MaxFaults
  /\ given \subseteq Runs \X Int
  /\ {held, unsure, filed, interrupted, wasInterrupted, failed, bad} \subseteq SUBSET Runs

(* Write ahead: of every command given to a host, each attempt of it, the
   journal of a run that was not warned has the start, in every chunk of a
   fan-out, whatever runs tore the file before (diagnostics::begin,
   ssh_exec_all, the retries of steps.rs).                                  *)
WriteAhead ==
  \A x \in given :
     Sure(x[1]) => \E e \in Events(x[1], "step_started") : e.id = x[2]

(* nrg audit --incomplete lists a run that is under way or died, and not one
   that came to its end, however an earlier run left the file
   (Journal::open, cli/audit.rs).                                           *)
IncompleteIsListed ==
  \A r \in Runs : Sure(r) =>
     /\ pc[r] \in {"filing", "ended"} => r \notin Incomplete
     /\ pc[r] \notin {"filing", "ended", "gone"} => r \in Incomplete

(* The step_finished events of r, and that s has the ids of the last of them,
   as many as an entry keeps, in the order of the journal.                  *)
Finished(r) ==
  {i \in Lines(journal) : journal[i].entry.run = r /\ journal[i].entry.event = "step_finished"}
LastFinished(r, s) ==
  \E f \in [DOMAIN s -> Finished(r)] :
    /\ \A k, m \in DOMAIN s : k < m => f[k] < f[m]
    /\ \A k \in DOMAIN s : s[k] = journal[f[k]].entry.id
    /\ \A i \in Finished(r) : i \in Range(f) \/ (Len(s) = KeptSteps /\ i < f[1])

(* The two logs agree: the steps of an audit entry are the last ones that the
   journal has as finished, in that order; and a run that a signal cut short
   never files a success, whoever consumed the signal (record_started,
   execute_with, was_interrupted).                                          *)
AuditAgrees ==
  \A a \in Read(audit) :
    /\ a.outcome => a.run \notin wasInterrupted
    /\ Sure(a.run) => LastFinished(a.run, a.steps)

===========================================================================
