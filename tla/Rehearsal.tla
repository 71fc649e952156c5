----------------------------- MODULE Rehearsal -----------------------------
(* `nrg rehearse` (cli/rehearse.rs): a contract is validated, planned and, with
   --execute, run in a temporary workspace, while commands fail or time out and
   the operator interrupts.

   A step is known by the exit code it expects; names, commands, environments and
   excerpts are left out.                                                     *)
EXTENDS Integers, Sequences, SequencesExt

CONSTANTS
  Contracts,               \* [setup, scenarios, cleanup], malformed ones included
  MaxScenarios, MaxSteps,  \* 64 and 256 in the code
  Codes                    \* that commands exit with

Errors == {"none", "--dest", "bad name", "missing variable", "unreadable"}
Error  == -1               \* a deadline, output over the limit, no child at all
Cut    == 130              \* cancelled by the runner

RehearsalAssumption ==
  /\ {MaxScenarios, MaxSteps} \subseteq Nat /\ Codes \subseteq 0 .. 255 /\ 0 \in Codes
  /\ \A c \in Contracts :
       /\ {c.setup, c.cleanup} \subseteq Seq(Int) /\ c.scenarios \in Seq(ToSet(c.scenarios))
       /\ \A s \in ToSet(c.scenarios) : {s.steps, s.checks} \subseteq Seq(Int) /\ s.fault \in BOOLEAN

VARIABLES
  contract, executing, faults, wrong,  \* the contract, --execute, --faults, an error in the call
  rows,          \* of the report
  place,         \* the step live() is at; 0: not there yet
  started,       \* its command is running
  broken,        \* live: failed
  signals,
  scratch,       \* the workspace: "none", "there", "removed" or "left"
  verdict,       \* status of the report
  code           \* exit code of nrg; NoExit while it runs

NoExit == -2
given == <<contract, executing, faults, wrong>>
vars  == <<given, rows, place, started, broken, signals, scratch, verdict, code>>

Init ==
  /\ contract \in Contracts /\ executing \in BOOLEAN /\ faults \in BOOLEAN /\ wrong \in Errors
  /\ rows = <<>> /\ place = 0 /\ started = FALSE /\ broken = FALSE /\ signals = 0
  /\ scratch = "none" /\ verdict = "none" /\ code = NoExit

(* ------------------------------- validation ------------------------------- *)
Scenarios == ToSet(contract.scenarios)
Names     == <<"setup", "cleanup">> \o [i \in DOMAIN contract.scenarios |-> contract.scenarios[i].name]
Expected  == contract.setup \o contract.cleanup \o
             FlattenSeq([i \in DOMAIN contract.scenarios |->
                           contract.scenarios[i].steps \o contract.scenarios[i].checks])
Zeros(s)  == ToSet(s) \subseteq {0}

validate ==
  /\ Len(contract.scenarios) \in 1 .. MaxScenarios /\ contract.cleanup # <<>>
  /\ IsInjective(Names)
  /\ Len(Expected) <= MaxSteps /\ ToSet(Expected) \subseteq 0 .. 125
  /\ Zeros(contract.setup) /\ Zeros(contract.cleanup)
  /\ \A s \in Scenarios :
       /\ s.steps # <<>> /\ s.checks # <<>> /\ Zeros(s.checks)
       /\ s.fault \/ Zeros(s.steps)

Selected == ~executing \/ faults \/ \E s \in Scenarios : ~s.fault
Accepted ==
  /\ wrong \in {"none"} \cup (IF executing THEN {} ELSE {"missing variable"})
  /\ validate /\ Selected

(* --------------------------------- planning ------------------------------- *)
Planned(expects, op, fault) ==
  [i \in DOMAIN expects |->
     [op |-> op, fault |-> fault, expect |-> expects[i], exited |-> NoExit,
      status |-> IF fault /\ ~faults THEN "skipped" ELSE "planned"]]
plan ==
  Planned(contract.setup, "setup", FALSE)
  \o FlattenSeq([i \in DOMAIN contract.scenarios |->
       LET s == contract.scenarios[i]
       IN Planned(s.steps, "action", s.fault) \o Planned(s.checks, "check", s.fault)])
  \o Planned(contract.cleanup, "cleanup", FALSE)

Refuse ==
  /\ code = NoExit /\ place = 0 /\ ~Accepted /\ code' = 2
  /\ UNCHANGED <<given, rows, place, started, broken, signals, scratch, verdict>>
Validate ==
  /\ code = NoExit /\ place = 0 /\ Accepted /\ ~executing
  /\ rows' = plan /\ verdict' = "execution-unverified" /\ code' = 0
  /\ UNCHANGED <<given, place, started, broken, signals, scratch>>

(* --------------------------------- execution ------------------------------ *)
\* The workspace and its directories; without them nothing runs.
Open ==
  /\ code = NoExit /\ place = 0 /\ Accepted /\ executing /\ rows' = plan
  /\ \/ place' = 1 /\ scratch' = "there" /\ UNCHANGED <<verdict, code>>
     \/ verdict' = "failed" /\ code' = 1 /\ UNCHANGED <<place, scratch>>
  /\ UNCHANGED <<given, started, broken, signals>>

Live == code = NoExit /\ place > 0
Row  == rows[place]

\* Cleanup is attempted whatever happened before it.
Halted == (broken \/ signals > 0) /\ Row.op # "cleanup"

Skip ==
  /\ Live /\ ~started /\ place <= Len(rows) /\ (Row.status = "skipped" \/ Halted)
  /\ rows' = [rows EXCEPT ![place].status = "skipped"] /\ place' = place + 1
  /\ UNCHANGED <<given, started, broken, signals, scratch, verdict, code>>

Run ==
  /\ Live /\ ~started /\ place <= Len(rows) /\ Row.status # "skipped" /\ ~Halted
  /\ started' = TRUE
  /\ UNCHANGED <<given, rows, place, broken, signals, scratch, verdict, code>>

\* An interrupted command is cancelled, or was over before; cleanup is not cancelled.
Exited ==
  Codes \cup {Error} \cup (IF signals > 0 /\ Row.op # "cleanup" THEN {Cut} ELSE {})

Record ==
  /\ Live /\ started /\ started' = FALSE /\ place' = place + 1
  /\ \E c \in Exited :
       LET matched == c = Row.expect /\ (Row.op = "cleanup" \/ signals = 0) IN
       /\ rows' = [rows EXCEPT ![place].exited = c,
                               ![place].status = IF matched THEN "passed" ELSE "failed"]
       /\ broken' = (broken \/ ~matched)
  /\ UNCHANGED <<given, signals, scratch, verdict, code>>

\* The workspace may not go away.
Close ==
  /\ Live /\ place > Len(rows)
  /\ \/ /\ scratch' = "removed"
        /\ verdict' = IF signals > 0 THEN "interrupted" ELSE IF broken THEN "failed" ELSE "passed"
     \/ scratch' = "left" /\ verdict' = "failed"
  /\ code' = CASE verdict' = "passed" -> 0 [] verdict' = "interrupted" -> 130 [] OTHER -> 1
  /\ UNCHANGED <<given, rows, place, started, broken, signals>>

\* The second one ends the process (engine/interrupt.rs).
Signal ==
  /\ Live /\ signals' = signals + 1
  /\ code' = IF signals = 1 THEN Cut ELSE code
  /\ UNCHANGED <<given, rows, place, started, broken, scratch, verdict>>

Next == Refuse \/ Validate \/ Open \/ Skip \/ Run \/ Record \/ Close \/ Signal

Spec == Init /\ [][Next]_vars
-----------------------------------------------------------------------------
(* rehearse.rs, docs/rehearsal.md: a rehearsal passes only when it ran every
   step it selected, checks of a scenario included, each with the exit code it
   expects, which is zero outside the actions of fault scenarios; nothing else is
   started after a failure or a signal but all of the cleanup, unless a second
   signal forces the exit; a run without --execute starts nothing, and the exit
   code is 130 only for an operator who interrupted.                          *)
RehearsalHonest ==
  LET ran(i) == rows[i].exited # NoExit
  IN /\ code = 2 \/ ~executing => \A i \in DOMAIN rows : ~ran(i)
     /\ \A i \in DOMAIN rows : ran(i) =>
          /\ ~rows[i].fault \/ faults
          /\ rows[i].op = "cleanup" \/ \A j \in 1 .. i - 1 :
               ran(j) => rows[j].exited = rows[j].expect
     /\ executing /\ code = 0 =>
          /\ \E i \in DOMAIN rows : rows[i].op = "check" /\ ran(i)
          /\ \A i \in DOMAIN rows : (rows[i].fault => faults) =>
               /\ rows[i].exited = rows[i].expect
               /\ rows[i].expect = 0 \/ (rows[i].fault /\ rows[i].op = "action")
          /\ scratch = "removed" /\ signals = 0
     /\ code # NoExit /\ scratch # "none" /\ signals < 2 =>
          \A i \in DOMAIN rows : rows[i].op = "cleanup" => ran(i)
     /\ code = 130 => signals > 0
=============================================================================
