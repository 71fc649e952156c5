--------------------------- MODULE CommandRunner ---------------------------
(* One command of the production runner (engine/runner.rs, piped_io): the
   child process in a group of its own, the thread that writes its standard
   input, the two threads that drain its output, the loop that waits for all
   of them under a deadline and an interrupt flag, and what the call returns.
   Data is counted in units; a pipe holds Cap of them.

   kind says which call of the runner it is:
     "plain"     run_ssh, run_local and their _stdin forms: a bounded prefix
     "observed"  run_observed, local run_configured: a bounded tail
     "put"       an upload, write_remote, or a remote run_configured: the far
                 side acts only on exactly Expected units of input
     "get"       a download: standard output goes to a temporary file        *)
EXTENDS Naturals, Integers, FiniteSets

CONSTANTS
  Expected,   \* units announced for a "put"
  Cap,        \* units a pipe holds
  Limit,      \* units of output a plain call keeps
  MaxOut,     \* bound: units a child writes to a stream
  CanEscape,  \* whether a grandchild may leave the process group
  None

ASSUME SizesAssumption ==
  /\ {Expected, Cap} \subseteq Nat \ {0}
  /\ {Limit, MaxOut} \subseteq Nat

Group    == {"group", "quiet"}
Streams  == {"out", "err"}
Kinds    == {"plain", "observed", "put", "get"}
\* A file that is sent may shrink or grow after its length was announced.
Sizes(k) == IF k = "put" THEN {Expected - 1, Expected, Expected + 1}
            ELSE IF k = "get" THEN 0 .. MaxOut ELSE 0 .. Expected

VARIABLES
  pc,         \* of the calling thread: "spawn", "polling", "checking", "grace",
              \* "joining", "done"
  kind, size, \* size: units of the standard input, or of the file to get
  heeds,      \* the call was given the interrupt flag (cleanup calls are not)
  interrupted, expired,
  gaveUp,     \* "no", "cancelled" or "timed_out"
  fed, taken, \* units written to, and read from, the input pipe
  writer,     \* the thread that writes it: "busy", "ok" or "failed"
  wrote, got, \* units written to, and read from, each output pipe
  drain,      \* the threads that read them: "busy", "ok" or "failed"
  child,      \* "none", "running", "killed", or how it exited: "zero", "nonzero"
  want,       \* the operation the child is blocked in
  termed,     \* SIGTERM was sent to the group
  grandchild, \* a background process: "none"; in the group, holding the output
              \* pipes ("group") or not ("quiet"); holding them outside ("escaped")
  far,        \* the remote command of a "put": "open", "accepted", "refused"
  dest,       \* the destination of a transfer: "old", "whole", "part"
  result      \* the exit code that the call returns

input   == <<fed, taken, writer>>
output  == <<wrote, got, drain>>
process == <<child, want, grandchild>>
flags   == <<interrupted, expired>>
call    == <<kind, size, heeds>>
vars    == <<pc, call, flags, gaveUp, input, output, process, termed, far, dest, result>>

Busy     == {"polling", "checking", "grace", "joining"}
Alive    == child = "running"
HasInput == kind # "get"

(* --------------------------------- spawn -------------------------------- *)
Init ==
  /\ pc = "spawn" /\ kind \in Kinds /\ size \in Sizes(kind) /\ heeds \in BOOLEAN
  /\ interrupted = FALSE /\ expired = FALSE /\ gaveUp = "no"
  /\ fed = 0 /\ taken = 0 /\ writer = "busy"
  /\ wrote = [s \in Streams |-> 0] /\ got = wrote
  /\ drain = [s \in Streams |-> "busy"]
  /\ child = "none" /\ want = "none" /\ termed = FALSE /\ grandchild = "none"
  /\ far = "open" /\ dest = "old" /\ result = None

Spawn ==
  /\ pc = "spawn"
  /\ \/ /\ pc' = "polling" /\ child' = "running" /\ result' = None
     \/ /\ pc' = "done" /\ child' = "none" /\ result' = -1
  /\ UNCHANGED <<call, flags, gaveUp, input, output, want, termed, grandchild, far, dest>>

(* ----------------------- the three threads of a call --------------------- *)
Written == HasInput => fed = size

WriterCan == writer = "busy" /\ (Written \/ ~Alive \/ fed - taken < Cap)
AfterInput(s) ==                                              \* mutant
  /\ drain[s] = "busy" /\ writer # "busy"
  /\ wrote[s] > got[s] \/ (~Alive /\ grandchild \notin {"group", "escaped"})
DrainCan(s) ==
  /\ drain[s] = "busy"
  /\ wrote[s] > got[s] \/ (~Alive /\ grandchild \notin {"group", "escaped"})

Copy ==
  \/ /\ Written /\ writer' = "ok" /\ fed' = fed
  \/ /\ ~Written /\ ~Alive /\ writer' = "failed" /\ fed' = fed   \* EPIPE
  \/ /\ ~Written /\ Alive /\ writer' = writer /\ fed' = fed + 1
Writer ==
  /\ pc \in Busy /\ WriterCan /\ Copy
  /\ UNCHANGED <<pc, call, flags, gaveUp, taken, output, process, termed, far, dest, result>>

(* A drain reads until the end of the stream: until every process that holds
   the pipe is gone.  The file of a download may refuse a write.             *)
Drain(s) ==
  /\ pc \in Busy /\ DrainCan(s)
  /\ \/ /\ wrote[s] > got[s] /\ got' = [got EXCEPT ![s] = @ + 1] /\ drain' = drain
     \/ /\ wrote[s] > got[s] /\ kind = "get" /\ s = "out"
        /\ drain' = [drain EXCEPT ![s] = "failed"] /\ got' = got
     \/ /\ wrote[s] = got[s]
        /\ drain' = [drain EXCEPT ![s] = "ok"] /\ got' = got
  /\ UNCHANGED <<pc, call, flags, gaveUp, input, wrote, process, termed, far, dest, result>>

(* ------------------------------- the child ------------------------------- *)
AtEof == writer # "busy" /\ taken = fed

Want ==
  /\ Alive /\ want = "none"
  /\ want' \in {"read", "out", "err"}
  /\ want' = "read" => HasInput /\ ~AtEof
  /\ want' \in Streams => wrote[want'] < MaxOut
  /\ (kind = "get" /\ want' = "out") => wrote["out"] < size
  /\ UNCHANGED <<pc, call, flags, gaveUp, input, output, child, termed, grandchild, far, dest, result>>

Read ==
  /\ Alive /\ want = "read" /\ (taken < fed \/ AtEof)
  /\ taken' = IF AtEof THEN taken ELSE taken + 1
  /\ want' = "none"
  /\ UNCHANGED <<pc, call, flags, gaveUp, fed, writer, output, child, termed, grandchild, far, dest, result>>

Output ==
  /\ Alive /\ want \in Streams
  /\ \/ /\ drain[want] = "busy" /\ wrote[want] - got[want] < Cap
        /\ wrote' = [wrote EXCEPT ![want] = @ + 1] /\ child' = child
     \/ /\ drain[want] # "busy" /\ wrote' = wrote /\ child' = "killed"
  /\ want' = "none"
  /\ UNCHANGED <<pc, call, flags, gaveUp, input, got, drain, termed, grandchild, far, dest, result>>

(* The remote command of a "put" (atomic_write_command, the script frame of
   run_configured) reads to the end of its input.  The end also comes when the
   connection is lost, with less than what was sent; it acts, then or later,
   only if it counted what was announced.                                    *)
AcceptsAll(n) == TRUE                                        \* mutant
Accepts(n) == n = Expected
FarAtEof ==
  /\ kind = "put" /\ far = "open" /\ pc # "spawn"
  /\ AtEof \/ ~Alive
  /\ \E n \in 0 .. taken :
       /\ Alive => n = taken
       /\ far'  = IF Accepts(n) THEN "accepted" ELSE "refused"
       /\ dest' = IF ~Accepts(n) THEN dest ELSE IF n = Expected THEN "whole" ELSE "part"
  /\ UNCHANGED <<pc, call, flags, gaveUp, input, output, process, termed, result>>

(* A child ends by itself, with a status it chose: a connection may be lost at
   any time (255), a trap may exit 0 after SIGTERM.                          *)
MayExitZero ==
  CASE kind = "put" -> far = "accepted"
    [] kind = "get" -> wrote["out"] = size
    [] OTHER -> TRUE
Exit ==
  /\ Alive /\ want = "none"
  /\ child' \in {"zero", "nonzero"}
  /\ child' = "zero" => MayExitZero
  /\ UNCHANGED <<pc, call, flags, gaveUp, input, output, want, termed, grandchild, far, dest, result>>

Fork ==
  /\ Alive /\ kind \in {"plain", "observed"} /\ grandchild = "none"
  /\ grandchild' \in Group \cup (IF CanEscape THEN {"escaped"} ELSE {})
  /\ UNCHANGED <<pc, call, flags, gaveUp, input, output, child, want, termed, far, dest, result>>

(* SIGTERM reaches a process that does not ignore it.                        *)
Terminated ==
  /\ termed
  /\ \/ /\ Alive /\ child' = "killed" /\ want' = "none" /\ grandchild' = grandchild
     \/ /\ grandchild \in Group /\ grandchild' = "none" /\ UNCHANGED <<child, want>>
  /\ UNCHANGED <<pc, call, flags, gaveUp, input, output, termed, far, dest, result>>

GrandchildEnds ==
  /\ grandchild \in Group /\ grandchild' = "none"
  /\ UNCHANGED <<pc, call, flags, gaveUp, input, output, child, want, termed, far, dest, result>>

(* ---------------------------- the calling thread ------------------------- *)
Signal ==
  /\ ~interrupted /\ interrupted' = TRUE
  /\ UNCHANGED <<pc, call, expired, gaveUp, input, output, process, termed, far, dest, result>>
Deadline ==
  /\ pc \in {"polling", "checking"} /\ ~expired /\ expired' = TRUE
  /\ UNCHANGED <<pc, call, interrupted, gaveUp, input, output, process, termed, far, dest, result>>

AllFinished == writer # "busy" /\ \A s \in Streams : drain[s] # "busy"

(* One turn of the loop looks at the threads, and then at the flags: a call
   may finish, or a signal arrive, between the two.                          *)
Poll ==
  /\ pc = "polling"
  /\ pc' = IF ~Alive /\ AllFinished THEN "joining" ELSE "checking"
  /\ UNCHANGED <<call, flags, gaveUp, input, output, process, termed, far, dest, result>>

Cancelled == heeds /\ interrupted
Check ==
  /\ pc = "checking"
  /\ IF Cancelled \/ expired
     THEN /\ gaveUp' = IF Cancelled THEN "cancelled" ELSE "timed_out"
          /\ pc' = "grace" /\ termed' = TRUE
     ELSE /\ pc' = "polling" /\ UNCHANGED <<gaveUp, termed>>
  /\ UNCHANGED <<call, flags, input, output, process, far, dest, result>>

(* After the grace period: SIGKILL to the group, and to the child.           *)
SpareIt   == child' = child                                  \* mutant
KillChild == child' = IF Alive THEN "killed" ELSE child
SpareAll  == grandchild' = grandchild                        \* mutant
KillGroup == grandchild' = IF grandchild \in Group THEN "none" ELSE grandchild
Kill ==
  /\ pc = "grace" /\ pc' = "joining"
  /\ KillChild /\ KillGroup /\ want' = "none"
  /\ UNCHANGED <<call, flags, gaveUp, input, output, termed, far, dest, result>>

(* What the call returns, in the order of the code's tests.                  *)
ExitCode == CASE child = "zero" -> 0 [] child = "killed" -> 137 [] OTHER -> 1
Truncated ==
  \/ kind = "plain" /\ \E s \in Streams : got[s] > Limit
  \/ kind \in {"put", "get"} /\ got["err"] > Limit
Given ==
  CASE gaveUp = "cancelled" -> 130
    [] gaveUp = "timed_out" -> -1
    [] OTHER -> ExitCode
Unchecked == FALSE                                           \* mutant
Lost      == writer = "failed"
Result ==
  IF \E s \in Streams : drain[s] = "failed" THEN -1
  ELSE IF Truncated THEN -1
  ELSE IF Given = 0 /\ Lost THEN -1 ELSE Given

(* A download replaces its destination only after a success; that may fail.  *)
Join ==
  /\ pc = "joining" /\ AllFinished
  /\ pc' = "done"
  /\ \/ /\ result' = Result
     \/ /\ kind = "get" /\ result' = -1
  /\ dest' = IF kind = "get" /\ result' = 0
             THEN IF got["out"] = size THEN "whole" ELSE "part"
             ELSE dest
  /\ UNCHANGED <<call, flags, gaveUp, input, output, process, termed, far>>

Done == pc = "done" /\ UNCHANGED vars

Threads == Writer \/ \E s \in Streams : Drain(s)
Waiting == Poll \/ Check \/ Kill \/ Join
Next ==
  \/ Spawn \/ Threads \/ Waiting
  \/ Want \/ Read \/ Output \/ Exit \/ Fork \/ FarAtEof
  \/ Terminated \/ GrandchildEnds \/ Signal \/ Deadline \/ Done

(* The threads of the call run; the child promises nothing.                  *)
Fairness ==
  /\ WF_vars(Spawn) /\ WF_vars(Waiting)
  /\ WF_vars(Writer) /\ \A s \in Streams : WF_vars(Drain(s))
Spec == Init /\ [][Next]_vars /\ Fairness

(* ------------------------------ properties ------------------------------ *)
(* Every variable has its type, and a pipe never holds more than Cap.        *)
TypeOK ==
  /\ pc \in {"spawn", "done"} \cup Busy
  /\ kind \in Kinds /\ size \in Sizes(kind) /\ heeds \in BOOLEAN
  /\ {interrupted, expired, termed} \subseteq BOOLEAN
  /\ gaveUp \in {"no", "cancelled", "timed_out"}
  /\ fed \in 0 .. Expected + 1 /\ taken \in 0 .. fed /\ fed - taken <= Cap
  /\ writer \in {"busy", "ok", "failed"}
  /\ wrote \in [Streams -> 0 .. MaxOut]
  /\ got \in [Streams -> 0 .. MaxOut]
  /\ \A s \in Streams : got[s] <= wrote[s] /\ wrote[s] - got[s] <= Cap
  /\ drain \in [Streams -> {"busy", "ok", "failed"}]
  /\ child \in {"none", "running", "killed", "zero", "nonzero"}
  /\ want \in {"none", "read"} \cup Streams
  /\ grandchild \in {"none", "escaped"} \cup Group
  /\ far \in {"open", "accepted", "refused"} /\ dest \in {"old", "whole", "part"}
  /\ result \in {None, -1, 130, 137} \cup {0, 1}

(* A call that returns 0 was not given up, its child exited 0, the whole
   standard input went into the pipe, and nothing of the output is missing
   from what a plain call or a download returns.                             *)
SuccessIsComplete ==
  pc = "done" /\ result = 0 =>
    /\ child = "zero" /\ gaveUp = "no" /\ writer = "ok"
    /\ \A s \in Streams : got[s] = wrote[s] /\ (kind = "plain" => got[s] <= Limit)

(* A destination keeps its old contents or has the whole new ones, whatever
   is cut short, on either side; and after a success it has the new ones.    *)
TransferWhole ==
  /\ dest # "part"
  /\ (pc = "done" /\ result = 0 /\ kind \in {"put", "get"}) => dest = "whole"

(* The full pipes of one direction never hold up the other: whatever order a
   child reads and writes in, each of its reads and writes gets through, and not
   only because the deadline ends it.  The system completes what can complete.  *)
PipesFlow ==
  WF_vars(Read) /\ WF_vars(Output) => (want # "none" ~> want = "none")

(* A call that was given up leaves no process of its group behind.           *)
NothingLeft ==
  pc = "done" /\ gaveUp # "no" => ~Alive /\ grandchild \notin Group

(* Every call returns once its deadline passes, whatever its child does, unless a
   grandchild that left the group holds the pipes (CanEscape).                *)
Ends == WF_vars(Deadline) => <>(pc = "done")
=============================================================================
