------------------------ MODULE CommandRunnerProofs ------------------------
(* What holds of one command of the production runner, for any announced
   length, any capacity of the pipes, any limit on the output and any number of
   units a child writes, whether or not a grandchild may leave the group.      *)
EXTENDS CommandRunner, TLAPS

Over == {"joining", "done"}

\* What was sent is a part of what there is to send, and a blocked writer of the
\* child has room below MaxOut.
SizesInv ==
  /\ fed <= size /\ (~HasInput => fed = 0)
  /\ want \in Streams => wrote[want] < MaxOut

\* Nothing ran before the spawn, and the loop is left only by a call whose child
\* is gone; a child that is gone stays so.
ChildInv ==
  /\ pc = "spawn" => child = "none" /\ \A s \in Streams : drain[s] = "busy"
  /\ pc \in Over => ~Alive

\* A drain that came to the end of its stream has all of it, for good.
DrainInv ==
  /\ \A s \in Streams : drain[s] = "ok" => ~Alive /\ got[s] = wrote[s]
  /\ \A s \in Streams : drain[s] = "failed" => kind = "get" /\ s = "out"

\* A success of the child says something of the transfer it was asked for.
TransferInv ==
  /\ dest # "part"
  /\ kind = "put" /\ far = "accepted" => dest = "whole"
  /\ kind = "put" /\ child = "zero" => far = "accepted"
  /\ kind = "get" /\ child = "zero" => wrote["out"] = size

\* A call that was given up is on its way through the kill.
GroupInv ==
  /\ gaveUp # "no" => pc \in {"grace"} \cup Over
  /\ gaveUp # "no" /\ pc \in Over => grandchild \notin Group

\* What the call has returned.
ResultInv ==
  pc = "done" /\ result = 0 =>
    /\ child = "zero" /\ gaveUp = "no" /\ writer = "ok"
    /\ \A s \in Streams : drain[s] = "ok" /\ (kind = "plain" => got[s] <= Limit)
    /\ kind = "get" => dest = "whole"

RunnerInv ==
  TypeOK /\ SizesInv /\ ChildInv /\ DrainInv /\ TransferInv /\ GroupInv /\ ResultInv
-----------------------------------------------------------------------------
\* What there is to send or to get is a number, and an input is at most one unit
\* longer than announced.
LEMMA SizeFacts ==
  ASSUME NEW k \in Kinds, NEW n \in Sizes(k)
  PROVE  n \in Nat /\ (k # "get" => n <= Expected + 1)
BY SizesAssumption DEF Kinds, Sizes

LEMMA InitRunner == Init => RunnerInv
<1> SUFFICES ASSUME Init PROVE RunnerInv
  OBVIOUS
<1> USE SizesAssumption DEF Init
<1>1. TypeOK
  <2>1. {interrupted, expired, termed} \subseteq BOOLEAN
    OBVIOUS
  <2>2. /\ fed \in 0 .. Expected + 1 /\ taken \in 0 .. fed /\ fed - taken <= Cap
        /\ wrote \in [Streams -> 0 .. MaxOut] /\ got \in [Streams -> 0 .. MaxOut]
        /\ \A s \in Streams : got[s] <= wrote[s] /\ wrote[s] - got[s] <= Cap
    OBVIOUS
  <2> QED BY <2>1, <2>2 DEF TypeOK, Busy
<1>2. SizesInv
  BY SizeFacts DEF SizesInv, HasInput, Streams
<1>3. ChildInv /\ DrainInv /\ TransferInv /\ GroupInv /\ ResultInv
  BY DEF ChildInv, DrainInv, TransferInv, GroupInv, ResultInv, Over, Alive, Streams
<1> QED BY <1>1, <1>2, <1>3 DEF RunnerInv

LEMMA SpawnKeeps ==
  ASSUME RunnerInv, Spawn
  PROVE  RunnerInv'
<1> USE SizesAssumption DEF Spawn, RunnerInv, call, flags, input, output, process
<1>1. TypeOK'
  BY DEF TypeOK, SizesInv, Sizes, Kinds, Streams, Group, Busy, Alive, HasInput
<1>2. SizesInv'
  BY DEF TypeOK, SizesInv, Streams, Alive, HasInput
<1>3. ChildInv'
  BY DEF ChildInv, Over, Busy, Alive, Streams
<1>4. DrainInv'
  BY DEF ChildInv, DrainInv, Streams
<1>5. TransferInv'
  BY DEF TransferInv, Alive
<1>6. GroupInv'
  BY DEF GroupInv, Over, Alive, Busy
<1>7. ResultInv'
  BY DEF ResultInv, Over, Alive
<1> QED BY <1>1, <1>2, <1>3, <1>4, <1>5, <1>6, <1>7

LEMMA WriterKeeps ==
  ASSUME RunnerInv, Writer
  PROVE  RunnerInv'
<1> USE SizesAssumption DEF Writer, RunnerInv, call, flags, input, output, process
<1>1. TypeOK'
  BY SizeFacts DEF TypeOK, SizesInv, Writer, WriterCan, Copy, Written, HasInput
<1>2. SizesInv'
  BY SizeFacts DEF TypeOK, SizesInv, WriterCan, Copy, Written, HasInput
<1>3. ChildInv'
  BY DEF ChildInv, Over, Busy, Alive, Streams
<1>4. DrainInv'
  BY DEF TypeOK, DrainInv, Streams, Alive, Busy
<1>5. TransferInv'
  BY DEF TransferInv, Alive
<1>6. GroupInv'
  BY DEF GroupInv, Over, Alive, Busy
<1>7. ResultInv'
  BY DEF ResultInv, Busy
<1> QED BY <1>1, <1>2, <1>3, <1>4, <1>5, <1>6, <1>7

LEMMA DrainKeeps ==
  ASSUME RunnerInv, NEW s \in Streams, Drain(s)
  PROVE  RunnerInv'
<1> USE SizesAssumption DEF Drain, RunnerInv, call, flags, input, output, process
<1>1. TypeOK'
  BY DEF TypeOK, SizesInv, Sizes, Kinds, Streams, Group, Busy, Alive, HasInput
<1>2. SizesInv'
  BY DEF TypeOK, SizesInv, Streams, Alive, HasInput
<1>3. ChildInv'
  BY DEF ChildInv, Over, Busy, Alive, Streams
<1>4. DrainInv'
  BY DEF TypeOK, DrainInv, DrainCan, Streams, Alive, Busy
<1>5. TransferInv'
  BY DEF TransferInv, Alive
<1>6. GroupInv'
  BY DEF GroupInv, Over, Alive, Busy
<1>7. ResultInv'
  BY DEF ResultInv, Busy
<1> QED BY <1>1, <1>2, <1>3, <1>4, <1>5, <1>6, <1>7

LEMMA WantKeeps ==
  ASSUME RunnerInv, Want
  PROVE  RunnerInv'
<1> USE SizesAssumption DEF Want, RunnerInv, call, flags, input, output, process
<1>1. TypeOK'
  BY DEF TypeOK, SizesInv, Sizes, Kinds, Streams, Group, Busy, Alive, HasInput
<1>2. SizesInv'
  BY DEF TypeOK, SizesInv, Streams, Alive, HasInput
<1>3. ChildInv'
  BY DEF ChildInv, Over, Busy, Alive, Streams
<1>4. DrainInv'
  BY DEF TypeOK, DrainInv, Streams, Alive, Busy
<1>5. TransferInv'
  BY DEF TransferInv, Alive
<1>6. GroupInv'
  BY DEF GroupInv, Over, Alive, Busy
<1>7. ResultInv'
  BY DEF ResultInv, Over, Alive
<1> QED BY <1>1, <1>2, <1>3, <1>4, <1>5, <1>6, <1>7

LEMMA ReadKeeps ==
  ASSUME RunnerInv, Read
  PROVE  RunnerInv'
<1> USE SizesAssumption DEF Read, RunnerInv, call, flags, input, output, process
<1>1. TypeOK'
  BY DEF TypeOK, SizesInv, Sizes, Kinds, Streams, Group, Busy, Alive, HasInput
<1>2. SizesInv'
  BY DEF TypeOK, SizesInv, Streams, Alive, HasInput
<1>3. ChildInv'
  BY DEF ChildInv, Over, Busy, Alive, Streams
<1>4. DrainInv'
  BY DEF TypeOK, DrainInv, Streams, Alive, Busy
<1>5. TransferInv'
  BY DEF TransferInv, Alive
<1>6. GroupInv'
  BY DEF GroupInv, Over, Alive, Busy
<1>7. ResultInv'
  BY DEF ResultInv, Over, Alive
<1> QED BY <1>1, <1>2, <1>3, <1>4, <1>5, <1>6, <1>7

LEMMA OutputKeeps ==
  ASSUME RunnerInv, Output
  PROVE  RunnerInv'
<1> USE SizesAssumption DEF Output, RunnerInv, call, flags, input, output, process
<1>1. TypeOK'
  BY DEF TypeOK, SizesInv, Sizes, Kinds, Streams, Group, Busy, Alive, HasInput
<1>2. SizesInv'
  BY DEF TypeOK, SizesInv, Streams, Alive, HasInput
<1>3. ChildInv'
  BY DEF ChildInv, Over, Busy, Alive, Streams
<1>4. DrainInv'
  BY DEF TypeOK, DrainInv, Streams, Alive, Busy
<1>5. TransferInv'
  BY DEF TransferInv, Alive
<1>6. GroupInv'
  BY DEF GroupInv, Over, Alive, Busy
<1>7. ResultInv'
  BY DEF ResultInv, Over, Alive
<1> QED BY <1>1, <1>2, <1>3, <1>4, <1>5, <1>6, <1>7

LEMMA ExitKeeps ==
  ASSUME RunnerInv, Exit
  PROVE  RunnerInv'
<1> USE SizesAssumption DEF Exit, RunnerInv, call, flags, input, output, process
<1>1. TypeOK'
  BY DEF TypeOK, SizesInv, Sizes, Kinds, Streams, Group, Busy, Alive, HasInput
<1>2. SizesInv'
  BY DEF TypeOK, SizesInv, Streams, Alive, HasInput
<1>3. ChildInv'
  BY DEF ChildInv, Over, Busy, Alive, Streams
<1>4. DrainInv'
  BY DEF TypeOK, DrainInv, Streams, Alive, Busy
<1>5. TransferInv'
  BY DEF TransferInv, Alive, MayExitZero
<1>6. GroupInv'
  BY DEF GroupInv, Over, Alive, Busy
<1>7. ResultInv'
  BY DEF ResultInv, Over, Alive
<1> QED BY <1>1, <1>2, <1>3, <1>4, <1>5, <1>6, <1>7

LEMMA ForkKeeps ==
  ASSUME RunnerInv, Fork
  PROVE  RunnerInv'
<1> USE SizesAssumption DEF Fork, RunnerInv, call, flags, input, output, process
<1>1. TypeOK'
  BY DEF TypeOK, SizesInv, Sizes, Kinds, Streams, Group, Busy, Alive, HasInput
<1>2. SizesInv'
  BY DEF TypeOK, SizesInv, Streams, Alive, HasInput
<1>3. ChildInv'
  BY DEF ChildInv, Over, Busy, Alive, Streams
<1>4. DrainInv'
  BY DEF TypeOK, DrainInv, Streams, Alive, Busy
<1>5. TransferInv'
  BY DEF TransferInv, Alive
<1>6. GroupInv'
  BY DEF ChildInv, GroupInv, Over, Alive
<1>7. ResultInv'
  BY DEF ResultInv, Over, Alive
<1> QED BY <1>1, <1>2, <1>3, <1>4, <1>5, <1>6, <1>7

LEMMA FarAtEofKeeps ==
  ASSUME RunnerInv, FarAtEof
  PROVE  RunnerInv'
<1> USE SizesAssumption DEF FarAtEof, RunnerInv, call, flags, input, output, process
<1>1. TypeOK'
  BY DEF TypeOK, SizesInv, Sizes, Kinds, Streams, Group, Busy, Alive, HasInput
<1>2. SizesInv'
  BY DEF TypeOK, SizesInv, Streams, Alive, HasInput
<1>3. ChildInv'
  BY DEF ChildInv, Over, Busy, Alive, Streams
<1>4. DrainInv'
  BY DEF TypeOK, DrainInv, Streams, Alive, Busy
<1>5. TransferInv'
  BY DEF TransferInv, Accepts
<1>6. GroupInv'
  BY DEF GroupInv, Over, Alive, Busy
<1>7. ResultInv'
  BY DEF ResultInv, Over, Alive
<1> QED BY <1>1, <1>2, <1>3, <1>4, <1>5, <1>6, <1>7

LEMMA TerminatedKeeps ==
  ASSUME RunnerInv, Terminated
  PROVE  RunnerInv'
<1> USE SizesAssumption DEF Terminated, RunnerInv, call, flags, input, output, process
<1>1. TypeOK'
  BY DEF TypeOK, SizesInv, Sizes, Kinds, Streams, Group, Busy, Alive, HasInput
<1>2. SizesInv'
  BY DEF TypeOK, SizesInv, Streams, Alive, HasInput
<1>3. ChildInv'
  BY DEF ChildInv, Over, Busy, Alive, Streams
<1>4. DrainInv'
  BY DEF TypeOK, DrainInv, Streams, Alive, Busy
<1>5. TransferInv'
  BY DEF TransferInv, Alive
<1>6. GroupInv'
  BY DEF GroupInv, Over, Alive, Busy
<1>7. ResultInv'
  BY DEF ResultInv, Over, Alive
<1> QED BY <1>1, <1>2, <1>3, <1>4, <1>5, <1>6, <1>7

LEMMA GrandchildEndsKeeps ==
  ASSUME RunnerInv, GrandchildEnds
  PROVE  RunnerInv'
<1> USE SizesAssumption DEF GrandchildEnds, RunnerInv, call, flags, input, output, process
<1>1. TypeOK'
  BY DEF TypeOK, SizesInv, Sizes, Kinds, Streams, Group, Busy, Alive, HasInput
<1>2. SizesInv'
  BY DEF TypeOK, SizesInv, Streams, Alive, HasInput
<1>3. ChildInv'
  BY DEF ChildInv, Over, Busy, Alive, Streams
<1>4. DrainInv'
  BY DEF TypeOK, DrainInv, Streams, Alive, Busy
<1>5. TransferInv'
  BY DEF TransferInv, Alive
<1>6. GroupInv'
  BY DEF GroupInv, Over, Alive, Busy
<1>7. ResultInv'
  BY DEF ResultInv, Over, Alive
<1> QED BY <1>1, <1>2, <1>3, <1>4, <1>5, <1>6, <1>7

LEMMA SignalKeeps ==
  ASSUME RunnerInv, Signal
  PROVE  RunnerInv'
<1> USE SizesAssumption DEF Signal, RunnerInv, call, flags, input, output, process
<1>1. TypeOK'
  BY DEF TypeOK, SizesInv, Sizes, Kinds, Streams, Group, Busy, Alive, HasInput
<1>2. SizesInv'
  BY DEF TypeOK, SizesInv, Streams, Alive, HasInput
<1>3. ChildInv'
  BY DEF ChildInv, Over, Busy, Alive, Streams
<1>4. DrainInv'
  BY DEF TypeOK, DrainInv, Streams, Alive, Busy
<1>5. TransferInv'
  BY DEF TransferInv, Alive
<1>6. GroupInv'
  BY DEF GroupInv, Over, Alive, Busy
<1>7. ResultInv'
  BY DEF ResultInv, Over, Alive
<1> QED BY <1>1, <1>2, <1>3, <1>4, <1>5, <1>6, <1>7

LEMMA DeadlineKeeps ==
  ASSUME RunnerInv, Deadline
  PROVE  RunnerInv'
<1> USE SizesAssumption DEF Deadline, RunnerInv, call, flags, input, output, process
<1>1. TypeOK'
  BY DEF TypeOK, SizesInv, Sizes, Kinds, Streams, Group, Busy, Alive, HasInput
<1>2. SizesInv'
  BY DEF TypeOK, SizesInv, Streams, Alive, HasInput
<1>3. ChildInv'
  BY DEF ChildInv, Over, Busy, Alive, Streams
<1>4. DrainInv'
  BY DEF TypeOK, DrainInv, Streams, Alive, Busy
<1>5. TransferInv'
  BY DEF TransferInv, Alive
<1>6. GroupInv'
  BY DEF GroupInv, Over, Alive, Busy
<1>7. ResultInv'
  BY DEF ResultInv, Over, Alive
<1> QED BY <1>1, <1>2, <1>3, <1>4, <1>5, <1>6, <1>7

LEMMA PollKeeps ==
  ASSUME RunnerInv, Poll
  PROVE  RunnerInv'
<1> USE SizesAssumption DEF Poll, RunnerInv, call, flags, input, output, process
<1>1. TypeOK'
  BY DEF TypeOK, SizesInv, Sizes, Kinds, Streams, Group, Busy, Alive, HasInput
<1>2. SizesInv'
  BY DEF TypeOK, SizesInv, Streams, Alive, HasInput
<1>3. ChildInv'
  BY DEF ChildInv, Over, Busy, Alive, Streams
<1>4. DrainInv'
  BY DEF TypeOK, DrainInv, Streams, Alive, Busy
<1>5. TransferInv'
  BY DEF TransferInv, Alive
<1>6. GroupInv'
  BY DEF GroupInv, Over, Alive, Busy
<1>7. ResultInv'
  BY DEF ResultInv, Over, Alive
<1> QED BY <1>1, <1>2, <1>3, <1>4, <1>5, <1>6, <1>7

LEMMA CheckKeeps ==
  ASSUME RunnerInv, Check
  PROVE  RunnerInv'
<1> USE SizesAssumption DEF Check, RunnerInv, call, flags, input, output, process
<1>1. TypeOK'
  <2>1. {interrupted, expired, termed}' \subseteq BOOLEAN
    BY DEF TypeOK
  <2>2. pc' \in {"spawn", "done"} \cup Busy /\ gaveUp' \in {"no", "cancelled", "timed_out"}
    BY DEF TypeOK, Busy
  <2> QED BY <2>1, <2>2 DEF TypeOK
<1>2. SizesInv'
  BY DEF TypeOK, SizesInv, Streams, Alive, HasInput
<1>3. ChildInv'
  BY DEF ChildInv, Over, Busy, Alive, Streams
<1>4. DrainInv'
  BY DEF TypeOK, DrainInv, Streams, Alive, Busy
<1>5. TransferInv'
  BY DEF TransferInv, Alive
<1>6. GroupInv'
  BY DEF GroupInv, Over, Alive, Busy
<1>7. ResultInv'
  BY DEF ResultInv, Over, Alive
<1> QED BY <1>1, <1>2, <1>3, <1>4, <1>5, <1>6, <1>7

LEMMA KillKeeps ==
  ASSUME RunnerInv, Kill
  PROVE  RunnerInv'
<1> USE SizesAssumption DEF Kill, RunnerInv, call, flags, input, output, process
<1>1. TypeOK'
  BY DEF TypeOK, Kill, KillChild, KillGroup, Streams, Group, Busy
<1>2. SizesInv'
  BY DEF TypeOK, SizesInv, Streams, Alive, HasInput
<1>3. ChildInv'
  BY DEF ChildInv, KillChild, Over, Alive
<1>4. DrainInv'
  BY DEF DrainInv, KillChild, Alive
<1>5. TransferInv'
  BY DEF TransferInv, KillChild, Alive
<1>6. GroupInv'
  BY DEF GroupInv, KillGroup, Group, Over
<1>7. ResultInv'
  BY DEF ResultInv, Over, Alive
<1> QED BY <1>1, <1>2, <1>3, <1>4, <1>5, <1>6, <1>7

LEMMA JoinKeeps ==
  ASSUME RunnerInv, Join
  PROVE  RunnerInv'
<1> USE SizesAssumption DEF Join, RunnerInv, call, flags, input, output, process
<1>1. /\ ~Alive /\ \A s \in Streams : drain[s] # "busy"
      /\ result' = 0 => result' = Result
  BY DEF ChildInv, AllFinished, Over
<1>2. ASSUME result' = 0
      PROVE  /\ child = "zero" /\ gaveUp = "no" /\ writer = "ok"
             /\ \A s \in Streams : drain[s] = "ok" /\ (kind = "plain" => got[s] <= Limit)
  BY <1>1, <1>2 DEF TypeOK, Result, Given, ExitCode, Truncated, Lost, AllFinished, Streams
<1>3. kind = "get" /\ result' = 0 => got["out"] = size
  BY <1>2 DEF DrainInv, TransferInv, Streams
<1>4. TypeOK'
  BY DEF TypeOK, Result, Given, ExitCode, Busy
<1>5. SizesInv'
  BY DEF TypeOK, SizesInv, Streams, Alive, HasInput
<1>6. ChildInv'
  BY DEF ChildInv, Over, Busy, Alive, Streams
<1>7. DrainInv'
  BY DEF TypeOK, DrainInv, Streams, Alive, Busy
<1>8. TransferInv'
  BY <1>3 DEF TransferInv
<1>9. GroupInv'
  BY DEF GroupInv, Over, Alive, Busy
<1>10. ResultInv'
  BY <1>2, <1>3 DEF ResultInv
<1> QED BY <1>4, <1>5, <1>6, <1>7, <1>8, <1>9, <1>10
LEMMA StepRunner == RunnerInv /\ [Next]_vars => RunnerInv'
<1> SUFFICES ASSUME RunnerInv, [Next]_vars PROVE RunnerInv'
  OBVIOUS
<1>1. CASE UNCHANGED vars
  BY <1>1 DEF vars, call, flags, input, output, process, RunnerInv, TypeOK, SizesInv,
     ChildInv, DrainInv, TransferInv, GroupInv, ResultInv, Alive, HasInput
<1>2. CASE Threads \/ Waiting
  BY <1>2, WriterKeeps, DrainKeeps, PollKeeps, CheckKeeps, KillKeeps, JoinKeeps
  DEF Threads, Waiting
<1>3. CASE Want \/ Read \/ Output \/ Exit \/ Fork \/ FarAtEof
  BY <1>3, WantKeeps, ReadKeeps, OutputKeeps, ExitKeeps, ForkKeeps, FarAtEofKeeps
<1>4. CASE Spawn \/ Terminated \/ GrandchildEnds \/ Signal \/ Deadline
  BY <1>4, SpawnKeeps, TerminatedKeeps, GrandchildEndsKeeps, SignalKeeps, DeadlineKeeps
<1> QED BY <1>1, <1>2, <1>3, <1>4 DEF Next, Done
-----------------------------------------------------------------------------
(* The theorems.                                                            *)

\* The inductive invariant: a drain that ended has its whole stream, a child
\* that exited with 0 did what the transfer asked, and a call that was given up
\* has killed its group before it waits for its threads.
THEOREM RunnerInvariance == Spec => []RunnerInv
BY InitRunner, StepRunner, PTL DEF Spec

\* Every variable has its type, and a pipe never holds more than its capacity.
THEOREM TypeCorrect == Spec => []TypeOK
<1>1. RunnerInv => TypeOK
  BY DEF RunnerInv
<1> QED BY <1>1, RunnerInvariance, PTL

\* A call that returns 0 was not given up, its child exited with 0, its input
\* went into the pipe, and nothing is missing from the output it returns.
THEOREM SuccessMeansComplete == Spec => []SuccessIsComplete
<1>1. RunnerInv => SuccessIsComplete
  BY DEF RunnerInv, ResultInv, DrainInv, SuccessIsComplete
<1> QED BY <1>1, RunnerInvariance, PTL

\* A destination has its old contents or the whole new ones, whatever is cut
\* short on either side, and the new ones after a success.
THEOREM TransfersAreWhole == Spec => []TransferWhole
<1>1. RunnerInv => TransferWhole
  BY DEF RunnerInv, ResultInv, TransferInv, TransferWhole
<1> QED BY <1>1, RunnerInvariance, PTL

\* A call that was given up leaves no process of its group behind.
THEOREM GroupIsGone == Spec => []NothingLeft
<1>1. RunnerInv => NothingLeft
  BY DEF RunnerInv, ChildInv, GroupInv, NothingLeft, Over
<1> QED BY <1>1, RunnerInvariance, PTL
=============================================================================
