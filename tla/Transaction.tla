---------------------------- MODULE Transaction ----------------------------
(***************************************************************************)
(* transaction() and on_rollback() of engine/transaction.rs, with the      *)
(* interrupt flag of engine/interrupt.rs: one stack of compensations and   *)
(* one nesting depth per run, shared by every transaction() on the call    *)
(* stack.  The script is any program over these calls: transactions may    *)
(* nest, run inside a compensation, be caught by try, and a compensation   *)
(* may register others.                                                    *)
(***************************************************************************)
EXTENDS Naturals, Sequences, FiniteSets

CONSTANTS MaxEffects,    \* bound: on_rollback calls in one run
          MaxNesting,    \* bound: transactions on the call stack
          MaxSignals     \* bound: SIGINT/SIGTERM received

ASSUME BoundsAssumed == MaxEffects \in Nat /\ MaxNesting \in Nat /\ MaxSignals \in Nat

Effects  == 1..MaxEffects  \* an effect is named by the order of on_rollback
NoEffect == 0

\* Its compensation has run: to the end, into an error of its own, or until a
\* signal cut it short.
Settled == {"undone", "stuck", "cut"}

VARIABLES
  comps,    \* ctx.txn.comps: effects whose compensation is registered
  depth,    \* ctx.txn.depth
  calls,    \* transaction() calls on the call stack, the innermost last
  flag,     \* ctx.interrupted
  running,  \* the process runs
  n,        \* effects so far
  fate,     \* history: fate[e] of an effect
  final,    \* history: effects a depth-0 commit has made final
  signals   \* history: signals received

stack == <<comps, depth, calls>>
past  == <<n, fate, final, signals>>
vars  == <<stack, flag, running, past>>

\* A call: its mark, what it does -- body, popping, running the compensation
\* of effect comp -- whether its error can be caught, and the effects before it.
Call == [mark : Nat, does : {"body", "pop", "comp"}, comp : Nat,
         fatal : BOOLEAN, since : Nat]

Init ==
  /\ comps = <<>> /\ depth = 0 /\ calls = <<>>
  /\ flag = FALSE /\ running = TRUE
  /\ n = 0 /\ fate = [e \in Effects |-> "none"] /\ final = {} /\ signals = 0
-----------------------------------------------------------------------------
Top       == calls[Len(calls)]
Beneath   == SubSeq(calls, 1, Len(calls) - 1)
OnTop(c)  == Append(Beneath, c)

\* Script code runs: outside every transaction, in a body or in a compensation.
Doing(what) == calls # <<>> /\ Top.does = what
InScript == running /\ ~Doing("pop")
Polled   == InScript /\ ~flag      \* on_progress before each operation

\* on_rollback(cb), next to the effect it compensates.
OnRollback ==
  /\ Polled /\ n < MaxEffects
  /\ n' = n + 1
  /\ fate' = [fate EXCEPT ![n + 1] = "done"]
  /\ comps' = Append(comps, n + 1)
  /\ UNCHANGED <<depth, calls, flag, running, final, signals>>

\* transaction(body): remember the mark, bump the depth.
Enter ==
  /\ Polled /\ Len(calls) < MaxNesting
  /\ depth' = depth + 1
  /\ calls' = Append(calls, [mark |-> Len(comps), does |-> "body", comp |-> NoEffect,
                             fatal |-> FALSE, since |-> n])
  /\ UNCHANGED <<comps, flag, running, past>>

LeaveBody == depth' = depth - 1

\* The body returned.  Only the outermost commit drops the compensations.
DropAlways(d)  == TRUE                             \* mutant
Outermost(d)   == d = 0
KeepAll(mark)  == comps                            \* mutant
Truncate(mark) == SubSeq(comps, 1, mark)

Commit ==
  /\ Polled /\ Doing("body")
  /\ LeaveBody /\ calls' = Beneath
  /\ comps' = IF Outermost(depth - 1) THEN Truncate(Top.mark) ELSE comps
  /\ final' = IF depth = 1
              THEN final \cup {comps[i] : i \in (Top.mark + 1)..Len(comps)}
              ELSE final
  /\ UNCHANGED <<flag, running, n, fate, signals>>

\* An error leaves the innermost body (it starts to unwind) or compensation
\* (logged, the unwind goes on); with no transaction around, it ends the run.
Raise(cs, fatal) ==
  LET c     == cs[Len(cs)]
      below == SubSeq(cs, 1, Len(cs) - 1)
  IN  \/ /\ cs = <<>>
         /\ running' = FALSE /\ UNCHANGED <<depth, fate>> /\ calls' = cs
      \/ /\ cs # <<>> /\ c.does = "body"
         /\ calls' = Append(below, [c EXCEPT !.does = "pop", !.fatal = fatal])
         /\ LeaveBody
         /\ UNCHANGED <<running, fate>>
      \/ /\ cs # <<>> /\ c.does = "comp"
         /\ calls' = Append(below, [c EXCEPT !.does = "pop", !.comp = NoEffect])
         /\ fate' = [fate EXCEPT ![c.comp] = IF fatal THEN "cut" ELSE "stuck"]
         /\ UNCHANGED <<running, depth>>

\* throw, a failing command -- caught by a try, nothing happens here.
Throw ==
  /\ Polled /\ Raise(calls, FALSE)
  /\ UNCHANGED <<comps, flag, n, final, signals>>

\* check_interrupt: swap(false) consumes the flag, the script is terminated;
\* no try of the script catches that.
KeepFlag == UNCHANGED flag                         \* mutant
Consume  == flag' = FALSE

Terminate ==
  /\ InScript /\ flag
  /\ Consume /\ Raise(calls, TRUE)
  /\ UNCHANGED <<comps, n, final, signals>>

\* The unwind pops one compensation and runs it...
PopFirst == <<comps[Top.mark + 1],                 \* mutant: first registered first
              SubSeq(comps, 1, Top.mark) \o SubSeq(comps, Top.mark + 2, Len(comps))>>
PopLast  == <<comps[Len(comps)], SubSeq(comps, 1, Len(comps) - 1)>>

Pop ==
  /\ running /\ Doing("pop") /\ Len(comps) > Top.mark
  /\ comps' = PopLast[2]
  /\ calls' = OnTop([Top EXCEPT !.does = "comp", !.comp = PopLast[1]])
  /\ UNCHANGED <<depth, flag, running, past>>

\* ... which returns: its effect is undone.
Undone ==
  /\ Polled /\ Doing("comp")
  /\ fate' = [fate EXCEPT ![Top.comp] = "undone"]
  /\ calls' = OnTop([Top EXCEPT !.does = "pop", !.comp = NoEffect])
  /\ UNCHANGED <<comps, depth, flag, running, n, final, signals>>

\* Nothing above the mark is left: the original error is raised again, into a
\* try of the script or on to the enclosing transaction.
ReRaise ==
  /\ running /\ Doing("pop") /\ Len(comps) <= Top.mark
  /\ \/ Raise(Beneath, Top.fatal)
     \/ /\ ~Top.fatal
        /\ calls' = Beneath /\ UNCHANGED <<depth, running, fate>>
  /\ UNCHANGED <<comps, flag, n, final, signals>>

\* SIGINT or SIGTERM: the shutdown check sees the flag as the signal finds it,
\* then the flag is set.
Signal ==
  /\ running /\ signals < MaxSignals
  /\ signals' = signals + 1
  /\ flag' = TRUE /\ running' = ~flag
  /\ UNCHANGED <<stack, n, fate, final>>

\* The script ends outside every transaction, and the process with it.
Exit ==
  /\ Polled /\ calls = <<>>
  /\ running' = FALSE
  /\ UNCHANGED <<stack, flag, past>>

Next == \/ OnRollback \/ Enter \/ Commit \/ Throw \/ Terminate \/ Pop \/ Undone
        \/ ReRaise \/ Signal \/ Exit

Spec == Init /\ [][Next]_vars
-----------------------------------------------------------------------------
Bodies == {i \in 1..Len(calls) : calls[i].does = "body"}

TypeOK ==
  /\ comps \in Seq(Effects) /\ depth \in Nat /\ calls \in Seq(Call)
  /\ flag \in BOOLEAN /\ running \in BOOLEAN
  /\ n \in 0..MaxEffects /\ final \subseteq Effects /\ signals \in Nat
  /\ fate \in [Effects -> {"none", "done"} \cup Settled]
  /\ depth = Cardinality(Bodies)   \* what in_transaction() answers from

\* What deploy() relies on when it goes on after its own transaction: an effect
\* that a depth-0 commit has made final is never compensated afterwards, not by
\* a later transaction nor by the unwind whose compensation it ran in.
FinalStays == \A e \in final : /\ fate[e] = "done"
                               /\ \A i \in 1..Len(calls) : calls[i].comp # e

\* All or nothing: when a transaction has failed and its error is raised again,
\* every effect registered since it began -- in nested transactions that
\* committed, by compensations, under any number of interrupts -- has been
\* undone, or its compensation has failed; or it was final in its own right.
FailureUndoesAll ==
  [][Doing("pop") /\ Len(calls') < Len(calls) =>
       \A e \in (Top.since + 1)..n : fate[e] \in Settled \/ e \in final]_vars

\* Last in, first out across nesting: when a compensation starts, every effect
\* registered after its own is settled.
NewestFirst ==
  [][Doing("pop") /\ calls' # calls /\ Len(calls') = Len(calls) =>
       \A e \in (calls'[Len(calls)].comp + 1)..n : fate[e] \in Settled \/ e \in final]_vars

\* A signal costs at most one compensation: it is consumed where it strikes,
\* and the unwind it starts or disturbs runs all the others (engine/mod.rs).
SignalCutsOne == Cardinality({e \in Effects : fate[e] = "cut"}) <= signals

\* docs/safety.md, Force-quit escape hatch: "A second SIGINT/SIGTERM (received
\* any time after the first already armed the flag ...) exits the process
\* immediately, no further cleanup".
SecondSignalExits == [][signals = 1 /\ signals' = 2 => ~running']_vars
=============================================================================
