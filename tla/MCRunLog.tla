------------------------------ MODULE MCRunLog ------------------------------
(* Two runs, one after the other or one inside a command of the other.      *)
EXTENDS RunLog, TLC

CONSTANTS r1, r2

MCCalls ==
  { [hosts |-> <<"a">>, chunk |-> 1, retries |-> 1, idempotent |-> TRUE,  checks |-> TRUE],
    [hosts |-> <<"a">>, chunk |-> 1, retries |-> 1, idempotent |-> FALSE, checks |-> TRUE],
    [hosts |-> <<"a">>, chunk |-> 1, retries |-> 0, idempotent |-> FALSE, checks |-> FALSE],
    [hosts |-> <<"a", "b", "c">>, chunk |-> 2, retries |-> 0, idempotent |-> FALSE,
     checks |-> TRUE] }
Sym == Permutations(Runs)
===========================================================================
