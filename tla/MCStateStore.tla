--------------------------- MODULE MCStateStore ---------------------------
(* Three runs, of which one may be nested in another, two destinations.     *)
EXTENDS StateStore, TLC

CONSTANTS r1, r2, r3

A == <<"a">>
B == <<"b">>
AsStaging == <<"staging", "a">>      \* a script key with a slash
ByHand    == <<"staging", "a", "b">> \* a key of a file edited by hand

No == [k \in {} |-> k]
MCEdits ==
  { [kind |-> "set",    puts |-> (A :> 1),           dels |-> {}],
    [kind |-> "set",    puts |-> (AsStaging :> 2),   dels |-> {}],
    [kind |-> "del",    puts |-> No,                 dels |-> {A}],
    [kind |-> "update", puts |-> (A :> 2 @@ B :> 2), dels |-> {}],
    [kind |-> "purge",  puts |-> No,                 dels |-> {A}] }

MCStored == { (A :> 0 @@ AsStaging :> 0 @@ ByHand :> 0) }
MCDests  == {"default", "staging"}
Sym      == Permutations(Runs)
===========================================================================
