---------------------------- MODULE DestStores ----------------------------
(* What the deployment state promises its scripts: every destination has a
   map of its own, and a mutation of a run takes effect at one instant, on
   the map of the destination the run was started for, or not at all.       *)
EXTENDS FiniteSets

CONSTANTS Runs, Dests, None

VARIABLES
  stores,   \* stores[d]: the map of destination d, a function from some Keys
  pending,  \* pending[r]: the edit run r has begun and not seen the end of
  aim       \* aim[r]: the destination run r was started for

(* An edit [puts |-> a map, dels |-> a set of keys]: deletions come first.  *)
Edited(map, edit) ==
  [k \in (DOMAIN map \ edit.dels) \cup DOMAIN edit.puts |->
     IF k \in DOMAIN edit.puts THEN edit.puts[k] ELSE map[k]]

Init == /\ pending = [r \in Runs |-> None]
        /\ DOMAIN stores = Dests
        /\ aim \in [Runs -> Dests]

Aim(r)   == /\ pending[r] = None
            /\ \E d \in Dests : aim' = [aim EXCEPT ![r] = d]
            /\ UNCHANGED <<stores, pending>>

Begin(r) == /\ pending[r] = None
            /\ pending'[r] # None
            /\ pending' = [pending EXCEPT ![r] = pending'[r]]
            /\ UNCHANGED <<stores, aim>>

Apply(r) == /\ pending[r] # None
            /\ stores' = [stores EXCEPT ![aim[r]] = Edited(@, pending[r])]
            /\ pending' = [pending EXCEPT ![r] = None]
            /\ UNCHANGED aim

(* Runs that fail, or are killed, give their edits up.                      *)
Abort    == /\ \E gone \in SUBSET Runs :
                 pending' = [r \in Runs |-> IF r \in gone THEN None ELSE pending[r]]
            /\ UNCHANGED <<stores, aim>>

Next == Abort \/ \E r \in Runs : Aim(r) \/ Begin(r) \/ Apply(r)

Spec == Init /\ [][Next]_<<stores, pending, aim>>
===========================================================================
