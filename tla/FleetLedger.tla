---------------------------- MODULE FleetLedger ----------------------------
(***************************************************************************)
(* What a fleet deploy promises about the durable record, whatever fails:  *)
(* every host has a recorded proxy target (the ledger) and a target its    *)
(* proxy really routes to (live).  Traffic only moves on a host whose      *)
(* transition journal is open; the ledger of a whole group of hosts is     *)
(* advanced in one step, to what those hosts really serve; and a journal   *)
(* is closed only when the ledger and the traffic of its host agree.       *)
(***************************************************************************)
CONSTANTS Hosts,      \* the hosts of the fleet
          Targets,    \* proxy targets, one per host port
          None        \* no target recorded, or no route configured

VARIABLES live,       \* live[h]:   where the proxy of h sends traffic
          ledger,     \* ledger[h]: the target recorded for h in the state
          open        \* hosts with an unfinished transition in the state

ledgerVars == <<live, ledger, open>>

Agree(h) == ledger[h] # None => ledger[h] = live[h]

LedgerInit == /\ live \in [Hosts -> Targets \cup {None}]
              /\ ledger \in [Hosts -> Targets \cup {None}]
              /\ open = {}
              /\ \A h \in Hosts : Agree(h)

\* A transition is journalled before anything of the host changes.
Open(h) == /\ h \notin open
           /\ open' = open \cup {h}
           /\ UNCHANGED <<live, ledger>>

\* Traffic of h is switched, or switched back.
Move(h) == /\ h \in open
           /\ \E t \in Targets : live' = [live EXCEPT ![h] = t]
           /\ UNCHANGED <<ledger, open>>

\* The release is recorded for a whole fleet at once, as the fleet serves it.
Commit(F) == /\ F \subseteq open
             /\ ledger' = [h \in Hosts |-> IF h \in F THEN live[h] ELSE ledger[h]]
             /\ UNCHANGED <<live, open>>

Close(h) == /\ h \in open
            /\ Agree(h)
            /\ open' = open \ {h}
            /\ UNCHANGED <<live, ledger>>

\* The operator corrects the recorded target and clears the journal of h.
Correct(h) == /\ h \in open
              /\ ledger' = [ledger EXCEPT ![h] = live[h]]
              /\ open' = open \ {h}
              /\ UNCHANGED live

LedgerNext == \/ \E h \in Hosts : Open(h) \/ Move(h) \/ Close(h) \/ Correct(h)
              \/ \E F \in SUBSET Hosts : Commit(F)

LedgerSpec == LedgerInit /\ [][LedgerNext]_ledgerVars
=============================================================================
