-------------------------- MODULE SshConnections --------------------------
(* The ssh connections of a run (engine/runner.rs ssh_command): each command is
   an ssh client, which attaches to the master that listens on its control
   socket, or connects, is checked against known_hosts and becomes a master.

   An alias stands for the host, port and user that ssh_config gives it.  What a
   setting holds is known by how the code tells values apart.                 *)
EXTENDS Naturals, FiniteSets

CONSTANTS
  Aliases,       \* [alias -> [host, port, user]]
  Option,        \* an alias that begins with "-"
  Overrides,     \* of $NRG_SSH_CONTROL_PATH
  MaxCommands    \* bound: commands of the run

SshAssumption ==
  /\ Option \notin DOMAIN Aliases /\ MaxCommands \in Nat
  /\ Overrides \subseteq {"unset", "%C", "%h", "no token"}

VARIABLES
  path, home_dir,   \* the override; whether ~/.ssh/nrg-cm can be made
  persist, policy,  \* $NRG_SSH_CONTROL_PERSIST, $NRG_SSH_HOST_KEY_CHECKING
  trusted, known,   \* known_hosts before the run, and now
  masters,          \* sockets with a live master, and where it is logged in
  commands,         \* of the run so far
  last              \* the last one: its alias and where it ran

settings == <<path, home_dir, persist, policy, trusted>>
vars     == <<settings, known, masters, commands, last>>

Endpoint(a) == [host |-> Aliases[a].host, port |-> Aliases[a].port]
Nowhere     == [host |-> "none", port |-> 0, user |-> "none"]

Init ==
  /\ path \in Overrides /\ home_dir \in BOOLEAN
  /\ persist \in {"unset", "off", "valid", "garbage"}
  /\ policy \in {"unset", "yes", "accept-new", "no", "off", "ask", "garbage"}
  /\ trusted \in SUBSET {Endpoint(a) : a \in DOMAIN Aliases} /\ known = trusted
  /\ masters = {} /\ commands = 0 /\ last = [alias |-> "none", account |-> Nowhere]

(* -------------------------------- settings -------------------------------- *)
host_key_checking == IF policy \in {"yes", "accept-new", "no", "off", "ask"} THEN policy ELSE "yes"
\* A duration, or the default for one ssh would not take; none when it is off.
control_persist   == IF persist = "off" THEN "none" ELSE IF persist = "valid" THEN "valid" ELSE "60s"

Verbatim == IF path # "unset" THEN path ELSE IF home_dir THEN "%C" ELSE "none"  \* mutant
\* An override that cannot tell hosts apart is ignored.
control_path_template ==
  IF path \in {"%C", "%h"} THEN path ELSE IF home_dir THEN "%C" ELSE "none"

Shares == control_persist # "none" /\ control_path_template # "none"
Socket(a) ==
  CASE control_path_template = "%C" -> <<Aliases[a]>>
    [] control_path_template = "%h" -> <<Aliases[a].host>>
    [] OTHER -> <<control_path_template>>

(* -------------------------------- commands -------------------------------- *)
Ran(a, account) == /\ commands' = commands + 1 /\ last' = [alias |-> a, account |-> account]

\* -1, before a process is made
looks_like_option ==
  /\ commands < MaxCommands /\ Ran(Option, Nowhere) /\ UNCHANGED <<settings, known, masters>>

Master(a) == {m \in masters : Shares /\ m.socket = Socket(a)}

Attach(a) ==
  /\ commands < MaxCommands
  /\ \E m \in Master(a) : Ran(a, m.account)
  /\ UNCHANGED <<settings, known, masters>>

\* BatchMode: a key that would have to be confirmed is refused.
Welcome(a) == Endpoint(a) \in known \/ host_key_checking \in {"accept-new", "no", "off"}

Connect(a) ==
  /\ commands < MaxCommands /\ Master(a) = {}
  /\ IF Welcome(a)
       THEN /\ Ran(a, Aliases[a]) /\ known' = known \cup {Endpoint(a)}
            /\ masters' = IF Shares THEN masters \cup {[socket |-> Socket(a), account |-> Aliases[a]]}
                          ELSE masters
       ELSE Ran(a, Nowhere) /\ UNCHANGED <<known, masters>>
  /\ UNCHANGED settings

\* ControlPersist is over, or the connection is lost.
Expire ==
  /\ \E m \in masters : masters' = masters \ {m}
  /\ UNCHANGED <<settings, known, commands, last>>

Next == looks_like_option \/ (\E a \in DOMAIN Aliases : Attach(a) \/ Connect(a)) \/ Expire

Spec == Init /\ [][Next]_vars
-----------------------------------------------------------------------------
(* runner.rs ssh_command, control_path_template, host_key_checking: a command
   that runs runs on the host of its alias, whatever the settings hold and
   whichever connection it shares, at its port and as its user too unless an
   override names sockets by host alone; and only a policy that says so lets it
   run on a host that was not in known_hosts before the run.                  *)
RightMachine ==
  last.account # Nowhere =>
    /\ last.account.host = Aliases[last.alias].host
    /\ path # "%h" =>
         /\ last.account = Aliases[last.alias]
         /\ Endpoint(last.alias) \in trusted \/ policy \in {"accept-new", "no", "off"}
=============================================================================
