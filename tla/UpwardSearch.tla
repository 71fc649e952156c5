---------------------------- MODULE UpwardSearch ----------------------------
(* The two searches that climb from the working directory: for a key file
   (secrets/mod.rs, find_upward and its callers) and for the project root
   (engine/state.rs, find_project_root), with the rule they share (trust.rs).

   Directory 1 is the working directory, Depth the root of the file system.  The
   attribute of a directory or file is who may write it: "mine" only the user,
   "group" its group too, "others" anybody else, or it is somebody else's.  The
   last place for keys, ~/.config/nrg, is directory Depth + 1.               *)
EXTENDS Integers

CONSTANT Depth

DepthAssumption == Depth \in Nat \ {0}

Dirs     == 1 .. Depth
Config   == Depth + 1
NoHome   == 0
Unbound  == Depth + 2          \* a home that is not above the working directory
Who      == {"mine", "group", "others"}
Nothing  == [what |-> "none", at |-> 0]

VARIABLES
  kind,          \* "key" or "root"
  dir, holds,    \* who may write a directory; the candidate in it, or "nothing"
  home, strict,  \* the home directory, NRG_STRICT_TRUST
  at,            \* directory the search looks at; 0 when it is over
  result

world == <<kind, dir, holds, home, strict>>
vars  == <<world, at, result>>

Init ==
  /\ kind \in {"key", "root"} /\ home \in {NoHome, Unbound} \cup Dirs /\ strict \in BOOLEAN
  /\ \E d \in [Dirs -> Who] :
       dir = [i \in Dirs \cup {Config} |-> IF i = Config THEN "mine" ELSE d[i]]
  /\ holds \in [Dirs \cup {Config} -> {"nothing", "mine", "others"}]
  /\ at = 1 /\ result = Nothing

untrusted_reason(who) == who = "others" \/ (who = "group" /\ strict)
is_user_controlled(d) == ~untrusted_reason(dir[d])
\* Of a key file, and without the strict rule.
ensure_key_file_is_trusted(d) == dir[d] # "others" /\ holds[d] # "others"
\* A marker is judged by its directory alone.
Trusted(d) == IF kind = "key" THEN ensure_key_file_is_trusted(d) ELSE is_user_controlled(d)

Candidate(d) == holds[d] # "nothing"

Over(what, d) == at' = 0 /\ result' = [what |-> what, at |-> d]
Answer(d)     == Over(IF Trusted(d) THEN "found" ELSE "refused", d)

AtBoundary(d) ==
  \/ d = home \/ d = Depth
  \/ kind = "key" /\ (home = NoHome \/ ~is_user_controlled(d))

\* find_upward, find_root_from: one turn of the loop
Look ==
  /\ at \in Dirs /\ Candidate(at)
  /\ Answer(at) /\ UNCHANGED world
Climb ==
  /\ at \in Dirs /\ ~Candidate(at) /\ ~AtBoundary(at)
  /\ at' = at + 1 /\ UNCHANGED <<world, result>>

\* find_key_file_checked, find_pubkey_file
LookInConfig ==
  /\ at \in Dirs /\ ~Candidate(at) /\ AtBoundary(at) /\ kind = "key"
  /\ IF Candidate(Config) THEN Answer(Config) ELSE Over("none", 0)
  /\ UNCHANGED world
\* find_project_root: the working directory, marker or not, but never the home
FallBack ==
  /\ at \in Dirs /\ ~Candidate(at) /\ AtBoundary(at) /\ kind = "root"
  /\ Over(IF home = 1 THEN "refused" ELSE "start", 1) /\ UNCHANGED world

Next == Look \/ Climb \/ LookInConfig \/ FallBack

Spec == Init /\ [][Next]_vars
-----------------------------------------------------------------------------
\* The directories a search may reach at all.
Within == {d \in Dirs :
  /\ home \in Dirs => d <= home
  /\ kind = "key" => \A e \in 1 .. d - 1 : home # NoHome /\ is_user_controlled(e)}
Nearest(d) == holds[d] # "nothing" /\ \A e \in 1 .. d - 1 : holds[e] = "nothing"
Taken(d)   == result = [what |-> IF Trusted(d) THEN "found" ELSE "refused", at |-> d]

(* secrets/mod.rs, state.rs: a search that is over has taken the nearest
   candidate it may reach, and one that is refused is never passed over for
   another further up, in the user's configuration or in the working directory. *)
NearestIsTaken ==
  at = 0 =>
    \/ \E d \in Within : Nearest(d) /\ Taken(d)
    \/ /\ \A d \in Within : ~Nearest(d)
       /\ IF kind = "key"
          THEN IF holds[Config] = "nothing" THEN result = Nothing ELSE Taken(Config)
          ELSE result = [what |-> IF home = 1 THEN "refused" ELSE "start", at |-> 1]
=============================================================================
