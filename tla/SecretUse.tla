------------------------------ MODULE SecretUse ------------------------------
(* What a script does with secrets (engine/secret.rs, builtins/util.rs, exec.rs,
   transfer.rs, state.rs, context.rs) and what reaches the operator's screen,
   the plan, the journal and the hosts.

   A string of a script is known by the pieces in it: [of, form], where form
   tells how the value of a secret appears.  "plain" is the value, also in
   quotes or as a JSON string, which the redactor knows; "url" and "url2" are
   its URL encoding and the encoding of that; "marker" is what a Secret that was
   never revealed turns into.  Any string made of pieces the script has can be
   given to any builtin.                                                       *)
EXTENDS Integers, Sequences, FiniteSets

CONSTANTS
  Keys,          \* names of secrets
  Sources,       \* worlds: [Keys -> [Places -> Entries]]
  None

\* The places in the order of the lookup.  Nobody else writes the environment.
Order  == <<"environment", "secrets.dest", "secrets", ".env">>
Places == {Order[i] : i \in 1 .. Len(Order)}
(* An entry: what comes out once a CMD[...] was run ("fails": nothing), whether
   it is a CMD[...], and whether only the user can write the file.            *)
Entries == {None} \cup
  [holds : {"value", "ENC", "short", "short ENC", "fails"}, cmd : BOOLEAN, trusted : BOOLEAN]

SourcesAssumption == Sources \subseteq [Keys -> [Places -> Entries]]

VARIABLES
  source, haveKey, dry,   \* the world, a usable .nrg-key, and the mode
  registered,    \* RunCtx.secrets: the pieces every sink redacts
  pieces,        \* what the strings of the script may hold
  resolved,      \* history: the places values came from, by key
  fetched,       \* history: CMD[...] entries that were run
  shown,         \* history: pieces a sink has shown of a resolved secret
  ran,           \* history: pieces that were in commands that ran
  early          \* history: pieces that were about before their secret was resolved

vars == <<source, haveKey, dry, registered, pieces, resolved, fetched, shown, ran, early>>
world == <<source, haveKey, dry>>

Init ==
  /\ source \in Sources /\ haveKey \in BOOLEAN /\ dry \in BOOLEAN
  /\ registered = {} /\ pieces = {} /\ resolved = [k \in Keys |-> {}] /\ fetched = {}
  /\ shown = {} /\ ran = {} /\ early = {}

Piece(k, form) == [of |-> k, form |-> form]

(* -------------------------------- secret() ------------------------------- *)
LookupPlaces(k) == {i \in 1 .. Len(Order) : source[k][Order[i]] # None}
FirstTrusted(k) ==                                                 \* mutant
  LET usable == {i \in LookupPlaces(k) : source[k][Order[i]].trusted}
  IN IF usable = {} THEN "none" ELSE Order[CHOOSE i \in usable : \A j \in usable : i <= j]
lookup_secret(k) ==
  IF LookupPlaces(k) = {} THEN "none"
  ELSE Order[CHOOSE i \in LookupPlaces(k) : \A j \in LookupPlaces(k) : i <= j]

decrypts(entry) == entry.holds \in {"ENC", "short ENC"} => haveKey
LongEnough(entry) == entry.holds \in {"value", "ENC"}

\* What a successful secret(k) adds to the redaction list.
Register(k, entry) == {Piece(k, "plain")}

\* A refused file, a failed command, a token without a key and a short value
\* throw: the script goes on, if it catches, without the value.
secret(k) ==
  LET place == lookup_secret(k)
      entry == source[k][place]
  IN /\ place # "none" /\ entry.trusted
     /\ fetched' = IF entry.cmd THEN fetched \cup {<<k, place>>} ELSE fetched
     /\ IF LongEnough(entry) /\ decrypts(entry)
        THEN /\ registered' = registered \cup Register(k, entry)
             /\ resolved' = [resolved EXCEPT ![k] = @ \cup {place}]
        ELSE UNCHANGED <<registered, resolved>>
     /\ UNCHANGED <<world, pieces, shown, ran, early>>

(* --------------------------- strings of a script -------------------------- *)
Have(new) == pieces' = pieces \cup new
Resolved(k) == resolved[k] # {}

\* reveal(s), sh_quote(s)
reveal(k) == /\ Resolved(k) /\ Have({Piece(k, "plain")})
             /\ UNCHANGED <<world, registered, resolved, fetched, shown, ran, early>>

\* `${s}`, s.to_string().  `+` throws instead.
interpolate(k) == /\ Resolved(k) /\ Have({Piece(k, "marker")})
                  /\ UNCHANGED <<world, registered, resolved, fetched, shown, ran, early>>

\* The same value from elsewhere: nrg_env, a file, the output of a command.
Elsewhere(k) ==
  /\ Have({Piece(k, "plain")})
  /\ early' = IF Resolved(k) THEN early ELSE early \cup {Piece(k, "plain")}
  /\ UNCHANGED <<world, registered, resolved, fetched, shown, ran>>

Encoded(p) == [p EXCEPT !.form = IF @ = "plain" THEN "url" ELSE "url2"]
\* Only the encodings of registered values are registered.
Derived(p) == IF p \in registered THEN {Encoded(p)} ELSE {}
url_encode(p) ==
  /\ p \in pieces /\ p.form \in {"plain", "url"}
  /\ Have({Encoded(p)}) /\ registered' = registered \cup Derived(p)
  /\ early' = IF p \in registered THEN early ELSE early \cup {Encoded(p)}
  /\ UNCHANGED <<world, resolved, fetched, shown, ran>>

(* ---------------------------------- sinks --------------------------------- *)
\* A sink shows a string: what is left of the resolved secrets in it.
Shows(text) ==
  shown' = shown \cup {p \in text \ registered : p.form # "marker" /\ Resolved(p.of)}

assert_no_secret_leak(text) == \A p \in text : p.form # "marker"

\* print, debug, an uncaught error, a note of the plan
OnPrint(text) == /\ Shows(text)
               /\ UNCHANGED <<world, registered, pieces, resolved, fetched, ran, early>>

\* A command: the trace, the plan of a dry run and the journal show it.
Sent(text, runs) ==
  /\ assert_no_secret_leak(text) /\ Shows(text)
  /\ ran' = IF runs THEN ran \cup text ELSE ran
  /\ UNCHANGED <<world, registered, pieces, resolved, fetched, early>>

effect(text) == Sent(text, ~dry)
ssh_exec(text) == effect(text)
\* and ssh_exec_all, and the command of the two stdin forms
local_exec(text) == effect(text)
\* runs in a dry run too
ssh_probe(text) == Sent(text, TRUE)
preflight(text) == Sent(text, TRUE)
\* The path of write_remote and the arguments of a transfer are in a command; the
\* payload, here and on a standard input, is neither looked at nor shown.
write_remote(path) == Sent(path, ~dry)
transfer_file(arguments) == Sent(arguments, ~dry)

Next ==
  \/ \E k \in Keys : secret(k) \/ reveal(k) \/ interpolate(k) \/ Elsewhere(k)
  \/ \E p \in pieces : url_encode(p)
  \/ \E text \in SUBSET pieces :
       \/ OnPrint(text) \/ ssh_exec(text) \/ local_exec(text) \/ ssh_probe(text) \/ preflight(text)
       \/ write_remote(text) \/ transfer_file(text)

Spec == Init /\ [][Next]_vars
-----------------------------------------------------------------------------
(* secret.rs, util.rs: once a secret is resolved no sink shows its value or its
   encodings, except an encoding that was made before; a Secret that was turned
   into a string never reaches a command; and neither a value nor a command is
   taken from a place behind one that defines the key, or that others may
   write.                                                                     *)
SecretsStayInside ==
  /\ shown \subseteq early /\ \A p \in shown : p.form # "plain"
  /\ assert_no_secret_leak(ran)
  /\ \A k \in Keys : \A place \in resolved[k] \cup {q \in Places : <<k, q>> \in fetched} :
       /\ source[k][place].trusted
       /\ \A i, j \in 1 .. Len(Order) :
            j < i /\ Order[i] = place => source[k][Order[j]] = None
=============================================================================
