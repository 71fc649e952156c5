------------------------------ MODULE KeyFiles ------------------------------
(* nrg secrets init, encrypt, decrypt, seal and unseal in one directory
   (secrets/mod.rs, cli/secrets.rs), by several processes that may be killed at
   any point, while the user edits .env.

   Contents of .env are versions; 0: no file.  A key pair is known by the
   process that made it.  "team" is a committed public key of which the private
   key is not here.  Two processes do not seal the same file at once: the code
   has no lock for that.                                                      *)
EXTENDS Integers, Sequences, FiniteSetsExt

CONSTANTS
  Procs,
  MaxEdits,      \* bound: versions of .env
  Armors         \* what age -a prints, trimmed: lines end with NL

NL  == "newline"
Bar == "|"

KeyFilesAssumption ==
  /\ MaxEdits \in Nat /\ Procs \cap {"none", "team", "torn"} = {}
  /\ \A a \in Armors : a \in Seq({a[i] : i \in DOMAIN a} \ {Bar})

VARIABLES
  env, edits,    \* .env, and the versions so far
  enc,           \* .env.enc: [of, to]; to = "torn" while it is being written
  key, pub,      \* .nrg-key, .nrg-key.pub
  pc, arg,       \* per process: where it is; its version, recipient and --force
  token          \* an ENC[...] value in .env: [from, line]

files == <<env, edits, enc, key, pub, token>>
vars  == <<files, pc, arg>>

Free == [of |-> 0, to |-> "none", force |-> FALSE]

Init ==
  /\ env = 0 /\ edits = 1 /\ pub \in {"none", "team"} /\ key = "none"
  /\ enc \in {[of |-> 0, to |-> "none"], [of |-> 1, to |-> "team"]}
  /\ pc = [p \in Procs |-> "idle"] /\ arg = [p \in Procs |-> Free]
  /\ token = [from |-> <<>>, line |-> <<>>]

Goto(p, l)   == pc' = [pc EXCEPT ![p] = l]
Leave(p)     == Goto(p, "idle") /\ arg' = [arg EXCEPT ![p] = Free]

(* -------------------------------- the user ------------------------------- *)
Edit == /\ edits < MaxEdits /\ edits' = edits + 1 /\ env' = edits + 1
        /\ UNCHANGED <<enc, key, pub, token, pc, arg>>
Delete == /\ env # 0 /\ env' = 0 /\ UNCHANGED <<edits, enc, key, pub, token, pc, arg>>
\* The message of a failed init: delete the private key and retry.
DeleteKey == /\ key # "none" /\ pub \notin Procs /\ \A p \in Procs : pc[p] = "idle"
             /\ key' = "none" /\ UNCHANGED <<env, edits, enc, pub, token, pc, arg>>

(* ---------------------------------- init ---------------------------------- *)
\* age-keygen -o does not replace a file.
age_keygen(p) ==
  /\ pc[p] = "idle" /\ key = "none" /\ key' = p /\ Goto(p, "parse")
  /\ UNCHANGED <<env, edits, enc, pub, token, arg>>
parse_and_validate_pubkey(p) ==
  /\ pc[p] = "parse" /\ Goto(p, "open pub") /\ UNCHANGED <<files, arg>>
OpenPub(p) ==
  /\ pc[p] = "open pub" /\ pub' = "torn" /\ Goto(p, "write pub")
  /\ UNCHANGED <<env, edits, enc, key, token, arg>>
WritePub(p) ==
  /\ pc[p] = "write pub" /\ pub' = p /\ Leave(p)
  /\ UNCHANGED <<env, edits, enc, key, token>>

(* ---------------------------------- seal ---------------------------------- *)
read_recipient == pub # "torn"                  \* one line that age takes
require_pubkey == pub # "none" /\ read_recipient
require_key    == key # "none"
\* age opens .env, then writes .env.enc in place.
seal_file(p) ==
  /\ pc[p] = "idle" /\ \A q \in Procs : pc[q] # "seal"
  /\ require_pubkey /\ env # 0
  /\ enc' = [of |-> env, to |-> "torn"] /\ Goto(p, "seal")
  /\ arg' = [arg EXCEPT ![p].to = pub] /\ UNCHANGED <<env, edits, key, pub, token>>
Sealed(p) ==
  /\ pc[p] = "seal" /\ enc' = [enc EXCEPT !.to = arg[p].to]
  /\ Leave(p) /\ UNCHANGED <<env, edits, key, pub, token>>

(* --------------------------------- unseal --------------------------------- *)
unseal_file(p, force) ==
  /\ pc[p] = "idle" /\ require_key /\ (force \/ env = 0)
  /\ Goto(p, "decrypt") /\ arg' = [arg EXCEPT ![p].force = force]
  /\ UNCHANGED files

\* Into a temporary file, dropped when age fails.
Decrypt(p) ==
  /\ pc[p] = "decrypt" /\ UNCHANGED files
  /\ IF enc.to = key /\ enc.of # 0
     THEN arg' = [arg EXCEPT ![p].of = enc.of] /\ Goto(p, "publish")
     ELSE Leave(p)

Clobber(p) == TRUE                                                  \* mutant
MayPublish(p) == arg[p].force \/ env = 0                 \* persist_noclobber
Publish(p) ==
  /\ pc[p] = "publish" /\ Leave(p)
  /\ env' = IF MayPublish(p) THEN arg[p].of ELSE env
  /\ UNCHANGED <<edits, enc, key, pub, token>>

(* ----------------------------- encrypt, decrypt ---------------------------- *)
Raw(a) == a                                                          \* mutant
Framed(a) == [i \in 1 .. Len(a) |-> IF a[i] = NL THEN Bar ELSE a[i]]
\* The user pastes the token behind KEY=, and the file is read by lines.
FirstLine(t) ==
  LET ends == {i \in 1 .. Len(t) : t[i] = NL}
  IN IF ends = {} THEN t ELSE SubSeq(t, 1, Min(ends) - 1)
encrypt_value(a) == [from |-> a, line |-> FirstLine(Framed(a))]
cmd_encrypt(a) ==
  /\ require_pubkey /\ token' = encrypt_value(a)
  /\ UNCHANGED <<env, edits, enc, key, pub, pc, arg>>
\* What age reads back; decrypt prints it.
decrypt_value(t) == [i \in 1 .. Len(t) |-> IF t[i] = Bar THEN NL ELSE t[i]]

Kill(p) == /\ pc[p] # "idle" /\ Leave(p) /\ UNCHANGED files

Next ==
  \/ Edit \/ Delete \/ DeleteKey
  \/ \E p \in Procs :
       \/ age_keygen(p) \/ parse_and_validate_pubkey(p) \/ OpenPub(p) \/ WritePub(p)
       \/ seal_file(p) \/ Sealed(p)
       \/ \E force \in BOOLEAN : unseal_file(p, force)
       \/ Decrypt(p) \/ Publish(p) \/ Kill(p)
  \/ \E a \in Armors : cmd_encrypt(a)

Spec == Init /\ [][Next]_vars
-----------------------------------------------------------------------------
(* secrets/mod.rs, unseal_file: a .env that is there, even one that appeared
   since unseal looked, is only replaced by its user or with --force.         *)
EditsSurvive ==
  [][env # 0 /\ env' # env =>
       pc' = pc \/ \E p \in Procs : pc[p] = "publish" /\ pc'[p] = "idle" /\ arg[p].force]_vars

(* Through killed and repeated commands the public key that init wrote belongs
   to the private key beside it, what is sealed to it can be opened here, and a
   token pasted into .env as one line decrypts.                               *)
SealedOpens ==
  /\ pub \in Procs => key = pub
  /\ enc.to \in Procs => key = enc.to
  /\ decrypt_value(token.line) = token.from
=============================================================================
