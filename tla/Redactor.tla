------------------------------ MODULE Redactor ------------------------------
(* The redactor of one output stream (engine/diagnostics.rs): bytes arrive in
   chunks of any size, and what may be the beginning of a secret waits in
   pending for the bytes that decide it.  The last push says that the stream
   has ended.  Every sink of a run uses it; print, plan and journal hand over
   their whole text in one push (secret.rs, redact).

   Secrets holds every form of a registered value the redactor looks for: as
   it is, as a JSON string, quoted for a shell.                               *)
EXTENDS Integers, Sequences, SequencesExt, FiniteSetsExt

CONSTANTS
  Bytes, Secrets,
  Mask,          \* stands for the three stars
  MaxText,       \* bound: bytes of the stream
  MaxChunk       \* bound: bytes of a chunk

RedactorAssumption ==
  /\ Mask \notin Bytes /\ Secrets \subseteq Seq(Bytes) \ {<<>>}
  /\ {MaxText, MaxChunk} \subseteq Nat

VARIABLES
  pending, out,  \* bytes that wait, and what the stream has shown
  scanning, eof, \* inside push, and its argument
  text           \* history: all bytes so far

vars == <<pending, out, scanning, eof, text>>

Init == pending = <<>> /\ out = <<>> /\ scanning = FALSE /\ eof = FALSE /\ text = <<>>

Chunks == UNION {[1 .. n -> Bytes] : n \in 0 .. MaxChunk}

push(bytes, last) ==
  /\ ~scanning /\ ~eof /\ Len(text) + Len(bytes) <= MaxText
  /\ pending' = pending \o bytes /\ text' = text \o bytes
  /\ scanning' = TRUE /\ eof' = last /\ UNCHANGED out

Matches(rest) == {s \in Secrets : IsPrefix(s, rest)}
\* No longer secret may still come: a shorter one inside it would match first.
Held(rest) == \E s \in Secrets : IsStrictPrefix(rest, s)
LongestFirst(rest) == CHOOSE s \in Matches(rest) : \A t \in Matches(rest) : Len(t) <= Len(s)

Waits == pending = <<>> \/ (~eof /\ Held(pending))

Hide == /\ scanning /\ ~Waits /\ Matches(pending) # {}
        /\ out' = Append(out, Mask)
        /\ pending' = SubSeq(pending, Len(LongestFirst(pending)) + 1, Len(pending))
        /\ UNCHANGED <<scanning, eof, text>>
Show == /\ scanning /\ ~Waits /\ Matches(pending) = {}
        /\ out' = Append(out, Head(pending)) /\ pending' = Tail(pending)
        /\ UNCHANGED <<scanning, eof, text>>
Return == /\ scanning /\ Waits /\ scanning' = FALSE
          /\ UNCHANGED <<pending, out, eof, text>>

Next == \/ \E bytes \in Chunks, last \in BOOLEAN : push(bytes, last)
        \/ Hide \/ Show \/ Return

Spec == Init /\ [][Next]_vars
-----------------------------------------------------------------------------
\* The redaction of a whole text, from the right: shown[i] is that of its bytes
\* from i on.
Redacted(bytes) ==
  LET Rest(i)   == SubSeq(bytes, i, Len(bytes))
      shown[i \in 1 .. Len(bytes) + 1] ==
        IF i > Len(bytes) THEN <<>>
        ELSE IF Matches(Rest(i)) = {} THEN <<bytes[i]>> \o shown[i + 1]
        ELSE <<Mask>> \o shown[i + Max({Len(s) : s \in Matches(Rest(i))})]
  IN shown[1]

(* diagnostics.rs: however the stream was cut into chunks, what it has shown is
   the redaction of the whole text, up to what waits; no secret is in it, and no
   more waits between two pushes than the beginning of one secret.            *)
Redaction ==
  /\ out \o Redacted(pending) = Redacted(text)
  /\ \A s \in Secrets : ~ \E i \in 1 .. Len(out) :
       i + Len(s) - 1 <= Len(out) /\ SubSeq(out, i, i + Len(s) - 1) = s
  /\ ~scanning => \/ pending = <<>>
                  \/ ~eof /\ \E s \in Secrets : Len(pending) < Len(s)
=============================================================================
