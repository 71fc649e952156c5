------------------------------ MODULE HttpCalls ------------------------------
(* One call of an HTTP builtin (engine/builtins/http.rs): http_get,
   sim_http_healthy, the four write verbs and http_patch_all, in a live and in a
   dry run.  A server answers, fails to, acts without its answer coming through,
   or redirects (which is not followed).

   A request is known by the arguments a script can get wrong, and by whether it
   brings a Content-Type of its own, in any case.                             *)
EXTENDS Integers, Sequences, FiniteSetsExt

CONSTANTS
  Batches,       \* what a script passes: sequences of requests
  Chunk,         \* 16 in the code
  Statuses       \* of servers that answer

Shapes == {"ok", "not a map", "no url", "no body", "header is not a string"}
Reads  == {"http_get", "sim_http_healthy"}
Writes == {"http_post", "http_put", "http_patch", "http_delete", "http_patch_all"}

HttpAssumption ==
  /\ Chunk \in Nat \ {0} /\ Statuses \subseteq 100 .. 599
  /\ \A b \in Batches : b \in Seq([shape : Shapes, own_type : BOOLEAN])

VARIABLES
  verb, planning,  \* the builtin, and ctx.mode = DryRun
  batch,           \* its requests
  answers,         \* of the requests handed to a thread so far
  outcome,         \* "open", "returned" or "thrown"
  responses,       \* to the script
  acted,           \* history: how often the server acted on a request
  types,           \* history: Content-Type headers of a request
  notes            \* entries of the plan

given     == <<verb, planning, batch>>
vars == <<given, answers, outcome, responses, acted, types, notes>>

Waiting == [of |-> 0, status |-> 0]

Init ==
  /\ verb \in Reads \cup Writes /\ planning \in BOOLEAN
  /\ batch \in {b \in Batches :
                 /\ verb = "http_patch_all" \/ Len(b) = 1
                 /\ verb = "sim_http_healthy" => b[1] = [shape |-> "ok", own_type |-> FALSE]}
  /\ answers = <<>> /\ outcome = "open" /\ responses = <<>> /\ notes = <<>>
  /\ acted = [i \in DOMAIN batch |-> 0] /\ types = acted

Open == outcome = "open"

(* ------------------------------- arguments -------------------------------- *)
headers_from_dynamic(r) == r.shape # "header is not a string"
parse_patch_request(r) ==
  r.shape \notin {"not a map", "no url", "no body"} /\ headers_from_dynamic(r)

FirstParsed ==                                                   \* mutant
  \A i \in {1} \cap DOMAIN batch :
    headers_from_dynamic(batch[i]) /\ (verb = "http_patch_all" => parse_patch_request(batch[i]))
\* All of an array; the verbs take strings and a header map.
Parsed ==
  \A i \in DOMAIN batch :
    headers_from_dynamic(batch[i]) /\ (verb = "http_patch_all" => parse_patch_request(batch[i]))

Throw == /\ Open /\ answers = <<>> /\ ~Parsed
         /\ outcome' = "thrown" /\ UNCHANGED <<given, answers, responses, acted, types, notes>>

(* -------------------------------- dry runs -------------------------------- *)
\* A read of what is there is real in a dry run too; a container that has not
\* been started is assumed healthy.
Assumed == planning /\ verb # "http_get"

write_verb_response ==
  /\ Open /\ Assumed /\ Parsed
  /\ outcome' = "returned"
  /\ responses' = [i \in DOMAIN batch |-> [of |-> i, status |-> 200]]
  /\ notes' = [i \in DOMAIN batch |-> i]
  /\ UNCHANGED <<given, answers, acted, types>>

(* -------------------------------- requests -------------------------------- *)
Flying  == {i \in DOMAIN answers : answers[i] = Waiting}
Sent    == Len(answers)

HasBody == verb \notin Reads \cup {"http_delete"}
\* Content-Type headers of a request: one is added, never replaced, so the
\* default goes out only when the script brings none of its own.
do_body_request(r) == IF r.own_type \/ HasBody THEN 1 ELSE 0

\* A thread for each request of the next chunk.
Spawn ==
  /\ Open /\ Parsed /\ ~Assumed /\ Flying = {} /\ Sent < Len(batch)
  /\ LET upto == Min({Len(batch), Sent + Chunk}) IN
       /\ answers' = [i \in 1 .. upto |-> IF i <= Sent THEN answers[i] ELSE Waiting]
       /\ types'   = [i \in DOMAIN batch |->
                        IF i \in Sent + 1 .. upto THEN do_body_request(batch[i]) ELSE types[i]]
  /\ UNCHANGED <<given, outcome, responses, acted, notes>>

\* Status 0 stands for "no complete response", whatever the server did.
finish(i, status, did) ==
  /\ answers' = [answers EXCEPT ![i] = [of |-> i, status |-> status]]
  /\ acted'   = [acted EXCEPT ![i] = @ + did]
  /\ UNCHANGED <<given, outcome, responses, types, notes>>
Serve(i) ==
  \/ \E status \in Statuses : finish(i, status, 1)
  \* DNS, connection, TLS, the timeout of the agent, a body that breaks off, a panic
  \/ \E did \in 0 .. 1 : finish(i, 0, did)

Return ==
  /\ Open /\ Parsed /\ ~Assumed /\ Flying = {} /\ Sent = Len(batch)
  /\ outcome' = "returned" /\ responses' = answers
  /\ notes' = IF planning THEN <<1>> ELSE <<>>
  /\ UNCHANGED <<given, answers, acted, types>>

Next == Throw \/ write_verb_response \/ Spawn \/ (\E i \in Flying : Serve(i)) \/ Return

Spec == Init /\ [][Next]_vars
-----------------------------------------------------------------------------
(* http.rs: a script gets the answer of each request at its place, and only a
   real one has a status; a request goes out at most once, with one type, to no
   more servers at a time than a chunk; a batch with a malformed element sends
   nothing at all, and neither does a write of a dry run, which is in the plan
   instead.                                                                   *)
AnswersAreReal ==
  LET malformed == \E i \in DOMAIN batch :
        \/ batch[i].shape = "header is not a string"
        \/ verb = "http_patch_all" /\ batch[i].shape # "ok"
  IN /\ Cardinality(Flying) <= Chunk
     /\ \A i \in DOMAIN batch : acted[i] <= 1 /\ types[i] <= 1
     /\ malformed \/ (planning /\ verb \in Writes) =>
          \A i \in DOMAIN batch : acted[i] = 0
     /\ outcome = "returned" =>
          /\ ~malformed /\ DOMAIN responses = DOMAIN batch
          /\ \A i \in DOMAIN batch :
               /\ responses[i].of = i
               /\ ~planning /\ responses[i].status # 0 => acted[i] = 1
          /\ planning => Len(notes) = Len(batch)
=============================================================================
