---------------------------- MODULE RunLogProofs ----------------------------
(* What the journal and the audit trail say, for any number of runs, nested or
   one after another, any calls over any number of hosts, any chunk, any number
   of retries, of kept steps and of faults.

   Who writes while the last line is torn loses its own line.  What saves the
   journal is that whoever tears it is either gone or, like every run that is
   under way then, unsure; a run that comes later repairs it first.           *)
EXTENDS RunLog, TLAPS

InCall == {"check", "begin", "commands", "finish", "decide"}
Closed == {"filing", "ended", "gone"}

\* Where a run stands in the hosts of its call; the steps it has begun there are
\* the last ones it has numbered.
CallInv(r) ==
  /\ pc[r] \notin InCall => from[r] = 0 /\ at[r] = 0
  /\ pc[r] \in InCall => call[r] \in Calls /\ from[r] < Len(call[r].hosts)
  /\ pc[r] \in {"check", "commands"} => at[r] = from[r]
  /\ pc[r] = "begin" => from[r] <= at[r] /\ at[r] < Until(r) /\ (r \in held => at[r] - from[r] <= next[r])
  /\ pc[r] = "finish" => at[r] < Until(r)
  /\ pc[r] = "decide" => at[r] = Until(r)
  /\ pc[r] = "off" => r \notin held /\ next[r] = 0 /\ steps[r] = <<>>

GivenInv ==
  \A x \in given : pc[x[1]] # "off" /\ (x[1] \in held => x[2] \in 1 .. next[x[1]])

\* A whole line that stays one, whatever is written after it.
Solid(log, i) == log[i].form = "whole" /\ (i > 1 => Ended(log[i - 1]))
Of(log, i, r) == log[i].form # "newline" /\ log[i].entry.run = r
Has(log, e)   == \E i \in DOMAIN log : Solid(log, i) /\ log[i].entry = e

\* Who would write after a torn line is unsure already.
Closes(log) == log = <<>> \/ Ended(Last(log))
TailInv == Closes(journal) \/ Active \subseteq unsure

\* The steps of r that are finished in a log, and that s has the last ones.
Done(log, r) == {i \in DOMAIN log : Solid(log, i) /\ Of(log, i, r) /\ log[i].entry.event = "step_finished"}
LastDone(log, r, s) ==
  \E f \in [DOMAIN s -> Done(log, r)] :
    /\ \A k, m \in DOMAIN s : k < m => f[k] < f[m]
    /\ \A k \in DOMAIN s : s[k] = log[f[k]].entry.id
    /\ \A i \in Done(log, r) : (\E k \in DOMAIN s : f[k] = i) \/ (Len(s) = KeptSteps /\ i < f[1])

\* What a log has of a run that was not warned and is in the given stage, has
\* numbered n steps and keeps the records s.
Marked(log, r, stage) ==
  \A i \in DOMAIN log : Of(log, i, r) =>
    \/ Solid(log, i)
    \/ log[i].form # "whole" /\ stage = "dead"
    \/ log[i].form # "whole" /\ stage = "gone" /\ log[i].entry.event = "run_finished"
Tells(log, r, stage, n, s) ==
  /\ Marked(log, r, stage)
  /\ Has(log, Event(r, "run_started", 0))
  /\ \A k \in 1 .. n : Has(log, Event(r, "step_started", k))
  /\ stage \in {"filing", "ended"} => Has(log, Event(r, "run_finished", 0))
  /\ stage \notin {"dead", "gone"} => LastDone(log, r, s)
LineInv(r) == Tells(journal, r, pc[r], next[r], steps[r])

\* A run comes to its end once, after its script; of a run that has not begun
\* the journal has nothing.
Bounded(log, r, stage) ==
  \A i \in DOMAIN log : Of(log, i, r) =>
    stage # "off" /\ (log[i].entry.event = "run_finished" => stage \in Closed)
EndInv(r) ==
  /\ Bounded(journal, r, pc[r])
  /\ pc[r] \in {"closing"} \cup Closed /\ r \in wasInterrupted => r \in failed

AuditInv ==
  \A i \in DOMAIN audit :
    /\ pc[audit[i].entry.run] \in {"ended", "gone"}
    /\ audit[i].entry.outcome => audit[i].entry.run \notin failed
    /\ audit[i].entry.run \in held \ unsure =>
         LastDone(journal, audit[i].entry.run, audit[i].entry.steps)

LogInv ==
  /\ TypeOK /\ GivenInv /\ TailInv /\ AuditInv
  /\ \A r \in Runs : CallInv(r) /\ EndInv(r)
  /\ \A r \in held \ unsure : LineInv(r)
-----------------------------------------------------------------------------
(* Writing to a log.                                                        *)

Forms      == {"whole", "bare", "cut", "split", "newline"}
LogEntries == EventsOf \cup {None}
Logs       == Seq(Writes(LogEntries))

LEMMA AppendFacts ==
  ASSUME NEW S, NEW s \in Seq(S), NEW x \in S
  PROVE  /\ Append(s, x) \in Seq(S) /\ Len(Append(s, x)) = Len(s) + 1
         /\ Append(s, x)[Len(s) + 1] = x
         /\ \A i \in 1 .. Len(s) : Append(s, x)[i] = s[i]
OBVIOUS

LEMMA EventType ==
  ASSUME NEW r \in Runs, NEW kind \in Kinds, NEW id \in Int
  PROVE  /\ Event(r, kind, id) \in EventsOf /\ Event(r, kind, id) \in LogEntries
         /\ Event(r, kind, id).run = r /\ Event(r, kind, id).event = kind
         /\ Event(r, kind, id).id = id
BY DEF Event, EventsOf, Kinds, LogEntries

LEMMA WriteType ==
  ASSUME NEW S, NEW e \in S, NEW how \in Forms
  PROVE  Write(e, how) \in Writes(S) /\ Write(e, how).entry = e /\ Write(e, how).form = how
BY DEF Write, Writes, Forms

\* What one more write adds.
LEMMA WriteFacts ==
  ASSUME NEW S, NEW log \in Seq(Writes(S)), NEW e \in S, NEW how \in Forms
  PROVE  /\ Append(log, Write(e, how)) \in Seq(Writes(S))
         /\ Len(Append(log, Write(e, how))) = Len(log) + 1
         /\ Append(log, Write(e, how))[Len(log) + 1].entry = e
         /\ Append(log, Write(e, how))[Len(log) + 1].form = how
         /\ \A i \in 1 .. Len(log) : Append(log, Write(e, how))[i] = log[i]
<1> DEFINE w == Write(e, how)
<1>1. w \in Writes(S) /\ w.entry = e /\ w.form = how
  BY WriteType
<1> HIDE DEF w
<1>2. /\ Append(log, w) \in Seq(Writes(S)) /\ Len(Append(log, w)) = Len(log) + 1
      /\ Append(log, w)[Len(log) + 1] = w /\ \A i \in 1 .. Len(log) : Append(log, w)[i] = log[i]
  BY <1>1, AppendFacts
<1> QED BY <1>1, <1>2 DEF w

\* A write that failed left nothing or a part of itself.
LEMMA TornFacts ==
  ASSUME NEW S, NEW log \in Seq(Writes(S)), NEW e \in S, NEW longer \in Torn(log, e)
  PROVE  /\ longer \in Seq(Writes(S)) /\ Len(log) <= Len(longer)
         /\ \A i \in 1 .. Len(log) : longer[i] = log[i]
         /\ \A i \in 1 .. Len(longer) : i > Len(log) =>
              longer[i].entry = e /\ longer[i].form \notin {"whole", "newline"}
<1>1. Len(log) \in Nat
  OBVIOUS
<1>2. CASE longer = log
  BY <1>1, <1>2
<1>3. CASE \E how \in {"bare", "cut", "split"} : longer = Append(log, Write(e, how))
  <2>1. PICK how \in {"bare", "cut", "split"} : longer = Append(log, Write(e, how))
    BY <1>3
  <2>2. how \in Forms /\ how \notin {"whole", "newline"}
    BY DEF Forms
  <2>3. /\ longer \in Seq(Writes(S)) /\ Len(longer) = Len(log) + 1
        /\ longer[Len(log) + 1].entry = e /\ longer[Len(log) + 1].form = how
        /\ \A i \in 1 .. Len(log) : longer[i] = log[i]
    BY <2>1, <2>2, WriteFacts
  <2> QED BY <1>1, <2>2, <2>3
<1> QED BY <1>2, <1>3 DEF Torn

\* One that failed in the sync may have left all of itself.
LEMMA FailedFacts ==
  ASSUME NEW S, NEW log \in Seq(Writes(S)), NEW e \in S, NEW longer \in Failed(log, e)
  PROVE  /\ longer \in Seq(Writes(S)) /\ Len(log) <= Len(longer)
         /\ \A i \in 1 .. Len(log) : longer[i] = log[i]
         /\ \A i \in 1 .. Len(longer) : i > Len(log) => longer[i].entry = e
<1>1. Len(log) \in Nat
  OBVIOUS
<1>2. CASE longer \in Torn(log, e)
  BY <1>2, TornFacts
<1>3. CASE longer = Append(log, Write(e, "whole"))
  <2>1. /\ longer \in Seq(Writes(S)) /\ Len(longer) = Len(log) + 1
        /\ longer[Len(log) + 1].entry = e /\ \A i \in 1 .. Len(log) : longer[i] = log[i]
    BY <1>3, WriteFacts DEF Forms
  <2> QED BY <1>1, <2>1
<1> QED BY <1>2, <1>3 DEF Failed

\* A step leaves what is in the journal, and adds only events of r of one kind.
Grown(log, longer) == Len(log) <= Len(longer) /\ \A i \in 1 .. Len(log) : longer[i] = log[i]
Adds(log, longer, r, kind) ==
  /\ Grown(log, longer)
  /\ \A i \in 1 .. Len(longer) : i > Len(log) =>
       \/ longer[i].form = "newline"
       \/ longer[i].entry.run = r /\ longer[i].entry.event = kind
-----------------------------------------------------------------------------
(* What a longer log still says.                                            *)

LEMMA DomainFacts ==
  ASSUME NEW log \in Logs
  PROVE  DOMAIN log = 1 .. Len(log) /\ Len(log) \in Nat
BY DEF Logs

LEMMA PrefixFacts ==
  ASSUME NEW log \in Logs, NEW longer \in Logs, Grown(log, longer), NEW i \in DOMAIN log
  PROVE  /\ i \in DOMAIN longer /\ longer[i] = log[i] /\ (Solid(longer, i) <=> Solid(log, i))
         /\ \A q \in Runs : Of(longer, i, q) <=> Of(log, i, q)
<1>1. i \in 1 .. Len(log) /\ Len(log) \in Nat /\ Len(longer) \in Nat /\ DOMAIN longer = 1 .. Len(longer)
  BY DomainFacts
<1>2. i \in DOMAIN longer /\ longer[i] = log[i]
  BY <1>1 DEF Grown
<1>3. i > 1 => longer[i - 1] = log[i - 1]
  BY <1>1 DEF Grown
<1> QED BY <1>1, <1>2, <1>3 DEF Solid, Of

LEMMA HasStays ==
  ASSUME NEW log \in Logs, NEW longer \in Logs, Grown(log, longer), NEW e, Has(log, e)
  PROVE  Has(longer, e)
BY PrefixFacts DEF Has

LEMMA NoneAdded ==
  ASSUME NEW log \in Logs, NEW longer \in Logs, NEW r, NEW kind, Adds(log, longer, r, kind),
         NEW q \in Runs, q # r, NEW i \in DOMAIN longer, Of(longer, i, q)
  PROVE  i \in DOMAIN log
BY DomainFacts DEF Adds, Of

LEMMA DoneSame ==
  ASSUME NEW log \in Logs, NEW longer \in Logs, NEW r, NEW kind, Adds(log, longer, r, kind),
         NEW q \in Runs, q # r \/ kind # "step_finished"
  PROVE  Done(longer, q) = Done(log, q)
<1>1. \A i \in DOMAIN log : i \in DOMAIN longer /\ longer[i] = log[i]
        /\ (Solid(longer, i) <=> Solid(log, i)) /\ (Of(longer, i, q) <=> Of(log, i, q))
  BY PrefixFacts DEF Adds
<1>2. \A i \in DOMAIN longer : i \notin DOMAIN log =>
        ~(Of(longer, i, q) /\ longer[i].entry.event = "step_finished")
  BY DomainFacts DEF Adds, Of
<1> QED BY <1>1, <1>2 DEF Done

LEMMA LastDoneSame ==
  ASSUME NEW log \in Logs, NEW longer \in Logs, Grown(log, longer),
         NEW q \in Runs, Done(longer, q) = Done(log, q), NEW s, LastDone(log, q, s)
  PROVE  LastDone(longer, q, s)
<1>1. \A i \in Done(log, q) : longer[i] = log[i]
  BY PrefixFacts DEF Done
<1> QED BY <1>1 DEF LastDone

\* What is written by one run does not touch what the log has of another.
LEMMA OthersTell ==
  ASSUME NEW log \in Logs, NEW longer \in Logs, NEW r, NEW kind, Adds(log, longer, r, kind),
         NEW q \in Runs, q # r, NEW stage, NEW n, NEW s, Tells(log, q, stage, n, s)
  PROVE  Tells(longer, q, stage, n, s)
<1>1. Grown(log, longer)
  BY DEF Adds
<1>2. Marked(longer, q, stage)
  <2> SUFFICES ASSUME NEW i \in DOMAIN longer, Of(longer, i, q)
               PROVE  \/ Solid(longer, i)
                      \/ longer[i].form # "whole" /\ stage = "dead"
                      \/ longer[i].form # "whole" /\ stage = "gone"
                           /\ longer[i].entry.event = "run_finished"
    BY DEF Marked
  <2>1. i \in DOMAIN log
    BY NoneAdded
  <2> QED BY <1>1, <2>1, PrefixFacts DEF Tells, Marked
<1>3. stage \notin {"dead", "gone"} => LastDone(longer, q, s)
  BY <1>1, DoneSame, LastDoneSame DEF Tells
<1> QED BY <1>1, <1>2, <1>3, HasStays DEF Tells

LEMMA OthersBounded ==
  ASSUME NEW log \in Logs, NEW longer \in Logs, NEW r, NEW kind, Adds(log, longer, r, kind),
         NEW q \in Runs, q # r, NEW stage, Bounded(log, q, stage)
  PROVE  Bounded(longer, q, stage)
<1> SUFFICES ASSUME NEW i \in DOMAIN longer, Of(longer, i, q)
             PROVE  stage # "off" /\ (longer[i].entry.event = "run_finished" => stage \in Closed)
  BY DEF Bounded
<1>1. i \in DOMAIN log /\ Grown(log, longer)
  BY NoneAdded DEF Adds
<1> QED BY <1>1, PrefixFacts DEF Bounded
-----------------------------------------------------------------------------
(* A whole line at the end of a log.                                        *)

Fresh(log, longer, e) ==
  /\ Grown(log, longer) /\ Len(longer) = Len(log) + 1
  /\ Solid(longer, Len(log) + 1) /\ longer[Len(log) + 1].entry = e

LEMMA FreshFacts ==
  ASSUME NEW log \in Logs, NEW longer \in Logs, NEW e, Fresh(log, longer, e)
  PROVE  /\ Has(longer, e) /\ Grown(log, longer)
         /\ \A i \in DOMAIN longer : i \notin DOMAIN log =>
              i = Len(log) + 1 /\ Solid(longer, i) /\ longer[i].entry = e
BY DomainFacts DEF Fresh, Has

LEMMA FreshMarked ==
  ASSUME NEW log \in Logs, NEW longer \in Logs, NEW e, Fresh(log, longer, e),
         NEW r \in Runs, NEW stage, stage \notin {"dead", "gone"}, Marked(log, r, stage), NEW later
  PROVE  Marked(longer, r, later)
BY FreshFacts, PrefixFacts DEF Marked

\* The run itself writes an event other than the end of a step.
LEMMA FreshTells ==
  ASSUME NEW log \in Logs, NEW longer \in Logs, NEW r \in Runs, NEW kind \in Kinds,
         NEW id \in Int, kind # "step_finished", Fresh(log, longer, Event(r, kind, id)),
         NEW stage, stage \notin {"dead", "gone"}, NEW n, NEW s, Tells(log, r, stage, n, s),
         NEW later, NEW m,
         \A k \in 1 .. m : k \in 1 .. n \/ Event(r, kind, id) = Event(r, "step_started", k),
         later \in {"filing", "ended"} => kind = "run_finished" /\ id = 0
  PROVE  Tells(longer, r, later, m, s)
<1>1. Grown(log, longer) /\ Has(longer, Event(r, kind, id))
  BY FreshFacts
<1>2. Marked(longer, r, later)
  BY FreshMarked DEF Tells
<1>3. Has(longer, Event(r, "run_started", 0))
  BY <1>1, HasStays DEF Tells
<1>4. \A k \in 1 .. m : Has(longer, Event(r, "step_started", k))
  BY <1>1, HasStays DEF Tells
<1>5. Adds(log, longer, r, kind)
  <2>1. \A i \in 1 .. Len(longer) : i > Len(log) => longer[i].entry = Event(r, kind, id)
    BY FreshFacts, DomainFacts
  <2> QED BY <1>1, <2>1, EventType DEF Adds
<1>6. LastDone(longer, r, s)
  BY <1>1, <1>5, DoneSame, LastDoneSame DEF Tells
<1> QED BY <1>1, <1>2, <1>3, <1>4, <1>6 DEF Tells

\* The run writes the end of a step, and keeps its record (record_started).
LEMMA KeptFacts ==
  ASSUME NEW s \in Seq(Int), Len(s) <= KeptSteps, NEW id \in Int
  PROVE  /\ Kept(s, id) \in Seq(Int) /\ Len(Kept(s, id)) <= KeptSteps
         /\ Len(Kept(s, id)) \in Nat \ {0} /\ Kept(s, id)[Len(Kept(s, id))] = id
         /\ \/ /\ Len(Kept(s, id)) = Len(s) + 1
               /\ \A k \in 1 .. Len(s) : Kept(s, id)[k] = s[k]
            \/ /\ Len(s) = KeptSteps /\ Len(Kept(s, id)) = KeptSteps
               /\ \A k \in 1 .. Len(s) - 1 : Kept(s, id)[k] = s[k + 1]
<1>1. KeptSteps \in Nat \ {0} /\ Len(s) \in Nat
  BY LogAssumption
<1>2. CASE Len(s) = KeptSteps
  <2>1. Tail(s) \in Seq(Int) /\ Len(Tail(s)) = Len(s) - 1
        /\ \A k \in 1 .. Len(s) - 1 : Tail(s)[k] = s[k + 1]
    BY <1>1, <1>2
  <2>2. /\ Append(Tail(s), id) \in Seq(Int) /\ Len(Append(Tail(s), id)) = Len(s)
        /\ Append(Tail(s), id)[Len(s)] = id
        /\ \A k \in 1 .. Len(s) - 1 : Append(Tail(s), id)[k] = s[k + 1]
    BY <1>1, <2>1, AppendFacts
  <2> QED BY <1>1, <1>2, <2>2 DEF Kept
<1>3. CASE Len(s) # KeptSteps
  <2>1. Kept(s, id) = Append(s, id)
    BY <1>3 DEF Kept
  <2> QED BY <1>1, <1>3, <2>1, AppendFacts
<1> QED BY <1>2, <1>3

LEMMA FreshDone ==
  ASSUME NEW log \in Logs, NEW longer \in Logs, NEW r \in Runs, NEW id \in Int,
         Fresh(log, longer, Event(r, "step_finished", id)),
         NEW s \in Seq(Int), Len(s) <= KeptSteps, LastDone(log, r, s)
  PROVE  LastDone(longer, r, Kept(s, id))
<1> DEFINE n == Len(log) + 1
           t == Kept(s, id)
<1>1. /\ Done(longer, r) = Done(log, r) \cup {n} /\ longer[n].entry.id = id
      /\ \A i \in Done(log, r) : i \in Nat /\ i < n /\ longer[i] = log[i]
  <2>1. /\ Event(r, "step_finished", id).run = r /\ Event(r, "step_finished", id).id = id
        /\ Event(r, "step_finished", id).event = "step_finished"
    BY EventType DEF Kinds
  <2>2. n \in DOMAIN longer /\ Solid(longer, n) /\ Of(longer, n, r)
        /\ longer[n].entry = Event(r, "step_finished", id)
    BY <2>1, DomainFacts DEF Fresh, Solid, Of
  <2>3. \A i \in DOMAIN log : i \in DOMAIN longer /\ longer[i] = log[i]
        /\ (Solid(longer, i) <=> Solid(log, i)) /\ (Of(longer, i, r) <=> Of(log, i, r))
    BY PrefixFacts DEF Fresh
  <2>4. \A i \in DOMAIN longer : i \in DOMAIN log \/ i = n
    BY FreshFacts
  <2>5. \A i \in DOMAIN log : i \in Nat /\ i < n
    BY DomainFacts
  <2> QED BY <2>1, <2>2, <2>3, <2>4, <2>5 DEF Done
<1>2. PICK f \in [DOMAIN s -> Done(log, r)] :
        /\ \A k, m \in DOMAIN s : k < m => f[k] < f[m]
        /\ \A k \in DOMAIN s : s[k] = log[f[k]].entry.id
        /\ \A i \in Done(log, r) : (\E k \in DOMAIN s : f[k] = i) \/ (Len(s) = KeptSteps /\ i < f[1])
  BY DEF LastDone
<1>3. DOMAIN s = 1 .. Len(s) /\ DOMAIN t = 1 .. Len(t) /\ Len(s) \in Nat /\ Len(t) \in Nat \ {0}
  BY KeptFacts
<1>4. KeptSteps \in Nat \ {0} /\ t[Len(t)] = id /\ Len(s) <= KeptSteps /\ Len(t) <= KeptSteps
  BY LogAssumption, KeptFacts
<1>7. \/ Len(t) = Len(s) + 1 /\ \A k \in 1 .. Len(s) : t[k] = s[k]
      \/ /\ Len(s) = KeptSteps /\ Len(t) = KeptSteps
         /\ \A k \in 1 .. Len(s) - 1 : t[k] = s[k + 1]
  BY KeptFacts
<1> HIDE DEF t
<1>5. CASE Len(t) = Len(s) + 1 /\ \A k \in 1 .. Len(s) : t[k] = s[k]
  <2> DEFINE g == [k \in DOMAIN t |-> IF k < Len(t) THEN f[k] ELSE n]
  <2>1. Len(s) < KeptSteps
    BY <1>3, <1>4, <1>5
  <2>2. \A k \in DOMAIN t :
          \/ k \in DOMAIN s /\ g[k] = f[k] /\ k < Len(t)
          \/ k = Len(t) /\ g[k] = n
    <3>1. \A k \in DOMAIN t : g[k] = IF k < Len(t) THEN f[k] ELSE n
      OBVIOUS
    <3>2. \A k \in DOMAIN t : (k < Len(t) => k \in DOMAIN s) /\ (~(k < Len(t)) => k = Len(t))
      BY <1>3, <1>5
    <3> HIDE DEF g, n
    <3> QED BY <3>1, <3>2
  <2>3. \A k \in DOMAIN s : k \in DOMAIN t /\ g[k] = f[k] /\ f[k] \in Done(log, r) /\ t[k] = s[k]
    BY <1>3, <1>5
  <2>4. Len(t) \in DOMAIN t /\ g[Len(t)] = n
    BY <1>3
  <2> HIDE DEF g
  <2>5. g \in [DOMAIN t -> Done(longer, r)]
    BY <1>1, <2>2, <2>3 DEF g
  <2>6. \A k, m \in DOMAIN t : k < m => g[k] < g[m]
    BY <1>1, <1>2, <1>3, <2>2, <2>3
  <2>7. \A k \in DOMAIN t : t[k] = longer[g[k]].entry.id
    BY <1>1, <1>2, <1>4, <2>2, <2>3, ZenonT(40)
  <2>8. \A i \in Done(longer, r) : \E k \in DOMAIN t : g[k] = i
    BY <1>1, <1>2, <1>4, <2>1, <2>3, <2>4, SMTT(30)
  <2> QED BY <2>5, <2>6, <2>7, <2>8 DEF LastDone, t
<1>6. CASE /\ Len(s) = KeptSteps /\ Len(t) = KeptSteps
           /\ \A k \in 1 .. Len(s) - 1 : t[k] = s[k + 1]
  <2> DEFINE g == [k \in DOMAIN t |-> IF k < Len(t) THEN f[k + 1] ELSE n]
  <2>1. \A k \in DOMAIN t :
          \/ k + 1 \in DOMAIN s /\ g[k] = f[k + 1] /\ t[k] = s[k + 1] /\ k < Len(t)
          \/ k = Len(t) /\ g[k] = n
    <3>1. \A k \in DOMAIN t : g[k] = IF k < Len(t) THEN f[k + 1] ELSE n
      OBVIOUS
    <3>2. \A k \in DOMAIN t : (k < Len(t) => k + 1 \in 1 .. Len(s) /\ k \in 1 .. Len(s) - 1)
                              /\ (~(k < Len(t)) => k = Len(t))
      BY <1>3, <1>6
    <3> HIDE DEF g, n
    <3> QED BY <1>3, <1>6, <3>1, <3>2
  <2>2. Len(t) \in DOMAIN t /\ g[Len(t)] = n /\ 1 \in DOMAIN t /\ 1 \in DOMAIN s
    BY <1>3, <1>6
  <2>3. \A k \in DOMAIN s : f[k] \in Done(log, r) /\ (k # 1 => k - 1 \in DOMAIN t /\ g[k - 1] = f[k])
    BY <1>3, <1>6
  <2> HIDE DEF g
  <2>4. g \in [DOMAIN t -> Done(longer, r)]
    BY <1>1, <2>1, <2>3 DEF g
  <2>5. \A k, m \in DOMAIN t : k < m => g[k] < g[m]
    BY <1>1, <1>2, <1>3, <2>1, <2>3
  <2>6. \A k \in DOMAIN t : t[k] = longer[g[k]].entry.id
    <3> HIDE DEF n
    <3>1. \A k \in DOMAIN s : s[k] = longer[f[k]].entry.id
      BY <1>1, <1>2
    <3> QED BY <1>1, <1>4, <2>1, <3>1
  <2>7. f[1] < g[1]
    BY <1>1, <1>2, <1>3, <2>1, <2>2, <2>3
  <2>8. \A i \in Done(longer, r) : (\E k \in DOMAIN t : g[k] = i) \/ i < g[1]
    <3>1. SUFFICES ASSUME NEW i \in Done(log, r)
                   PROVE  (\E k \in DOMAIN t : g[k] = i) \/ i < g[1]
      BY <1>1, <2>2
    <3>2. f[1] \in Nat /\ g[1] \in Nat /\ i \in Nat
      BY <1>1, <2>2, <2>3, <2>4, DomainFacts, SMTT(30) DEF Done
    <3>3. CASE i < f[1]
      BY <2>7, <3>2, <3>3
    <3>4. CASE \E k \in DOMAIN s : f[k] = i
      BY <2>3, <2>7, <3>4
    <3> QED BY <1>2, <3>3, <3>4
  <2> QED BY <1>6, <2>4, <2>5, <2>6, <2>8 DEF LastDone, t
<1> QED BY <1>5, <1>6, <1>7
-----------------------------------------------------------------------------
(* Types.                                                                   *)

LEMMA JournalType ==
  ASSUME TypeOK
  PROVE  journal \in Logs /\ journal \in Seq(Writes(LogEntries)) /\ Len(journal) \in Nat
         /\ audit \in Seq(Writes(EntriesOf)) /\ Len(audit) \in Nat
BY DEF TypeOK, Logs, LogEntries

\* Journal::append, by a run that is under way.
LEMMA RecordFacts ==
  ASSUME TypeOK, TailInv, NEW r \in Runs, r \in Active, NEW kind \in Kinds, NEW id \in Int,
         Record(r, Event(r, kind, id))
  PROVE  /\ journal' \in Logs /\ Adds(journal, journal', r, kind)
         /\ faults' \in 0 .. MaxFaults
         /\ unsure \subseteq unsure' /\ unsure' \subseteq unsure \cup Active
         /\ r \in held \ unsure' => Fresh(journal, journal', Event(r, kind, id))
         /\ Closes(journal') \/ Active \subseteq unsure'
<1> DEFINE e == Event(r, kind, id)
<1>1. e \in LogEntries /\ e.run = r /\ e.event = kind /\ journal \in Logs /\ Len(journal) \in Nat
      /\ journal \in Seq(Writes(LogEntries)) /\ faults \in 0 .. MaxFaults /\ MaxFaults \in Nat
  <2>1. e \in LogEntries /\ e.run = r /\ e.event = kind
    BY EventType
  <2>2. faults \in 0 .. MaxFaults
    BY DEF TypeOK
  <2>3. MaxFaults \in Nat
    BY LogAssumption
  <2> QED BY <2>1, <2>2, <2>3, JournalType
<1> HIDE DEF e
<1>2. CASE r \notin held
  <2>1. UNCHANGED <<journal, faults, unsure>>
    BY <1>2 DEF Record
  <2> QED BY <1>1, <1>2, <2>1 DEF Adds, Grown, TailInv
<1>3. CASE r \in held /\ journal' = Append(journal, Write(e, "whole")) /\ UNCHANGED <<faults, unsure>>
  <2>1. /\ journal' \in Seq(Writes(LogEntries)) /\ Len(journal') = Len(journal) + 1
        /\ journal'[Len(journal) + 1].entry = e /\ journal'[Len(journal) + 1].form = "whole"
        /\ \A i \in 1 .. Len(journal) : journal'[i] = journal[i]
    BY <1>1, <1>3, WriteFacts DEF Forms
  <2>2. Adds(journal, journal', r, kind) /\ journal' \in Logs
    BY <1>1, <2>1 DEF Adds, Grown, Logs
  <2>3. Closes(journal')
    BY <1>1, <2>1 DEF Closes, Last, Ended
  <2>4. ASSUME r \notin unsure PROVE Fresh(journal, journal', e)
    <3>1. Closes(journal)
      BY <2>4 DEF TailInv
    <3>2. Len(journal) + 1 > 1 => Ended(journal'[Len(journal)])
      BY <1>1, <2>1, <3>1 DEF Closes, Last
    <3> QED BY <1>1, <2>1, <3>2 DEF Fresh, Grown, Solid
  <2> QED BY <1>1, <1>3, <2>2, <2>3, <2>4 DEF e
<1>4. CASE r \in held /\ journal' \in Failed(journal, e) /\ unsure' = unsure \cup Active /\ Fault
  <2>1. /\ journal' \in Seq(Writes(LogEntries)) /\ Len(journal) <= Len(journal')
        /\ \A i \in 1 .. Len(journal) : journal'[i] = journal[i]
        /\ \A i \in 1 .. Len(journal') : i > Len(journal) =>
             journal'[i].entry = e
    BY <1>1, <1>4, FailedFacts
  <2>2. Adds(journal, journal', r, kind) /\ journal' \in Logs
    BY <1>1, <2>1 DEF Adds, Grown, Logs
  <2>3. faults' \in 0 .. MaxFaults
    BY <1>1, <1>4 DEF Fault
  <2> QED BY <1>4, <2>2, <2>3
<1> QED BY <1>2, <1>3, <1>4 DEF Record, e

Stages  == Over \cup {"off", "script", "check", "begin", "commands", "finish", "decide",
                      "closing", "filing"}
Working == {"script"} \cup InCall

\* Where a call stands.
LEMMA UntilFacts ==
  ASSUME TypeOK, NEW r \in Runs, call[r] \in Calls, from[r] < Len(call[r].hosts)
  PROVE  /\ from[r] \in Nat /\ Until(r) \in Nat /\ Len(call[r].hosts) \in Nat
         /\ from[r] < Until(r) /\ Until(r) <= Len(call[r].hosts)
<1>1. from[r] \in Nat
  BY DEF TypeOK
<1>2. Len(call[r].hosts) \in Nat \ {0} /\ call[r].chunk \in Nat \ {0}
  BY LogAssumption
<1> QED BY <1>1, <1>2 DEF Until

\* The same, one set at a time.
Types ==
  /\ journal \in Logs /\ audit \in Seq(Writes(EntriesOf))
  /\ pc \in [Runs -> Stages] /\ call \in [Runs -> Calls \cup {None}]
  /\ from \in [Runs -> Nat] /\ at \in [Runs -> Nat] /\ attempt \in [Runs -> Nat]
  /\ next \in [Runs -> Nat]
  /\ steps \in [Runs -> Seq(Int)] /\ \A r \in Runs : Len(steps[r]) <= KeptSteps
  /\ calls \in [Runs -> 0 .. MaxCalls] /\ faults \in 0 .. MaxFaults
  /\ given \subseteq Runs \X Int
  /\ held \subseteq Runs /\ unsure \subseteq Runs /\ filed \subseteq Runs
  /\ interrupted \subseteq Runs /\ wasInterrupted \subseteq Runs /\ failed \subseteq Runs
  /\ bad \subseteq Runs

LEMMA TypeParts == TypeOK <=> Types
BY DEF TypeOK, Types, Stages, Over, Logs, LogEntries

LEMMA TypePartsNext == TypeOK' <=> Types'
BY DEF TypeOK, Types, Stages, Over, Logs, LogEntries

LEMMA Bounds == MaxCalls \in Nat /\ MaxFaults \in Nat /\ KeptSteps \in Nat \ {0}
BY LogAssumption

\* A step that leaves the logs, the records, the faults and who holds a journal.
LEMMA TypeQuiet ==
  ASSUME Types, NEW r \in Runs,
         UNCHANGED <<journal, audit, steps, held, next, faults, unsure, filed>>,
         pc' \in [Runs -> Stages], call' \in [Runs -> Calls \cup {None}],
         from' \in [Runs -> Nat], at' \in [Runs -> Nat], attempt' \in [Runs -> Nat],
         calls' \in [Runs -> 0 .. MaxCalls], given' \subseteq given,
         interrupted' \subseteq interrupted, wasInterrupted' \subseteq wasInterrupted \cup {r},
         failed' \subseteq failed \cup {r}, bad' \subseteq bad \cup {r}
  PROVE  Types'
BY DEF Types

LEMMA FaultType ==
  ASSUME Types, Fault
  PROVE  faults' \in 0 .. MaxFaults
BY Bounds DEF Types, Fault

LEMMA ForgottenType ==
  ASSUME Types, NEW r \in Runs, Forgotten(r)
  PROVE  /\ call' \in [Runs -> Calls \cup {None}] /\ from' \in [Runs -> Nat]
         /\ at' \in [Runs -> Nat] /\ attempt' \in [Runs -> Nat]
         /\ given' \subseteq given /\ bad' \subseteq bad \cup {r}
BY DEF Types, Forgotten

LEMMA CheckedType ==
  ASSUME Types, NEW r \in Runs, NEW then \in Working, Checked(r, then)
  PROVE  /\ pc' \in [Runs -> Stages] /\ interrupted' \subseteq interrupted
         /\ wasInterrupted' \subseteq wasInterrupted \cup {r}
         /\ \E x \in {"script", then} : pc' = [pc EXCEPT ![r] = x]
BY DEF Types, Checked, Stages, Working, InCall

\* The events written by a call have numbers.
LEMMA StepIdType ==
  ASSUME Types, NEW r \in Runs, call[r] \in Calls, from[r] < Len(call[r].hosts), NEW i \in Int
  PROVE  StepId(r, i) \in Int
<1>1. TypeOK
  BY TypeParts
<1>2. Until(r) \in Int /\ next[r] \in Int
  BY <1>1, UntilFacts DEF Types
<1> QED BY <1>2 DEF StepId

\* What a run may be about to write when it dies (Kill), and what is in the
\* journal after that.
LEMMA AboutToFacts ==
  ASSUME Types, NEW r \in Runs, CallInv(r), NEW e \in AboutTo(r)
  PROVE  \E kind \in Kinds, id \in Int :
           /\ e = Event(r, kind, id) /\ r \in held
           /\ kind = "run_finished" => pc[r] = "closing"
           /\ pc[r] # "filing"
<1>1. r \in held
  BY DEF AboutTo
<1>2. next[r] + 1 \in Int /\ at[r] + 1 \in Int
  BY DEF Types
<1>3. CASE pc[r] = "begin"
  <2>1. e = Event(r, "step_started", next[r] + 1)
    BY <1>1, <1>3 DEF AboutTo
  <2> QED BY <1>1, <1>2, <1>3, <2>1 DEF Kinds
<1>4. CASE pc[r] = "finish"
  <2>1. e = Event(r, "step_finished", StepId(r, at[r] + 1))
    BY <1>1, <1>4 DEF AboutTo
  <2>2. StepId(r, at[r] + 1) \in Int
    BY <1>2, <1>4, StepIdType DEF CallInv, InCall
  <2> QED BY <1>1, <1>4, <2>1, <2>2 DEF Kinds
<1>5. CASE pc[r] = "closing"
  <2>1. e = Event(r, "run_finished", 0)
    BY <1>1, <1>5 DEF AboutTo
  <2> QED BY <1>1, <1>5, <2>1 DEF Kinds
<1> QED BY <1>1, <1>3, <1>4, <1>5 DEF AboutTo
-----------------------------------------------------------------------------
(* What starting a run, its end and its death leave in the logs.            *)

LEMMA FreshAppend ==
  ASSUME NEW log \in Logs, Closes(log), NEW e \in LogEntries,
         NEW longer, longer = Append(log, Write(e, "whole"))
  PROVE  longer \in Logs /\ Fresh(log, longer, e) /\ Closes(longer)
<1>1. log \in Seq(Writes(LogEntries)) /\ Len(log) \in Nat
  BY DEF Logs
<1>2. /\ longer \in Seq(Writes(LogEntries)) /\ Len(longer) = Len(log) + 1
      /\ longer[Len(log) + 1].entry = e /\ longer[Len(log) + 1].form = "whole"
      /\ \A i \in 1 .. Len(log) : longer[i] = log[i]
  BY <1>1, WriteFacts DEF Forms
<1>3. Len(log) + 1 > 1 => Ended(longer[Len(log)])
  BY <1>1, <1>2 DEF Closes, Last
<1> QED BY <1>1, <1>2, <1>3 DEF Fresh, Grown, Solid, Closes, Last, Ended, Logs

\* Journal::open closes the last line before it writes.
LEMMA RepairedFacts ==
  ASSUME NEW log \in Logs
  PROVE  /\ Repaired(log) \in Logs /\ Grown(log, Repaired(log)) /\ Closes(Repaired(log))
         /\ \A i \in 1 .. Len(Repaired(log)) : i > Len(log) => Repaired(log)[i].form = "newline"
<1> DEFINE longer == Append(log, Write(None, "newline"))
<1>1. log \in Seq(Writes(LogEntries)) /\ Len(log) \in Nat /\ None \in LogEntries
  BY DEF Logs, LogEntries
<1>2. CASE log # <<>> /\ ~Ended(Last(log))
  <2>1. /\ longer \in Seq(Writes(LogEntries)) /\ Len(longer) = Len(log) + 1
        /\ longer[Len(log) + 1].form = "newline"
        /\ \A i \in 1 .. Len(log) : longer[i] = log[i]
    BY <1>1, WriteFacts DEF Forms
  <2>2. Repaired(log) = longer
    BY <1>2 DEF Repaired
  <2> HIDE DEF longer
  <2> QED BY <1>1, <2>1, <2>2 DEF Grown, Closes, Last, Ended, Logs
<1>3. CASE ~(log # <<>> /\ ~Ended(Last(log)))
  BY <1>1, <1>3 DEF Repaired, Grown, Closes, Logs
<1> QED BY <1>2, <1>3

LEMMA StartFacts ==
  ASSUME Types, NEW r \in Runs, Start(r)
  PROVE  /\ journal' \in Logs /\ Adds(journal, journal', r, "run_started")
         /\ faults' \in 0 .. MaxFaults /\ unsure \subseteq unsure'
         /\ unsure' \subseteq unsure \cup Active \cup {r}
         /\ Closes(journal') \/ Active \cup {r} \subseteq unsure'
         /\ \/ held' = held
            \/ /\ held' = held \cup {r} /\ Has(journal', Event(r, "run_started", 0))
               /\ \A i \in DOMAIN journal' : i \notin DOMAIN journal =>
                    journal'[i].form = "newline" \/ Solid(journal', i)
<1> DEFINE rep == Repaired(journal)
           e   == Event(r, "run_started", 0)
<1>1. journal \in Logs /\ Len(journal) \in Nat /\ DOMAIN journal = 1 .. Len(journal)
  BY DomainFacts DEF Types
<1>2. /\ rep \in Logs /\ Grown(journal, rep) /\ Closes(rep)
      /\ \A i \in 1 .. Len(rep) : i > Len(journal) => rep[i].form = "newline"
  BY <1>1, RepairedFacts
<1>3. e \in LogEntries /\ e.run = r /\ e.event = "run_started"
  BY EventType DEF Kinds
<1>4. Len(rep) \in Nat
  BY <1>2, DomainFacts
<1> HIDE DEF rep, e
<1>5. CASE journal' = Append(rep, Write(e, "whole")) /\ held' = held \cup {r} /\ UNCHANGED <<faults, unsure>>
  <2>1. journal' \in Logs /\ Fresh(rep, journal', e) /\ Closes(journal')
    BY <1>2, <1>3, <1>5, FreshAppend
  <2>2. Grown(journal, journal')
    BY <1>1, <1>2, <1>4, <2>1 DEF Fresh, Grown
  <2>3. Len(journal') \in Nat /\ DOMAIN journal' = 1 .. Len(journal')
    BY <2>1, DomainFacts
  <2>4. \A i \in DOMAIN journal' : i \notin DOMAIN journal =>
          \/ journal'[i].form = "newline"
          \/ Solid(journal', i) /\ journal'[i].entry = e
    BY <1>1, <1>2, <1>4, <2>1, <2>3 DEF Fresh, Grown
  <2>5. Adds(journal, journal', r, "run_started")
    BY <1>1, <1>3, <2>2, <2>3, <2>4 DEF Adds
  <2>6. Has(journal', e)
    BY <1>2, <2>1, FreshFacts
  <2> QED BY <1>5, <2>1, <2>4, <2>5, <2>6 DEF Types, e
<1>6. CASE /\ journal' \in {journal} \cup Failed(rep, e) /\ Fault
           /\ unsure' = unsure \cup Active \cup {r} /\ held' = held
  <2>1. faults' \in 0 .. MaxFaults
    BY <1>6, FaultType
  <2>2. CASE journal' = journal
    BY <1>1, <1>6, <2>1, <2>2 DEF Adds, Grown
  <2>3. CASE journal' \in Failed(rep, e)
    <3>1. /\ journal' \in Seq(Writes(LogEntries)) /\ Len(rep) <= Len(journal')
          /\ \A i \in 1 .. Len(rep) : journal'[i] = rep[i]
          /\ \A i \in 1 .. Len(journal') : i > Len(rep) =>
               journal'[i].entry = e
      BY <1>2, <1>3, <2>3, FailedFacts DEF Logs
    <3>2. journal' \in Logs /\ Len(journal') \in Nat
      BY <3>1 DEF Logs
    <3>3. Grown(journal, journal')
      BY <1>1, <1>2, <1>4, <3>1, <3>2 DEF Grown
    <3>4. \A i \in 1 .. Len(journal') : i > Len(journal) =>
            journal'[i].form = "newline" \/ journal'[i].entry = e
      BY <1>1, <1>2, <1>4, <3>1, <3>2 DEF Grown
    <3>5. Adds(journal, journal', r, "run_started")
      BY <1>3, <3>3, <3>4 DEF Adds
    <3> QED BY <1>6, <2>1, <3>2, <3>5
  <2> QED BY <1>6, <2>2, <2>3
<1> QED BY <1>5, <1>6 DEF Start, rep, e

LEMMA EntryType ==
  ASSUME Types, NEW r \in Runs
  PROVE  Entry(r) \in EntriesOf /\ Entry(r).run = r /\ Entry(r).steps = steps[r]
         /\ (Entry(r).outcome <=> r \notin failed)
BY DEF Types, Entry, EntriesOf

\* What is added to the audit trail is of the run that files.
Files(r) ==
  /\ audit' \in Seq(Writes(EntriesOf)) /\ Len(audit) <= Len(audit')
  /\ \A i \in 1 .. Len(audit) : audit'[i] = audit[i]
  /\ \A i \in 1 .. Len(audit') : i > Len(audit) => audit'[i].entry = Entry(r)

LEMMA FileFacts ==
  ASSUME Types, NEW r \in Runs, File(r)
  PROVE  Files(r) /\ faults' \in 0 .. MaxFaults /\ filed' \subseteq filed \cup {r}
<1>1. audit \in Seq(Writes(EntriesOf)) /\ Len(audit) \in Nat /\ Entry(r) \in EntriesOf
  BY EntryType, TypeParts, JournalType
<1> DEFINE x == Entry(r)
<1> HIDE DEF x
<1>2. CASE audit' = Append(audit, Write(x, "whole")) /\ filed' = filed \cup {r} /\ UNCHANGED faults
  <2>1. /\ audit' \in Seq(Writes(EntriesOf)) /\ Len(audit') = Len(audit) + 1
        /\ audit'[Len(audit) + 1].entry = x
        /\ \A i \in 1 .. Len(audit) : audit'[i] = audit[i]
    BY <1>1, <1>2, WriteFacts DEF Forms, x
  <2> QED BY <1>1, <1>2, <2>1, SMTT(30) DEF Files, Types, x
<1>3. CASE audit' \in Torn(audit, x) /\ Fault /\ UNCHANGED filed
  <2>1. Files(r)
    BY <1>1, <1>3, TornFacts DEF Files, x
  <2> QED BY <1>3, <2>1, FaultType
<1> QED BY <1>2, <1>3 DEF File, x

LEMMA KillFacts ==
  ASSUME Types, NEW r \in Runs, CallInv(r), Kill(r)
  PROVE  /\ journal' \in Logs /\ Files(r) /\ (pc[r] # "filing" => audit' = audit)
         /\ \E kind \in Kinds :
              /\ Adds(journal, journal', r, kind)
              /\ kind = "run_finished" => pc[r] = "closing"
              /\ \A i \in DOMAIN journal' : i \notin DOMAIN journal => journal'[i].form # "whole"
         /\ pc[r] = "filing" => journal' = journal
         /\ journal' = journal \/ Active \ {r} \subseteq unsure'
<1>1. journal \in Logs /\ Len(journal) \in Nat /\ DOMAIN journal = 1 .. Len(journal)
  BY DomainFacts DEF Types
<1>2. Files(r) /\ (pc[r] # "filing" => audit' = audit)
  <2>1. audit \in Seq(Writes(EntriesOf)) /\ Len(audit) \in Nat /\ Entry(r) \in EntriesOf
    BY EntryType, TypeParts, JournalType
  <2>2. CASE audit' = audit
    BY <2>1, <2>2 DEF Files
  <2>3. CASE pc[r] = "filing" /\ audit' \in Torn(audit, Entry(r))
    BY <2>1, <2>3, TornFacts DEF Files
  <2> QED BY <2>2, <2>3 DEF Kill
<1>3. CASE journal' = journal
  <2>1. Adds(journal, journal', r, "run_started") /\ "run_started" \in Kinds
    BY <1>1, <1>3 DEF Adds, Grown, Kinds
  <2> QED BY <1>1, <1>2, <1>3, <2>1
<1>4. CASE journal' # journal
  <2>1. PICK e \in AboutTo(r) : journal' \in Torn(journal, e)
    BY <1>4 DEF Kill
  <2>2. PICK kind \in Kinds, id \in Int :
          /\ e = Event(r, kind, id) /\ r \in held
          /\ kind = "run_finished" => pc[r] = "closing"
          /\ pc[r] # "filing"
    BY <2>1, AboutToFacts
  <2>3. e \in LogEntries /\ e.run = r /\ e.event = kind /\ journal \in Seq(Writes(LogEntries))
    BY <1>1, <2>2, EventType DEF Logs
  <2>4. /\ journal' \in Seq(Writes(LogEntries)) /\ Len(journal) <= Len(journal')
        /\ \A i \in 1 .. Len(journal) : journal'[i] = journal[i]
        /\ \A i \in 1 .. Len(journal') : i > Len(journal) =>
             journal'[i].entry = e /\ journal'[i].form \notin {"whole", "newline"}
    BY <2>1, <2>3, TornFacts
  <2>5. journal' \in Logs /\ Adds(journal, journal', r, kind)
    BY <1>1, <2>3, <2>4 DEF Adds, Grown, Logs
  <2>6. \A i \in DOMAIN journal' : i \notin DOMAIN journal => journal'[i].form # "whole"
    BY <1>1, <2>4, <2>5, DomainFacts
  <2>7. Active \ {r} \subseteq unsure'
    BY <1>4 DEF Kill
  <2> QED BY <1>2, <2>2, <2>5, <2>6, <2>7
<1> QED BY <1>3, <1>4
-----------------------------------------------------------------------------
(* A step keeps the types, and where each run stands.                       *)

LEMMA TypeKept ==
  ASSUME LogInv, NEW r \in Runs, Step(r) \/ Signal(r) \/ Kill(r)
  PROVE  Types'
<1>1. Types /\ TypeOK /\ TailInv /\ CallInv(r)
  BY TypeParts DEF LogInv
<1>2. Start(r) => Types'
  <2>1. ASSUME Start(r) PROVE pc' \in [Runs -> Stages]
    BY <1>1, <2>1 DEF Start, Types, Stages
  <2>2. ASSUME Start(r) PROVE held' \subseteq Runs /\ unsure' \subseteq Runs
    <3>1. unsure' \subseteq unsure \cup Active \cup {r} /\ held' \in {held, held \cup {r}}
      BY <1>1, <2>2, StartFacts
    <3> QED BY <1>1, <3>1 DEF Types, Active
  <2> QED BY <1>1, <2>1, <2>2, StartFacts DEF Start, Types, where
<1>3. Call(r) => Types'
  <2> SUFFICES ASSUME Call(r) PROVE Types'
    OBVIOUS
  <2>1. pc' \in [Runs -> Stages] /\ call' \in [Runs -> Calls \cup {None}]
    <3>1. PICK c \in Calls :
            /\ call' = [call EXCEPT ![r] = c]
            /\ pc' = [pc EXCEPT ![r] = IF c.checks THEN "check" ELSE "begin"]
      BY DEF Call
    <3>2. (IF c.checks THEN "check" ELSE "begin") \in Stages
      BY DEF Stages
    <3> QED BY <1>1, <3>1, <3>2 DEF Types
  <2>2. calls' \in [Runs -> 0 .. MaxCalls]
    BY <1>1, Bounds DEF Call, Types
  <2> QED BY <1>1, <2>1, <2>2, TypeQuiet DEF Call, logs, ghost, Types
<1>4. Check(r) => Types'
  <2> SUFFICES ASSUME Check(r) PROVE Types'
    OBVIOUS
  <2>1. /\ pc' \in [Runs -> Stages] /\ interrupted' \subseteq interrupted
        /\ wasInterrupted' \subseteq wasInterrupted \cup {r}
    BY <1>1, CheckedType DEF Check, Working, InCall
  <2>2. /\ call' \in [Runs -> Calls \cup {None}] /\ from' \in [Runs -> Nat]
        /\ at' \in [Runs -> Nat] /\ attempt' \in [Runs -> Nat]
        /\ given' \subseteq given /\ bad' \subseteq bad \cup {r}
    <3>1. CASE Forgotten(r)
      BY <1>1, <3>1, ForgottenType
    <3>2. CASE UNCHANGED <<where, given>>
      BY <1>1, <3>2 DEF where, Types
    <3> QED BY <3>1, <3>2 DEF Check
  <2>3. /\ UNCHANGED <<journal, audit, steps, held, next, faults, unsure, filed>>
        /\ calls' = calls /\ failed' = failed
    BY DEF Check, logs
  <2>4. calls' \in [Runs -> 0 .. MaxCalls] /\ failed' \subseteq failed \cup {r}
    BY <1>1, <2>3 DEF Types
  <2> QED BY <1>1, <2>1, <2>2, <2>3, <2>4, TypeQuiet
<1>5. Begin(r) => Types'
  <2> SUFFICES ASSUME Begin(r) PROVE Types'
    OBVIOUS
  <2>1. next' \in [Runs -> Nat] /\ next'[r] \in Int
    BY <1>1 DEF Begin, Types
  <2>2. r \in Active /\ Active \subseteq Runs
    BY DEF Begin, Active, Over
  <2>3. journal' \in Logs /\ faults' \in 0 .. MaxFaults /\ unsure' \subseteq unsure \cup Active
    BY <1>1, <2>1, <2>2, RecordFacts DEF Begin, Kinds
  <2>4. at' \in [Runs -> Nat] /\ pc' \in [Runs -> Stages]
    <3>1. CASE AllBegun(r)
      BY <1>1, <3>1 DEF Begin, Types, Stages
    <3>2. CASE ~AllBegun(r)
      BY <1>1, <3>2, SMTT(30) DEF Begin, Types
    <3> QED BY <3>1, <3>2
  <2>5. given' \subseteq Runs \X Int
    <3>1. from[r] \in Nat /\ Until(r) \in Nat
      BY <1>1, UntilFacts DEF Begin, CallInv, InCall
    <3>2. \A i \in Chunk(r) : next'[r] - Until(r) + i \in Int
      BY <2>1, <3>1 DEF Chunk
    <3>3. given \subseteq Runs \X Int
      BY <1>1 DEF Types
    <3> QED BY <3>2, <3>3 DEF Begin
  <2> QED BY <1>1, <2>1, <2>2, <2>3, <2>4, <2>5 DEF Begin, Types
<1>6. Answer(r) => Types'
  <2> SUFFICES ASSUME Answer(r) PROVE Types'
    OBVIOUS
  <2>1. pc' \in [Runs -> Stages] /\ bad' \subseteq bad \cup {r}
    BY <1>1 DEF Answer, Types, Stages
  <2> QED BY <1>1, <2>1, TypeQuiet DEF Answer, logs, ghost, Types
<1>7. Finish(r) => Types'
  <2> SUFFICES ASSUME Finish(r) PROVE Types'
    OBVIOUS
  <2>1. at[r] + 1 \in Nat /\ StepId(r, at[r] + 1) \in Int
    <3>1. pc[r] \in InCall
      BY DEF Finish, InCall
    <3>2. at[r] + 1 \in Nat
      BY <1>1 DEF Types
    <3> QED BY <1>1, <3>1, <3>2, StepIdType DEF CallInv
  <2>2. r \in Active /\ Active \subseteq Runs
    BY DEF Finish, Active, Over
  <2>3. journal' \in Logs /\ faults' \in 0 .. MaxFaults /\ unsure' \subseteq unsure \cup Active
    BY <1>1, <2>1, <2>2, RecordFacts DEF Finish, Kinds
  <2>4. at' \in [Runs -> Nat] /\ pc' \in [Runs -> Stages]
    BY <1>1, <2>1 DEF Finish, Types, Stages
  <2>5. steps' \in [Runs -> Seq(Int)] /\ \A q \in Runs : Len(steps'[q]) <= KeptSteps
    <3>1. /\ Kept(steps[r], StepId(r, at[r] + 1)) \in Seq(Int)
          /\ Len(Kept(steps[r], StepId(r, at[r] + 1))) <= KeptSteps
      BY <1>1, <2>1, KeptFacts DEF Types
    <3> QED BY <1>1, <3>1 DEF Finish, Types
  <2> QED BY <1>1, <2>1, <2>2, <2>3, <2>4, <2>5 DEF Finish, Types
<1>8. Retry(r) => Types'
  <2> SUFFICES ASSUME Retry(r) PROVE Types'
    OBVIOUS
  <2>1. /\ pc' \in [Runs -> Stages] /\ bad' \subseteq bad \cup {r}
        /\ at' \in [Runs -> Nat] /\ attempt' \in [Runs -> Nat]
    BY <1>1 DEF Retry, Types, Stages
  <2> QED BY <1>1, <2>1, TypeQuiet DEF Retry, logs, ghost, Types
<1>9. NextChunk(r) => Types'
  <2> SUFFICES ASSUME NextChunk(r) PROVE Types'
    OBVIOUS
  <2>1. Until(r) \in Nat
    BY <1>1, UntilFacts DEF NextChunk, CallInv, InCall
  <2>2. pc' \in [Runs -> Stages] /\ bad' \subseteq bad \cup {r} /\ from' \in [Runs -> Nat]
    BY <1>1, <2>1 DEF NextChunk, Types, Stages
  <2> QED BY <1>1, <2>2, TypeQuiet DEF NextChunk, logs, ghost, Types
<1>10. Return(r) => Types'
  <2> SUFFICES ASSUME Return(r) PROVE Types'
    OBVIOUS
  <2>1. /\ pc' \in [Runs -> Stages] /\ interrupted' \subseteq interrupted
        /\ wasInterrupted' \subseteq wasInterrupted \cup {r}
    <3>1. Checked(r, "script") /\ "script" \in Working
      BY DEF Return, Working
    <3> QED BY <1>1, <3>1, CheckedType
  <2>2. /\ call' \in [Runs -> Calls \cup {None}] /\ from' \in [Runs -> Nat]
        /\ at' \in [Runs -> Nat] /\ attempt' \in [Runs -> Nat]
        /\ given' \subseteq given /\ bad' \subseteq bad \cup {r}
    BY <1>1, ForgottenType DEF Return
  <2>3. /\ UNCHANGED <<journal, audit, steps, held, next, faults, unsure, filed>>
        /\ calls' = calls /\ failed' = failed
    BY DEF Return, logs
  <2>4. calls' \in [Runs -> 0 .. MaxCalls] /\ failed' \subseteq failed \cup {r}
    BY <1>1, <2>3 DEF Types
  <2> QED BY <1>1, <2>1, <2>2, <2>3, <2>4, TypeQuiet
<1>11. EndScript(r) => Types'
  <2> SUFFICES ASSUME EndScript(r) PROVE Types'
    OBVIOUS
  <2>1. /\ pc' \in [Runs -> Stages] /\ interrupted' \subseteq interrupted
        /\ wasInterrupted' \subseteq wasInterrupted \cup {r} /\ failed' \subseteq failed \cup {r}
    BY <1>1 DEF EndScript, Types, Stages
  <2> QED BY <1>1, <2>1, TypeQuiet DEF EndScript, logs, where, ghost, Types
<1>12. FinishRun(r) => Types'
  <2> SUFFICES ASSUME FinishRun(r) PROVE Types'
    OBVIOUS
  <2>1. r \in Active /\ Active \subseteq Runs
    BY DEF FinishRun, Active, Over
  <2>2. journal' \in Logs /\ faults' \in 0 .. MaxFaults /\ unsure' \subseteq unsure \cup Active
    BY <1>1, <2>1, RecordFacts DEF FinishRun, Kinds
  <2>3. pc' \in [Runs -> Stages]
    BY <1>1 DEF FinishRun, Types, Stages
  <2> QED BY <1>1, <2>1, <2>2, <2>3 DEF FinishRun, where, Types
<1>13. File(r) => Types'
  <2> SUFFICES ASSUME File(r) PROVE Types'
    OBVIOUS
  <2>1. /\ audit' \in Seq(Writes(EntriesOf)) /\ faults' \in 0 .. MaxFaults
        /\ filed' \subseteq filed \cup {r}
    BY <1>1, FileFacts DEF Files
  <2>2. pc' \in [Runs -> Stages]
    BY <1>1 DEF File, Types, Stages, Over
  <2> QED BY <1>1, <2>1, <2>2 DEF File, where, Types
<1>14. Signal(r) => Types'
  BY <1>1, FaultType DEF Signal, logs, where, ghost, Types
<1>15. Kill(r) => Types'
  <2> SUFFICES ASSUME Kill(r) PROVE Types'
    OBVIOUS
  <2>1. journal' \in Logs /\ audit' \in Seq(Writes(EntriesOf))
    BY <1>1, KillFacts DEF Files
  <2>2. faults' \in 0 .. MaxFaults /\ unsure' \subseteq Runs
    BY <1>1, FaultType DEF Kill, Active, Types
  <2>3. /\ call' \in [Runs -> Calls \cup {None}] /\ from' \in [Runs -> Nat]
        /\ at' \in [Runs -> Nat] /\ attempt' \in [Runs -> Nat]
        /\ given' \subseteq given /\ bad' \subseteq bad \cup {r}
    BY <1>1, ForgottenType DEF Kill
  <2>4. /\ pc' \in [Runs -> Stages] /\ next' \in [Runs -> Nat]
        /\ interrupted' \subseteq interrupted
    BY <1>1 DEF Kill, Types, Stages, Over
  <2>5. steps' \in [Runs -> Seq(Int)] /\ \A q \in Runs : Len(steps'[q]) <= KeptSteps
    <3>1. <<>> \in Seq(Int) /\ Len(<<>>) <= KeptSteps
      BY Bounds
    <3> QED BY <1>1, <3>1 DEF Kill, Types
  <2>6. UNCHANGED <<held, wasInterrupted, calls, failed, filed>>
    BY DEF Kill
  <2> QED BY <1>1, <2>1, <2>2, <2>3, <2>4, <2>5, <2>6 DEF Types
<1> QED BY <1>2, <1>3, <1>4, <1>5, <1>6, <1>7, <1>8, <1>9, <1>10, <1>11, <1>12, <1>13,
           <1>14, <1>15 DEF Step

LEMMA CallFrame ==
  ASSUME NEW q, pc'[q] = pc[q], from'[q] = from[q], at'[q] = at[q], call'[q] = call[q],
         next'[q] = next[q], steps'[q] = steps[q], q \in held' <=> q \in held, CallInv(q)
  PROVE  CallInv(q)'
BY DEF CallInv, Until

\* A run that is in no call, and not to begin.
LEMMA CallOver ==
  ASSUME NEW q, pc'[q] \notin InCall \cup {"off"}, from'[q] = 0, at'[q] = 0
  PROVE  CallInv(q)'
BY DEF CallInv, InCall

LEMMA CallKept ==
  ASSUME LogInv, NEW r \in Runs, Step(r) \/ Signal(r) \/ Kill(r), NEW q \in Runs
  PROVE  CallInv(q)'
<1>1. Types /\ TypeOK /\ CallInv(r) /\ CallInv(q)
  BY TypeParts DEF LogInv
<1>2. /\ pc \in [Runs -> Stages] /\ from \in [Runs -> Nat] /\ at \in [Runs -> Nat]
      /\ next \in [Runs -> Nat] /\ call \in [Runs -> Calls \cup {None}]
      /\ steps \in [Runs -> Seq(Int)]
  BY <1>1 DEF Types
<1>3. ASSUME q # r PROVE CallInv(q)'
  <2>1. /\ pc'[q] = pc[q] /\ from'[q] = from[q] /\ at'[q] = at[q] /\ call'[q] = call[q]
        /\ next'[q] = next[q] /\ steps'[q] = steps[q]
    <3>1. CASE Start(r) \/ Call(r) \/ Begin(r) \/ Answer(r) \/ Finish(r)
      BY <1>2, <1>3, <3>1 DEF Start, Call, Begin, Answer, Finish, where
    <3>2. CASE Retry(r) \/ NextChunk(r) \/ EndScript(r) \/ FinishRun(r) \/ File(r) \/ Signal(r)
      BY <1>2, <1>3, <3>2 DEF Retry, NextChunk, EndScript, FinishRun, File, Signal, where
    <3>3. CASE Check(r) \/ Return(r) \/ Kill(r)
      BY <1>2, <1>3, <3>3 DEF Check, Return, Kill, Checked, Forgotten, where
    <3> QED BY <3>1, <3>2, <3>3 DEF Step
  <2>2. q \in held' <=> q \in held
    <3>1. CASE Start(r)
      BY <1>3, <3>1 DEF Start
    <3>2. CASE ~Start(r)
      BY <3>2 DEF Step, Call, Check, Begin, Answer, Finish, Retry, NextChunk, Return, EndScript,
                  FinishRun, File, Signal, Kill
    <3> QED BY <3>1, <3>2
  <2> QED BY <1>1, <2>1, <2>2, CallFrame
<1>4. ASSUME Start(r) PROVE CallInv(r)'
  <2>1. pc'[r] = "script" /\ from'[r] = from[r] /\ at'[r] = at[r] /\ pc[r] = "off"
    BY <1>2, <1>4 DEF Start, where
  <2> QED BY <1>1, <2>1, CallOver DEF CallInv, InCall
<1>5. ASSUME Call(r) PROVE CallInv(r)'
  <2>1. PICK c \in Calls :
          /\ call' = [call EXCEPT ![r] = c]
          /\ pc' = [pc EXCEPT ![r] = IF c.checks THEN "check" ELSE "begin"]
    BY <1>5 DEF Call
  <2>2. /\ pc[r] = "script" /\ from' = from /\ at' = at /\ next' = next /\ held' = held
    BY <1>5 DEF Call
  <2>3. from[r] = 0 /\ at[r] = 0
    BY <1>1, <2>2 DEF CallInv, InCall
  <2>4. call'[r] = c /\ pc'[r] \in {"check", "begin"}
    BY <1>2, <2>1
  <2>5. Len(c.hosts) \in Nat \ {0} /\ c.chunk \in Nat \ {0}
    BY LogAssumption
  <2>6. Until(r)' \in Nat /\ 0 < Until(r)'
    BY <2>2, <2>3, <2>4, <2>5 DEF Until
  <2>7. next[r] \in Nat
    BY <1>2
  <2> QED BY <2>2, <2>3, <2>4, <2>5, <2>6, <2>7 DEF CallInv, InCall
<1>6. ASSUME Check(r) \/ Return(r), pc'[r] = "script" PROVE CallInv(r)'
  <2>1. Forgotten(r)
    BY <1>6 DEF Check, Return
  <2>2. from'[r] = 0 /\ at'[r] = 0
    BY <1>2, <2>1 DEF Forgotten
  <2> QED BY <1>6, <2>2, CallOver DEF InCall
<1>7. ASSUME Check(r), pc'[r] # "script" PROVE CallInv(r)'
  <2>1. /\ pc[r] = "check" /\ pc'[r] = "begin" /\ from' = from /\ at' = at /\ call' = call
        /\ next' = next /\ held' = held
    BY <1>2, <1>7 DEF Check, Checked, where
  <2>2. from[r] \in Nat /\ from[r] < Until(r) /\ at[r] = from[r] /\ next[r] \in Nat
    BY <1>1, <1>2, <2>1, UntilFacts DEF CallInv, InCall
  <2>3. Until(r)' = Until(r)
    BY <2>1 DEF Until
  <2> QED BY <1>1, <2>1, <2>2, <2>3 DEF CallInv, InCall
<1>8. ASSUME Begin(r) PROVE CallInv(r)'
  <2>1. pc[r] = "begin" /\ from' = from /\ call' = call /\ held' = held
    BY <1>8 DEF Begin
  <2>2. Until(r)' = Until(r)
    BY <2>1 DEF Until
  <2>3. call[r] \in Calls /\ from[r] < Len(call[r].hosts)
    BY <1>1, <2>1 DEF CallInv, InCall
  <2>4. CASE AllBegun(r)
    <3>1. pc'[r] = "commands" /\ at'[r] = from[r]
      BY <1>2, <1>8, <2>4 DEF Begin
    <3> QED BY <2>1, <2>3, <3>1 DEF CallInv, InCall
  <2>5. CASE ~AllBegun(r)
    <3>1. pc' = pc /\ at'[r] = at[r] + 1
      BY <1>2, <1>8, <2>5 DEF Begin
    <3>2. at[r] \in Nat /\ from[r] \in Nat /\ Until(r) \in Nat /\ next[r] \in Nat
      BY <1>1, <1>2, <2>3, UntilFacts
    <3>3. r \in held => next'[r] = next[r] + 1
      BY <1>2, <1>8 DEF Begin
    <3>4. /\ from[r] <= at[r] /\ at[r] < Until(r) /\ at[r] + 1 # Until(r)
          /\ r \in held => at[r] - from[r] <= next[r]
      BY <1>1, <2>1, <2>5 DEF CallInv, AllBegun
    <3>5. /\ from[r] <= at[r] + 1 /\ at[r] + 1 < Until(r)
          /\ r \in held' => at[r] + 1 - from[r] <= next'[r]
      BY <2>1, <3>2, <3>3, <3>4
    <3>6. /\ pc'[r] = "begin" /\ from'[r] <= at'[r] /\ at'[r] < Until(r)'
          /\ r \in held' => at'[r] - from'[r] <= next'[r]
      BY <2>1, <2>2, <3>1, <3>2, <3>5
    <3> QED BY <2>1, <2>3, <3>6 DEF CallInv, InCall
  <2> QED BY <2>4, <2>5
<1>9. ASSUME Answer(r) PROVE CallInv(r)'
  <2>1. /\ pc[r] = "commands" /\ pc'[r] = "finish" /\ from' = from /\ at' = at /\ call' = call
    BY <1>2, <1>9 DEF Answer
  <2>2. Until(r)' = Until(r) /\ at[r] < Until(r)
    BY <1>1, <2>1, UntilFacts DEF Until, CallInv, InCall
  <2> QED BY <1>1, <2>1, <2>2 DEF CallInv, InCall
<1>10. ASSUME Finish(r) PROVE CallInv(r)'
  <2>1. /\ pc[r] = "finish" /\ from' = from /\ call' = call /\ at'[r] = at[r] + 1
        /\ pc'[r] = IF at[r] + 1 = Until(r) THEN "decide" ELSE "finish"
    BY <1>2, <1>10 DEF Finish
  <2>2. call[r] \in Calls /\ from[r] < Len(call[r].hosts) /\ at[r] < Until(r)
    BY <1>1, <2>1 DEF CallInv, InCall
  <2>3. Until(r)' = Until(r) /\ Until(r) \in Nat /\ at[r] \in Nat
    BY <1>1, <1>2, <2>1, <2>2, UntilFacts DEF Until
  <2> QED BY <2>1, <2>2, <2>3 DEF CallInv, InCall
<1>11. ASSUME Retry(r) PROVE CallInv(r)'
  <2>1. /\ pc[r] = "decide" /\ pc'[r] = "check" /\ from' = from /\ at'[r] = from[r] /\ call' = call
    BY <1>2, <1>11 DEF Retry
  <2> QED BY <1>1, <2>1 DEF CallInv, InCall
<1>12. ASSUME NextChunk(r) PROVE CallInv(r)'
  <2>1. /\ pc[r] = "decide" /\ pc'[r] = "check" /\ from'[r] = Until(r) /\ at' = at /\ call' = call
        /\ Until(r) < Len(call[r].hosts)
    BY <1>2, <1>12 DEF NextChunk
  <2> QED BY <1>1, <2>1 DEF CallInv, InCall
<1>13. ASSUME EndScript(r) \/ FinishRun(r) \/ File(r) PROVE CallInv(r)'
  <2>1. /\ pc[r] \in {"script", "closing", "filing"} /\ pc'[r] \in {"closing", "filing", "ended"}
        /\ from' = from /\ at' = at
    BY <1>2, <1>13 DEF EndScript, FinishRun, File, where
  <2>2. from[r] = 0 /\ at[r] = 0
    BY <1>1, <2>1 DEF CallInv, InCall
  <2> QED BY <2>1, <2>2, CallOver DEF InCall
<1>14. ASSUME Signal(r) PROVE CallInv(r)'
  BY <1>1, <1>14, CallFrame DEF Signal, where
<1>15. ASSUME Kill(r) PROVE CallInv(r)'
  <2>1. pc'[r] \in {"gone", "dead"} /\ from'[r] = 0 /\ at'[r] = 0
    BY <1>2, <1>15 DEF Kill, Forgotten
  <2> QED BY <2>1, CallOver DEF InCall
<1>16. Return(r) => pc'[r] = "script"
  BY <1>2 DEF Return, Checked
<1> QED BY <1>3, <1>4, <1>5, <1>6, <1>7, <1>8, <1>9, <1>10, <1>11, <1>12, <1>13, <1>14,
           <1>15, <1>16 DEF Step

LEMMA GivenKept ==
  ASSUME LogInv, NEW r \in Runs, Step(r) \/ Signal(r) \/ Kill(r)
  PROVE  GivenInv'
<1>1. Types /\ TypeOK /\ CallInv(r) /\ GivenInv
  BY TypeParts DEF LogInv
<1>2. next \in [Runs -> Nat] /\ given \subseteq Runs \X Int /\ at[r] \in Nat
  BY <1>1 DEF Types
<1>9. \A x \in given : x[1] \in Runs
  BY <1>2
<1>10. \A q \in Runs : pc[q] # "off" => pc'[q] # "off"
  <2>1. pc \in [Runs -> Stages]
    BY <1>1 DEF Types
  <2>2. CASE Start(r) \/ Begin(r) \/ Answer(r) \/ Finish(r) \/ Retry(r) \/ NextChunk(r)
    BY <2>1, <2>2 DEF Start, Begin, Answer, Finish, Retry, NextChunk
  <2>3. CASE Call(r) \/ Check(r) \/ Return(r)
    BY <2>1, <2>3 DEF Call, Check, Return, Checked
  <2>4. CASE EndScript(r) \/ FinishRun(r) \/ File(r) \/ Signal(r) \/ Kill(r)
    BY <2>1, <2>4 DEF EndScript, FinishRun, File, Signal, Kill
  <2> QED BY <2>2, <2>3, <2>4 DEF Step
<1>3. CASE Start(r)
  <2>1. given' = given /\ next' = next /\ held' \subseteq held \cup {r} /\ pc[r] = "off"
    BY <1>3 DEF Start
  <2>2. \A x \in given : x[1] # r
    BY <1>1, <2>1 DEF GivenInv
  <2> QED BY <1>1, <1>9, <1>10, <2>1, <2>2 DEF GivenInv
<1>4. CASE Begin(r)
  <2>1. /\ pc[r] = "begin" /\ held' = held
        /\ next' = [next EXCEPT ![r] = IF r \in held THEN @ + 1 ELSE @]
        /\ \/ given' = given
           \/ /\ AllBegun(r)
              /\ given' = given \cup {<<r, next'[r] - Until(r) + i>> : i \in Chunk(r)}
    BY <1>4 DEF Begin
  <2>2. \A x \in given : x[1] \in held => x[2] \in 1 .. next'[x[1]]
    BY <1>1, <1>2, <2>1 DEF GivenInv
  <2>3. ASSUME AllBegun(r), NEW i \in Chunk(r), r \in held
        PROVE  next'[r] - Until(r) + i \in 1 .. next'[r]
    <3>1. from[r] \in Nat /\ Until(r) \in Nat /\ next[r] \in Nat
      BY <1>1, <1>2, <2>1, UntilFacts DEF CallInv, InCall
    <3>2. i \in Nat /\ from[r] + 1 <= i /\ i <= Until(r)
      BY <3>1 DEF Chunk
    <3>3. next'[r] = next[r] + 1 /\ at[r] + 1 = Until(r) /\ at[r] - from[r] <= next[r]
      BY <1>1, <1>2, <2>1, <2>3 DEF CallInv, AllBegun
    <3> QED BY <1>2, <3>1, <3>2, <3>3
  <2> QED BY <1>1, <1>9, <1>10, <2>1, <2>2, <2>3 DEF GivenInv
<1>5. CASE Call(r) \/ Answer(r) \/ Finish(r) \/ Retry(r) \/ NextChunk(r)
  BY <1>1, <1>5, <1>9, <1>10 DEF GivenInv, Call, Answer, Finish, Retry, NextChunk, ghost
<1>6. CASE EndScript(r) \/ FinishRun(r) \/ File(r) \/ Signal(r)
  BY <1>1, <1>6, <1>9, <1>10 DEF GivenInv, EndScript, FinishRun, File, Signal, ghost
<1>7. CASE Check(r) \/ Return(r)
  <2>1. next' = next /\ held' = held /\ given' \subseteq given
    BY <1>7 DEF Check, Return, Forgotten
  <2> QED BY <1>1, <1>9, <1>10, <2>1 DEF GivenInv
<1>8. CASE Kill(r)
  <2>1. held' = held /\ given' = {x \in given : x[1] # r} /\ next' = [next EXCEPT ![r] = 0]
    BY <1>8 DEF Kill, Forgotten
  <2> QED BY <1>1, <1>2, <1>9, <1>10, <2>1 DEF GivenInv
<1> QED BY <1>3, <1>4, <1>5, <1>6, <1>7, <1>8 DEF Step
-----------------------------------------------------------------------------
(* A step keeps what the logs say.                                          *)

LogsInv ==
  /\ TailInv /\ AuditInv
  /\ \A r \in Runs : EndInv(r)
  /\ \A r \in held \ unsure : LineInv(r)

LEMMA AuditType ==
  ASSUME Types, NEW i \in DOMAIN audit
  PROVE  audit[i].entry.run \in Runs /\ audit[i].entry.steps \in Seq(Int)
<1>1. audit \in Seq(Writes(EntriesOf))
  BY DEF Types
<1>2. audit[i] \in Writes(EntriesOf)
  BY <1>1
<1>3. audit[i].entry \in EntriesOf
  BY <1>2 DEF Writes
<1> QED BY <1>3 DEF EntriesOf

\* A step of a run in its script or in a call that writes nothing.
LEMMA QuietKept ==
  ASSUME Types, LogsInv, NEW r \in Runs, pc[r] \in Working,
         NEW x \in Working \cup {"closing"}, pc' = [pc EXCEPT ![r] = x],
         UNCHANGED <<journal, audit, steps, held, next, unsure>>,
         failed' \in {failed, failed \cup {r}},
         wasInterrupted' \subseteq wasInterrupted \cup {r},
         x = "closing" => (r \in wasInterrupted' => r \in failed')
  PROVE  LogsInv'
<1>1. /\ pc \in [Runs -> Stages] /\ held \subseteq Runs
  BY DEF Types
<1>2. pc'[r] = x /\ \A q \in Runs : q # r => pc'[q] = pc[q]
  BY <1>1
<1>3. /\ x \notin {"off", "filing", "ended", "gone", "dead"}
      /\ pc[r] \notin {"off", "filing", "ended", "gone", "dead", "closing"}
  BY DEF Working, InCall
<1>4. TailInv'
  <2>1. Active' = Active
    BY <1>2, <1>3 DEF Active, Over
  <2> QED BY <2>1 DEF LogsInv, TailInv
<1>5. AuditInv'
  <2> SUFFICES ASSUME NEW i \in DOMAIN audit
               PROVE  /\ pc'[audit[i].entry.run] \in {"ended", "gone"}
                      /\ audit[i].entry.outcome => audit[i].entry.run \notin failed'
                      /\ audit[i].entry.run \in held \ unsure =>
                           LastDone(journal, audit[i].entry.run, audit[i].entry.steps)
    BY DEF AuditInv
  <2>1. pc[audit[i].entry.run] \in {"ended", "gone"}
    BY DEF LogsInv, AuditInv
  <2>2. audit[i].entry.run \in Runs
    BY AuditType
  <2>3. audit[i].entry.run # r
    BY <1>3, <2>1
  <2> QED BY <1>2, <2>1, <2>2, <2>3 DEF LogsInv, AuditInv
<1>6. ASSUME NEW q \in Runs PROVE EndInv(q)'
  <2>1. CASE q = r
    <3>1. Bounded(journal, r, x)
      BY <1>3 DEF LogsInv, EndInv, Bounded, Closed
    <3> QED BY <1>2, <1>3, <2>1, <3>1 DEF EndInv, Closed
  <2>2. CASE q # r
    BY <1>2, <2>2 DEF LogsInv, EndInv
  <2> QED BY <2>1, <2>2
<1>7. ASSUME NEW q \in held \ unsure PROVE LineInv(q)'
  <2>1. Tells(journal, q, pc[q], next[q], steps[q]) /\ q \in Runs
    BY <1>1 DEF LogsInv, LineInv
  <2>2. CASE q = r
    <3>1. Tells(journal, q, x, next[q], steps[q])
      BY <1>3, <2>1, <2>2 DEF Tells, Marked
    <3> QED BY <1>2, <2>2, <3>1 DEF LineInv
  <2>3. CASE q # r
    BY <1>2, <2>1, <2>3 DEF LineInv
  <2> QED BY <2>2, <2>3
<1> QED BY <1>4, <1>5, <1>6, <1>7 DEF LogsInv

\* A step that adds to the journal an event of a run that has not filed its
\* entry: what the logs say of the others stays true.
LEMMA OthersKept ==
  ASSUME Types, LogsInv, NEW r \in Runs, pc[r] \notin {"ended", "gone"},
         NEW x \in Stages \ {"off"}, pc' = [pc EXCEPT ![r] = x],
         NEW kind \in Kinds, journal' \in Logs, Adds(journal, journal', r, kind),
         kind = "run_finished" => x \in Closed,
         pc[r] \in Closed => x \in Closed,
         x \in Closed => pc[r] \in Closed \cup {"closing"},
         x # "closing",
         \A q \in Runs : q # r => next'[q] = next[q] /\ steps'[q] = steps[q],
         held' \subseteq held \cup {r}, unsure \subseteq unsure', UNCHANGED <<failed, wasInterrupted>>
  PROVE  /\ \A q \in Runs : EndInv(q)'
         /\ \A q \in held' \ unsure' : q # r => LineInv(q)'
         /\ audit' = audit => AuditInv'
<1>1. pc \in [Runs -> Stages] /\ held \subseteq Runs /\ journal \in Logs
  BY DEF Types
<1>2. pc'[r] = x /\ \A q \in Runs : q # r => pc'[q] = pc[q]
  BY <1>1
<1>3. Grown(journal, journal')
  BY DEF Adds
<1>4. ASSUME NEW q \in Runs PROVE EndInv(q)'
  <2>1. CASE q = r
    <3>1. ASSUME NEW i \in DOMAIN journal', Of(journal', i, r), journal'[i].entry.event = "run_finished"
          PROVE  x \in Closed
      <4>1. CASE i \in DOMAIN journal
        <5>1. Of(journal, i, r) /\ journal[i].entry.event = "run_finished"
          BY <1>1, <1>3, <3>1, <4>1, PrefixFacts
        <5> QED BY <4>1, <5>1 DEF LogsInv, EndInv, Bounded
      <4>2. CASE i \notin DOMAIN journal
        <5>1. i \in 1 .. Len(journal') /\ i > Len(journal)
          BY <1>1, <4>2, DomainFacts
        <5>2. journal'[i].entry.event = kind
          BY <3>1, <5>1 DEF Adds, Of
        <5> QED BY <3>1, <5>2
      <4> QED BY <4>1, <4>2
    <3>2. Bounded(journal', r, x)
      BY <3>1 DEF Bounded
    <3>3. x \in {"closing"} \cup Closed /\ r \in wasInterrupted => r \in failed
      BY DEF LogsInv, EndInv
    <3> QED BY <1>2, <2>1, <3>2, <3>3 DEF EndInv
  <2>2. CASE q # r
    <3>1. Bounded(journal', q, pc[q])
      BY <1>1, <2>2, OthersBounded DEF LogsInv, EndInv
    <3> QED BY <1>2, <2>2, <3>1 DEF LogsInv, EndInv
  <2> QED BY <2>1, <2>2
<1>5. ASSUME NEW q \in held' \ unsure', q # r PROVE LineInv(q)'
  <2>1. q \in Runs /\ q \in held \ unsure
    BY <1>1, <1>5
  <2>2. Tells(journal, q, pc[q], next[q], steps[q])
    BY <2>1 DEF LogsInv, LineInv
  <2>3. Tells(journal', q, pc[q], next[q], steps[q])
    BY <1>1, <1>5, <2>1, <2>2, OthersTell
  <2> QED BY <1>2, <1>5, <2>1, <2>3 DEF LineInv
<1>6. ASSUME audit' = audit PROVE AuditInv'
  <2> SUFFICES ASSUME NEW i \in DOMAIN audit
               PROVE  /\ pc'[audit[i].entry.run] \in {"ended", "gone"}
                      /\ audit[i].entry.outcome => audit[i].entry.run \notin failed
                      /\ audit[i].entry.run \in held' \ unsure' =>
                           LastDone(journal', audit[i].entry.run, audit[i].entry.steps)
    BY <1>6 DEF AuditInv
  <2> DEFINE q == audit[i].entry.run
  <2>1. /\ pc[q] \in {"ended", "gone"} /\ (audit[i].entry.outcome => q \notin failed)
        /\ q \in held \ unsure => LastDone(journal, q, audit[i].entry.steps)
    BY DEF LogsInv, AuditInv
  <2>2. q \in Runs
    BY AuditType
  <2> HIDE DEF q
  <2>3. q # r
    BY <2>1
  <2>4. Done(journal', q) = Done(journal, q)
    BY <1>1, <2>2, <2>3, DoneSame
  <2>5. q \in held \ unsure => LastDone(journal', q, audit[i].entry.steps)
    BY <1>1, <1>3, <2>1, <2>2, <2>4, LastDoneSame
  <2> QED BY <1>2, <2>1, <2>2, <2>3, <2>5 DEF q
<1> QED BY <1>4, <1>5, <1>6

LEMMA StartKept ==
  ASSUME Types, LogsInv, NEW r \in Runs, CallInv(r), Start(r)
  PROVE  LogsInv'
<1>1. /\ pc \in [Runs -> Stages] /\ journal \in Logs /\ pc[r] = "off"
  BY DEF Types, Start
<1>2. /\ pc' = [pc EXCEPT ![r] = "script"] /\ pc'[r] = "script"
      /\ UNCHANGED <<audit, steps, next, failed, wasInterrupted>>
  BY <1>1 DEF Start
<1>3. /\ journal' \in Logs /\ Adds(journal, journal', r, "run_started")
      /\ unsure \subseteq unsure' /\ held' \subseteq held \cup {r}
      /\ Closes(journal') \/ Active \cup {r} \subseteq unsure'
  BY StartFacts
<1>4. /\ \A q \in Runs : EndInv(q)'
      /\ \A q \in held' \ unsure' : q # r => LineInv(q)'
      /\ AuditInv'
  <2>1. "script" \in Stages \ {"off"} /\ "script" \notin Closed /\ "off" \notin Closed
        /\ "run_started" \in Kinds /\ "run_started" # "run_finished"
    BY DEF Stages, Closed, Kinds
  <2> QED BY <1>1, <1>2, <1>3, <2>1, OthersKept
<1>5. TailInv'
  <2>1. Active' \subseteq Active \cup {r}
    BY <1>1, <1>2 DEF Active
  <2> QED BY <1>3, <2>1 DEF TailInv
<1>6. ASSUME r \in held' \ unsure' PROVE LineInv(r)'
  <2>1. r \notin held /\ next[r] = 0 /\ steps[r] = <<>>
    BY <1>1 DEF CallInv
  <2>2. /\ Has(journal', Event(r, "run_started", 0))
        /\ \A i \in DOMAIN journal' : i \notin DOMAIN journal =>
             journal'[i].form = "newline" \/ Solid(journal', i)
    BY <1>6, <2>1, StartFacts
  <2>3. \A i \in DOMAIN journal : ~Of(journal, i, r)
    BY <1>1 DEF LogsInv, EndInv, Bounded
  <2>4. Marked(journal', r, "script")
    BY <1>1, <1>3, <2>2, <2>3, PrefixFacts DEF Marked, Adds, Of
  <2>5. Done(journal', r) = {}
    <3>1. Done(journal', r) = Done(journal, r)
      BY <1>1, <1>3, DoneSame
    <3> QED BY <2>3, <3>1 DEF Done
  <2>6. LastDone(journal', r, <<>>)
    <3>1. [k \in DOMAIN <<>> |-> 0] \in [DOMAIN <<>> -> Done(journal', r)]
      OBVIOUS
    <3>2. DOMAIN <<>> = {}
      OBVIOUS
    <3> QED BY <2>5, <3>1, <3>2 DEF LastDone
  <2>7. Tells(journal', r, "script", 0, <<>>)
    BY <2>2, <2>4, <2>6 DEF Tells
  <2> QED BY <1>2, <2>1, <2>7 DEF LineInv
<1> QED BY <1>4, <1>5, <1>6 DEF LogsInv

\* An event written by a run that is under way.
LEMMA RecordKept ==
  ASSUME Types, TypeOK, LogsInv, NEW r \in Runs,
         pc[r] \in Working \cup {"closing"}, NEW x \in Working \cup {"filing"},
         pc' = [pc EXCEPT ![r] = x], NEW kind \in Kinds, NEW id \in Int,
         Record(r, Event(r, kind, id)),
         kind = "run_finished" <=> x = "filing", x = "filing" <=> pc[r] = "closing",
         \A q \in Runs : q # r => next'[q] = next[q] /\ steps'[q] = steps[q],
         UNCHANGED <<audit, held, failed, wasInterrupted>>,
         r \in held \ unsure' => Tells(journal', r, x, next'[r], steps'[r])
  PROVE  LogsInv'
<1>1. /\ pc \in [Runs -> Stages] /\ x \in Stages \ {"off"} /\ x # "closing"
      /\ pc[r] \notin {"ended", "gone"} \cup Closed
  BY DEF Types, Stages, Working, InCall, Over, Closed
<1>2. r \in Active /\ Active' = Active
  <2>1. x \notin Over \cup {"off"} /\ pc[r] \notin Over \cup {"off"}
    BY DEF Working, InCall, Over
  <2> QED BY <1>1, <2>1 DEF Active
<1>3. /\ journal' \in Logs /\ Adds(journal, journal', r, kind) /\ unsure \subseteq unsure'
      /\ Closes(journal') \/ Active \subseteq unsure'
  BY <1>2, RecordFacts DEF LogsInv
<1>4. /\ \A q \in Runs : EndInv(q)'
      /\ \A q \in held' \ unsure' : q # r => LineInv(q)'
      /\ AuditInv'
  <2>1. /\ kind = "run_finished" => x \in Closed
        /\ pc[r] \in Closed => x \in Closed
        /\ x \in Closed => pc[r] \in Closed \cup {"closing"}
    BY <1>1 DEF Closed, Working, InCall
  <2> QED BY <1>1, <1>3, <2>1, OthersKept
<1>5. TailInv'
  BY <1>2, <1>3 DEF TailInv
<1>6. ASSUME r \in held' \ unsure' PROVE LineInv(r)'
  BY <1>1, <1>6 DEF LineInv
<1> QED BY <1>4, <1>5, <1>6 DEF LogsInv

\* The entry a run files has the last steps that the journal has as finished.
LEMMA FiledKept ==
  ASSUME Types, LogsInv, NEW r \in Runs, pc[r] = "filing", NEW x \in {"ended", "gone"},
         pc' = [pc EXCEPT ![r] = x], Files(r), UNCHANGED <<journal, held, unsure, failed>>
  PROVE  AuditInv'
<1>1. pc \in [Runs -> Stages] /\ audit \in Seq(Writes(EntriesOf)) /\ Len(audit) \in Nat
      /\ DOMAIN audit = 1 .. Len(audit)
  BY DEF Types
<1>2. DOMAIN audit' = 1 .. Len(audit') /\ Len(audit') \in Nat
  BY DEF Files
<1> SUFFICES ASSUME NEW i \in DOMAIN audit'
             PROVE  /\ pc'[audit'[i].entry.run] \in {"ended", "gone"}
                    /\ audit'[i].entry.outcome => audit'[i].entry.run \notin failed
                    /\ audit'[i].entry.run \in held \ unsure =>
                         LastDone(journal, audit'[i].entry.run, audit'[i].entry.steps)
  BY DEF AuditInv
<1>3. CASE i \in DOMAIN audit
  <2>1. audit'[i] = audit[i]
    BY <1>1, <1>3 DEF Files
  <2>2. audit[i].entry.run \in Runs /\ pc[audit[i].entry.run] \in {"ended", "gone"}
    BY <1>3, AuditType DEF LogsInv, AuditInv
  <2>3. pc'[audit[i].entry.run] \in {"ended", "gone"}
    BY <1>1, <2>2
  <2> QED BY <1>3, <2>1, <2>3 DEF LogsInv, AuditInv
<1>4. CASE i \notin DOMAIN audit
  <2>1. audit'[i].entry = Entry(r)
    BY <1>1, <1>2, <1>4 DEF Files
  <2>2. /\ audit'[i].entry.run = r /\ audit'[i].entry.steps = steps[r]
        /\ audit'[i].entry.outcome <=> r \notin failed
    BY <2>1, EntryType
  <2>3. r \in held \ unsure => LastDone(journal, r, steps[r])
    BY DEF LogsInv, LineInv, Tells
  <2>4. pc'[r] = x
    BY <1>1
  <2> QED BY <2>2, <2>3, <2>4
<1> QED BY <1>3, <1>4

LEMMA FileKept ==
  ASSUME Types, LogsInv, NEW r \in Runs, File(r)
  PROVE  LogsInv'
<1>1. /\ pc \in [Runs -> Stages] /\ pc[r] = "filing" /\ held \subseteq Runs
      /\ pc' = [pc EXCEPT ![r] = "ended"]
      /\ UNCHANGED <<journal, held, unsure, failed, wasInterrupted, next, steps>>
  BY DEF Types, File
<1>2. pc'[r] = "ended" /\ \A q \in Runs : q # r => pc'[q] = pc[q]
  BY <1>1
<1>3. AuditInv'
  BY <1>1, FileFacts, FiledKept
<1>4. TailInv'
  <2>1. Active' \subseteq Active
    BY <1>1, <1>2 DEF Active, Over
  <2> QED BY <1>1, <2>1 DEF LogsInv, TailInv
<1>5. ASSUME NEW q \in Runs PROVE EndInv(q)'
  <2>1. CASE q = r
    BY <1>1, <1>2, <2>1 DEF LogsInv, EndInv, Bounded, Closed
  <2>2. CASE q # r
    BY <1>1, <1>2, <2>2 DEF LogsInv, EndInv
  <2> QED BY <2>1, <2>2
<1>6. ASSUME NEW q \in held \ unsure PROVE LineInv(q)'
  <2>1. Tells(journal, q, pc[q], next[q], steps[q]) /\ q \in Runs
    BY <1>1 DEF LogsInv, LineInv
  <2>2. CASE q = r
    <3>1. Tells(journal, r, "ended", next[r], steps[r])
      BY <1>1, <2>1, <2>2 DEF Tells, Marked
    <3> QED BY <1>1, <1>2, <2>2, <3>1 DEF LineInv
  <2>3. CASE q # r
    BY <1>1, <1>2, <2>1, <2>3 DEF LineInv
  <2> QED BY <2>2, <2>3
<1> QED BY <1>1, <1>3, <1>4, <1>5, <1>6 DEF LogsInv

\* A run that dies may tear the line it was writing; only its own line is lost.
LEMMA KillKept ==
  ASSUME Types, LogsInv, NEW r \in Runs, CallInv(r), Kill(r)
  PROVE  LogsInv'
<1> DEFINE x == IF pc[r] \in {"closing", "filing"} THEN "gone" ELSE "dead"
<1>1. /\ pc \in [Runs -> Stages] /\ journal \in Logs /\ r \in Active
      /\ pc' = [pc EXCEPT ![r] = x]
      /\ UNCHANGED <<held, failed, wasInterrupted>> /\ unsure \subseteq unsure'
      /\ journal' = journal => unsure' = unsure
  BY DEF Types, Kill
<1>2. /\ pc[r] \notin {"off", "ended", "gone", "dead"} /\ x \in {"gone", "dead"}
      /\ x = "gone" <=> pc[r] \in {"closing", "filing"}
  BY <1>1 DEF Active, Over
<1>3. next' = [next EXCEPT ![r] = 0] /\ steps' = [steps EXCEPT ![r] = <<>>]
      /\ next \in [Runs -> Nat] /\ steps \in [Runs -> Seq(Int)]
  BY DEF Kill, Types
<1> HIDE DEF x
<1>4. PICK kind \in Kinds :
        /\ Adds(journal, journal', r, kind)
        /\ kind = "run_finished" => pc[r] = "closing"
        /\ \A i \in DOMAIN journal' : i \notin DOMAIN journal => journal'[i].form # "whole"
  BY KillFacts
<1>5. /\ journal' \in Logs /\ Files(r) /\ (pc[r] # "filing" => audit' = audit)
      /\ pc[r] = "filing" => journal' = journal
      /\ journal' = journal \/ Active \ {r} \subseteq unsure'
  BY KillFacts
<1>6. /\ \A q \in Runs : EndInv(q)'
      /\ \A q \in held' \ unsure' : q # r => LineInv(q)'
      /\ audit' = audit => AuditInv'
  <2>1. x \in Stages \ {"off"} /\ x # "closing"
    BY <1>2 DEF Stages, Over
  <2>2. /\ kind = "run_finished" => x \in Closed
        /\ pc[r] \in Closed => x \in Closed
        /\ x \in Closed => pc[r] \in Closed \cup {"closing"}
    BY <1>2, <1>4 DEF Closed
  <2>3. \A q \in Runs : q # r => next'[q] = next[q] /\ steps'[q] = steps[q]
    BY <1>3
  <2> QED BY <1>1, <1>2, <1>4, <1>5, <2>1, <2>2, <2>3, OthersKept
<1>7. AuditInv'
  <2>1. CASE pc[r] = "filing"
    BY <1>1, <1>2, <1>5, <2>1, FiledKept
  <2>2. CASE pc[r] # "filing"
    BY <1>5, <1>6, <2>2
  <2> QED BY <2>1, <2>2
<1>8. TailInv'
  <2>1. Active' = Active \ {r}
    BY <1>1, <1>2 DEF Active, Over
  <2> QED BY <1>1, <1>5, <2>1 DEF LogsInv, TailInv
<1>9. ASSUME r \in held' \ unsure' PROVE LineInv(r)'
  <2>1. Tells(journal, r, pc[r], next[r], steps[r]) /\ Grown(journal, journal')
    BY <1>1, <1>4, <1>9 DEF LogsInv, LineInv, Adds
  <2>2. Marked(journal', r, x)
    <3> SUFFICES ASSUME NEW i \in DOMAIN journal', Of(journal', i, r)
                 PROVE  \/ Solid(journal', i)
                        \/ journal'[i].form # "whole" /\ x = "dead"
                        \/ journal'[i].form # "whole" /\ x = "gone"
                             /\ journal'[i].entry.event = "run_finished"
      BY DEF Marked
    <3>1. CASE i \in DOMAIN journal
      <4>1. Solid(journal, i)
        BY <1>1, <1>2, <1>5, <2>1, <3>1, PrefixFacts DEF Tells, Marked
      <4> QED BY <1>1, <1>5, <2>1, <3>1, <4>1, PrefixFacts
    <3>2. CASE i \notin DOMAIN journal
      <4>1. journal'[i].form # "whole"
        BY <1>4, <3>2
      <4>2. ASSUME x = "gone" PROVE journal'[i].entry.event = "run_finished"
        <5>1. journal' # journal
          BY <3>2
        <5>2. r \in held
          BY <1>1, <1>9
        <5>3. pc[r] = "closing"
          BY <1>2, <1>5, <4>2, <5>1
        <5>4. AboutTo(r) = {Event(r, "run_finished", 0)}
          BY <5>2, <5>3 DEF AboutTo
        <5>5. journal' \in Torn(journal, Event(r, "run_finished", 0))
          BY <5>1, <5>4 DEF Kill
        <5>6. Event(r, "run_finished", 0) \in LogEntries
              /\ Event(r, "run_finished", 0).event = "run_finished"
          BY EventType DEF Kinds
        <5>7. \A j \in 1 .. Len(journal') : j > Len(journal) =>
                journal'[j].entry = Event(r, "run_finished", 0)
          BY <1>1, <5>5, <5>6, TornFacts DEF Logs
        <5>8. i \in 1 .. Len(journal') /\ i > Len(journal)
          BY <1>1, <1>5, <3>2, DomainFacts
        <5> QED BY <5>6, <5>7, <5>8
      <4> QED BY <1>2, <4>1, <4>2
    <3> QED BY <3>1, <3>2
  <2>3. Has(journal', Event(r, "run_started", 0))
    BY <1>1, <1>5, <2>1, HasStays DEF Tells
  <2>4. Tells(journal', r, x, 0, <<>>)
    BY <1>2, <2>2, <2>3 DEF Tells
  <2>5. pc'[r] = x /\ next'[r] = 0 /\ steps'[r] = <<>>
    BY <1>1, <1>3
  <2> QED BY <2>4, <2>5 DEF LineInv
<1> QED BY <1>6, <1>7, <1>8, <1>9 DEF LogsInv

LEMMA BeginKept ==
  ASSUME Types, TypeOK, LogsInv, NEW r \in Runs, CallInv(r), Begin(r)
  PROVE  LogsInv'
<1> DEFINE x == IF AllBegun(r) THEN "commands" ELSE "begin"
<1>1. /\ pc \in [Runs -> Stages] /\ next \in [Runs -> Nat] /\ journal \in Logs /\ pc[r] = "begin"
      /\ held \subseteq Runs
  BY DEF Types, Begin
<1>2. pc' = [pc EXCEPT ![r] = x]
  <2>1. CASE AllBegun(r)
    BY <2>1 DEF Begin
  <2>2. CASE ~AllBegun(r)
    <3>1. pc' = pc /\ x = pc[r]
      BY <1>1, <2>2 DEF Begin
    <3> QED BY <1>1, <3>1
  <2> QED BY <2>1, <2>2
<1>3. /\ x \in {"begin", "commands"}
      /\ next' = [next EXCEPT ![r] = IF r \in held THEN @ + 1 ELSE @]
      /\ Record(r, Event(r, "step_started", next'[r]))
      /\ UNCHANGED <<audit, held, failed, wasInterrupted, steps>>
  BY DEF Begin
<1> HIDE DEF x
<1>4. next'[r] \in Int /\ "step_started" \in Kinds /\ r \in Active
  BY <1>1, <1>3 DEF Kinds, Active, Over
<1>5. ASSUME r \in held \ unsure' PROVE Tells(journal', r, x, next'[r], steps'[r])
  <2>1. /\ journal' \in Logs /\ Fresh(journal, journal', Event(r, "step_started", next'[r]))
        /\ unsure \subseteq unsure'
    BY <1>3, <1>4, <1>5, RecordFacts DEF LogsInv
  <2>2. Tells(journal, r, "begin", next[r], steps[r])
    BY <1>1, <1>5, <2>1 DEF LogsInv, LineInv
  <2>3. next'[r] = next[r] + 1 /\ next[r] \in Nat
    BY <1>1, <1>3, <1>5
  <2>4. \A k \in 1 .. next'[r] :
          k \in 1 .. next[r] \/ Event(r, "step_started", next'[r]) = Event(r, "step_started", k)
    BY <2>3
  <2> HIDE <2>3
  <2>5. Tells(journal', r, x, next'[r], steps[r])
    BY <1>1, <1>3, <1>4, <2>1, <2>2, <2>4, FreshTells
  <2> QED BY <1>3, <2>5
<1> QED BY <1>1, <1>2, <1>3, <1>4, <1>5, RecordKept DEF Working, InCall

LEMMA FinishKept ==
  ASSUME Types, TypeOK, LogsInv, NEW r \in Runs, CallInv(r), Finish(r)
  PROVE  LogsInv'
<1> DEFINE x  == IF at[r] + 1 = Until(r) THEN "decide" ELSE "finish"
           id == StepId(r, at[r] + 1)
<1>1. /\ pc \in [Runs -> Stages] /\ steps \in [Runs -> Seq(Int)] /\ journal \in Logs
      /\ pc[r] = "finish" /\ held \subseteq Runs /\ Len(steps[r]) <= KeptSteps
  BY DEF Types, Finish
<1>2. /\ x \in {"decide", "finish"} /\ pc' = [pc EXCEPT ![r] = x]
      /\ steps' = [steps EXCEPT ![r] = Kept(@, id)]
      /\ Record(r, Event(r, "step_finished", id))
      /\ UNCHANGED <<audit, held, failed, wasInterrupted, next>>
  BY DEF Finish
<1>3. id \in Int /\ "step_finished" \in Kinds /\ r \in Active
  <2>1. at[r] + 1 \in Int
    BY DEF Types
  <2> QED BY <1>1, <2>1, StepIdType DEF CallInv, InCall, Kinds, Active, Over
<1> HIDE DEF x, id
<1>4. ASSUME r \in held \ unsure' PROVE Tells(journal', r, x, next'[r], steps'[r])
  <2>1. /\ journal' \in Logs /\ Fresh(journal, journal', Event(r, "step_finished", id))
        /\ unsure \subseteq unsure'
    BY <1>2, <1>3, <1>4, RecordFacts DEF LogsInv
  <2>2. Tells(journal, r, "finish", next[r], steps[r])
    BY <1>1, <1>4, <2>1 DEF LogsInv, LineInv
  <2>3. Grown(journal, journal')
    BY <2>1 DEF Fresh
  <2>4. Marked(journal', r, x)
    BY <1>1, <2>1, <2>2, FreshMarked DEF Tells
  <2>5. LastDone(journal', r, Kept(steps[r], id))
    BY <1>1, <1>3, <2>1, <2>2, FreshDone DEF Tells
  <2>6. steps'[r] = Kept(steps[r], id)
    BY <1>1, <1>2
  <2>7. Tells(journal', r, x, next[r], Kept(steps[r], id))
    BY <1>1, <1>2, <2>1, <2>2, <2>3, <2>4, <2>5, HasStays DEF Tells
  <2> QED BY <1>2, <2>6, <2>7
<1> QED BY <1>1, <1>2, <1>3, <1>4, RecordKept DEF Working, InCall

LEMMA FinishRunKept ==
  ASSUME Types, TypeOK, LogsInv, NEW r \in Runs, FinishRun(r)
  PROVE  LogsInv'
<1>1. /\ pc \in [Runs -> Stages] /\ journal \in Logs /\ pc[r] = "closing" /\ held \subseteq Runs
      /\ pc' = [pc EXCEPT ![r] = "filing"] /\ Record(r, Event(r, "run_finished", 0))
      /\ UNCHANGED <<audit, held, failed, wasInterrupted, next, steps>>
  BY DEF Types, FinishRun
<1>2. 0 \in Int /\ "run_finished" \in Kinds /\ r \in Active
  BY <1>1 DEF Kinds, Active, Over
<1>3. ASSUME r \in held \ unsure' PROVE Tells(journal', r, "filing", next'[r], steps'[r])
  <2>1. /\ journal' \in Logs /\ Fresh(journal, journal', Event(r, "run_finished", 0))
        /\ unsure \subseteq unsure'
    BY <1>1, <1>2, <1>3, RecordFacts DEF LogsInv
  <2>2. Tells(journal, r, "closing", next[r], steps[r])
    BY <1>1, <1>3, <2>1 DEF LogsInv, LineInv
  <2>3. Tells(journal', r, "filing", next[r], steps[r])
    BY <1>1, <1>2, <2>1, <2>2, FreshTells
  <2> QED BY <1>1, <2>3
<1> QED BY <1>1, <1>2, <1>3, RecordKept

LEMMA LogsKept ==
  ASSUME LogInv, NEW r \in Runs, Step(r) \/ Signal(r) \/ Kill(r)
  PROVE  LogsInv'
<1>1. Types /\ TypeOK /\ LogsInv /\ CallInv(r)
  BY TypeParts DEF LogInv, LogsInv
<1>2. pc \in [Runs -> Stages]
  BY <1>1 DEF Types
<1>3. CASE Start(r) \/ Kill(r) \/ Begin(r) \/ Finish(r) \/ FinishRun(r) \/ File(r)
  BY <1>1, <1>3, StartKept, KillKept, BeginKept, FinishKept, FinishRunKept, FileKept
<1>4. CASE Call(r)
  <2>1. PICK x \in {"check", "begin"} : pc' = [pc EXCEPT ![r] = x]
    BY <1>4 DEF Call
  <2>2. /\ pc[r] \in Working /\ x \in Working /\ failed' = failed
        /\ UNCHANGED <<journal, audit, steps, held, next, unsure>> /\ wasInterrupted' = wasInterrupted
    BY <1>4 DEF Call, Working, InCall, logs, ghost
  <2> QED BY <1>1, <2>1, <2>2, QuietKept DEF Working, InCall
<1>5. CASE Check(r) \/ Return(r)
  <2>1. PICK then \in {"begin", "script"} : Checked(r, then)
    BY <1>5 DEF Check, Return
  <2>2. /\ wasInterrupted' \subseteq wasInterrupted \cup {r}
        /\ \E x \in {"script", then} : pc' = [pc EXCEPT ![r] = x]
    BY <1>1, <2>1, CheckedType DEF Working, InCall
  <2>3. PICK x \in {"begin", "script"} : pc' = [pc EXCEPT ![r] = x]
    BY <2>2
  <2>4. /\ pc[r] \in Working /\ failed' = failed
        /\ UNCHANGED <<journal, audit, steps, held, next, unsure>>
    BY <1>5 DEF Check, Return, Working, InCall, logs
  <2> QED BY <1>1, <2>2, <2>3, <2>4, QuietKept DEF Working, InCall
<1>6. CASE Answer(r) \/ Retry(r) \/ NextChunk(r)
  <2>1. PICK x \in {"finish", "check"} : pc' = [pc EXCEPT ![r] = x]
    BY <1>6 DEF Answer, Retry, NextChunk
  <2>2. /\ pc[r] \in Working /\ failed' = failed
        /\ UNCHANGED <<journal, audit, steps, held, next, unsure>> /\ wasInterrupted' = wasInterrupted
    BY <1>6 DEF Answer, Retry, NextChunk, Working, InCall, logs, ghost
  <2> QED BY <1>1, <2>1, <2>2, QuietKept DEF Working, InCall
<1>7. CASE EndScript(r)
  <2>1. /\ pc[r] \in Working /\ pc' = [pc EXCEPT ![r] = "closing"]
        /\ UNCHANGED <<journal, audit, steps, held, next, unsure>>
        /\ failed' \in {failed, failed \cup {r}}
    BY <1>7 DEF EndScript, Working, logs, ghost
  <2>2. /\ wasInterrupted' \subseteq wasInterrupted \cup {r}
        /\ r \in wasInterrupted' => r \in failed'
    BY <1>7 DEF EndScript, Cancelled
  <2> QED BY <1>1, <2>1, <2>2, QuietKept
<1>8. CASE Signal(r)
  <2>1. UNCHANGED <<journal, audit, pc, steps, held, next, failed, wasInterrupted, unsure>>
    BY <1>8 DEF Signal, logs, ghost
  <2> QED BY <1>1, <2>1 DEF LogsInv, TailInv, AuditInv, EndInv, LineInv, Active
<1> QED BY <1>3, <1>4, <1>5, <1>6, <1>7, <1>8 DEF Step
-----------------------------------------------------------------------------
LEMMA InitInv == Init => LogInv
<1> SUFFICES ASSUME Init PROVE LogInv
  OBVIOUS
<1>1. Types
  <2>1. journal \in Logs /\ audit \in Seq(Writes(EntriesOf))
    BY DEF Init, Logs
  <2>2. pc \in [Runs -> Stages] /\ call \in [Runs -> Calls \cup {None}]
    BY DEF Init, Stages
  <2>3. steps \in [Runs -> Seq(Int)] /\ \A r \in Runs : Len(steps[r]) <= KeptSteps
    BY Bounds DEF Init
  <2>4. calls \in [Runs -> 0 .. MaxCalls] /\ faults \in 0 .. MaxFaults
    BY Bounds DEF Init
  <2> QED BY <2>1, <2>2, <2>3, <2>4 DEF Init, Types
<1>2. \A r \in Runs : CallInv(r) /\ EndInv(r)
  BY DEF Init, CallInv, InCall, EndInv, Bounded, Closed
<1>3. GivenInv /\ TailInv /\ AuditInv /\ \A r \in held \ unsure : LineInv(r)
  BY DEF Init, GivenInv, TailInv, Closes, AuditInv
<1> QED BY <1>1, <1>2, <1>3, TypeParts DEF LogInv

LEMMA StepInv == LogInv /\ [Next]_vars => LogInv'
<1> SUFFICES ASSUME LogInv, [Next]_vars PROVE LogInv'
  OBVIOUS
<1>1. CASE Next
  <2>1. PICK r \in Runs : Step(r) \/ Signal(r) \/ Kill(r)
    BY <1>1 DEF Next
  <2>2. TypeOK'
    BY <2>1, TypeKept, TypePartsNext
  <2>3. \A q \in Runs : CallInv(q)'
    BY <2>1, CallKept
  <2>4. GivenInv' /\ LogsInv'
    BY <2>1, GivenKept, LogsKept
  <2> QED BY <2>2, <2>3, <2>4 DEF LogInv, LogsInv
<1>2. CASE UNCHANGED vars
  BY <1>2 DEF vars, LogInv, TypeOK, GivenInv, TailInv, AuditInv, CallInv, Until, EndInv, LineInv,
              Active
<1> QED BY <1>1, <1>2

(* The inductive invariant.                                                 *)
THEOREM LogInvariance == Spec => []LogInv
BY InitInv, StepInv, PTL DEF Spec

(* Stages, calls, logs and counters stay within their ranges, and a run keeps
   no more step records than an entry takes.                                *)
THEOREM TypeCorrect == Spec => []TypeOK
<1>1. LogInv => TypeOK
  BY DEF LogInv
<1> QED BY <1>1, LogInvariance, PTL
-----------------------------------------------------------------------------
(* What reading the journal finds.                                          *)

LEMMA HasIsRead ==
  ASSUME Utf8(journal), NEW r \in Runs, NEW kind \in Kinds, NEW id \in Int,
         Has(journal, Event(r, kind, id))
  PROVE  Event(r, kind, id) \in Events(r, kind)
<1>1. PICK i \in DOMAIN journal : Solid(journal, i) /\ journal[i].entry = Event(r, kind, id)
  BY DEF Has
<1>2. IsLine(journal, i)
  BY <1>1 DEF Solid, IsLine
<1>3. Event(r, kind, id) \in Read(journal)
  BY <1>1, <1>2 DEF Read, Lines
<1> QED BY <1>3, EventType DEF Events

(* Before a command reaches a host, every attempt of it, in every chunk, the
   start of its step is in the journal of a run that was not warned.        *)
THEOREM StartsAreWritten == Spec => []WriteAhead
<1>1. LogInv => WriteAhead
  <2> SUFFICES ASSUME LogInv, NEW x \in given, Sure(x[1])
               PROVE  \E e \in Events(x[1], "step_started") : e.id = x[2]
    BY DEF WriteAhead
  <2>1. x[1] \in Runs /\ x[2] \in Int
    BY DEF LogInv, TypeOK
  <2>2. x[1] \in held \ unsure /\ Utf8(journal)
    BY DEF Sure
  <2>3. x[2] \in 1 .. next[x[1]] /\ LineInv(x[1])
    BY <2>2 DEF LogInv, GivenInv
  <2>4. Has(journal, Event(x[1], "step_started", x[2]))
    BY <2>3 DEF LineInv, Tells
  <2>5. "step_started" \in Kinds
    BY DEF Kinds
  <2> QED BY <2>1, <2>2, <2>4, <2>5, HasIsRead, EventType
<1> QED BY <1>1, LogInvariance, PTL

(* nrg audit --incomplete lists a run that is under way or died in its script
   and not one that came to its end, whoever tore the journal before.       *)
THEOREM IncompleteIsRight == Spec => []IncompleteIsListed
<1>1. LogInv => IncompleteIsListed
  <2> SUFFICES ASSUME LogInv, NEW r \in Runs, Sure(r)
               PROVE  /\ pc[r] \in {"filing", "ended"} => r \notin Incomplete
                      /\ pc[r] \notin {"filing", "ended", "gone"} => r \in Incomplete
    BY DEF IncompleteIsListed
  <2>1. r \in held \ unsure /\ Utf8(journal)
    BY DEF Sure
  <2>2. LineInv(r) /\ EndInv(r) /\ journal \in Logs
    BY <2>1, JournalType DEF LogInv
  <2>3. ASSUME pc[r] \in {"filing", "ended"} PROVE r \notin Incomplete
    <3>1. Has(journal, Event(r, "run_finished", 0))
      BY <2>2, <2>3 DEF LineInv, Tells
    <3>2. Events(r, "run_finished") # {}
      BY <2>1, <3>1, HasIsRead DEF Kinds
    <3> QED BY <3>2 DEF Incomplete
  <2>4. ASSUME pc[r] \notin {"filing", "ended", "gone"} PROVE r \in Incomplete
    <3>1. Has(journal, Event(r, "run_started", 0))
      BY <2>2 DEF LineInv, Tells
    <3>2. Event(r, "run_started", 0) \in Read(journal) /\ Event(r, "run_started", 0).run = r
      BY <2>1, <3>1, HasIsRead, EventType DEF Kinds, Events
    <3>3. Events(r, "run_finished") = {}
      <4> SUFFICES ASSUME NEW e \in Events(r, "run_finished") PROVE FALSE
        OBVIOUS
      <4>1. PICK i \in Lines(journal) : journal[i].entry = e
        BY <2>1 DEF Events, Read
      <4>2. i \in DOMAIN journal /\ journal[i].form \in {"whole", "bare"}
        BY <4>1 DEF Lines, IsLine
      <4>3. Of(journal, i, r) /\ journal[i].entry.event = "run_finished"
        BY <4>1, <4>2 DEF Of, Events
      <4> QED BY <2>2, <2>4, <4>2, <4>3 DEF EndInv, Bounded, Closed
    <3> QED BY <3>2, <3>3 DEF Incomplete
  <2> QED BY <2>3, <2>4
<1> QED BY <1>1, LogInvariance, PTL

(* The audit trail agrees with the journal: a filed entry names the last steps
   the journal has as finished, and no success is filed for a run that a
   signal cut short.                                                        *)
THEOREM LogsAgree == Spec => []AuditAgrees
<1>1. LogInv => AuditAgrees
  <2> SUFFICES ASSUME LogInv, NEW a \in Read(audit)
               PROVE  /\ a.outcome => a.run \notin wasInterrupted
                      /\ Sure(a.run) => LastFinished(a.run, a.steps)
    BY DEF AuditAgrees
  <2>1. PICK i \in DOMAIN audit : audit[i].entry = a
    BY DEF Read, Lines
  <2>2. a.run \in Runs
    BY <2>1, AuditType, TypeParts DEF LogInv
  <2>3. /\ pc[a.run] \in {"ended", "gone"} /\ (a.outcome => a.run \notin failed)
        /\ a.run \in held \ unsure => LastDone(journal, a.run, a.steps)
    BY <2>1 DEF LogInv, AuditInv
  <2>4. a.run \in wasInterrupted => a.run \in failed
    BY <2>2, <2>3 DEF LogInv, EndInv, Closed
  <2>5. ASSUME Sure(a.run) PROVE LastFinished(a.run, a.steps)
    <3> DEFINE q == a.run
               s == a.steps
    <3>1. q \in held \ unsure /\ LastDone(journal, q, s) /\ LineInv(q)
      BY <2>3, <2>5 DEF Sure, LogInv
    <3>2. Finished(q) = Done(journal, q)
      <4>1. ASSUME NEW j \in Finished(q) PROVE j \in Done(journal, q)
        <5>1. /\ j \in DOMAIN journal /\ journal[j].form \in {"whole", "bare"}
              /\ journal[j].entry.run = q /\ journal[j].entry.event = "step_finished"
          BY <4>1 DEF Finished, Lines, IsLine
        <5>2. Of(journal, j, q)
          BY <5>1 DEF Of
        <5>3. Solid(journal, j)
          BY <2>3, <3>1, <5>1, <5>2 DEF LineInv, Tells, Marked
        <5> QED BY <5>1, <5>2, <5>3 DEF Done
      <4>2. ASSUME NEW j \in Done(journal, q) PROVE j \in Finished(q)
        BY <4>2 DEF Done, Finished, Lines, IsLine, Solid, Of
      <4> QED BY <4>1, <4>2
    <3> HIDE DEF q, s
    <3>3. PICK f \in [DOMAIN s -> Finished(q)] :
            /\ \A k, m \in DOMAIN s : k < m => f[k] < f[m]
            /\ \A k \in DOMAIN s : s[k] = journal[f[k]].entry.id
            /\ \A j \in Finished(q) : (\E k \in DOMAIN s : f[k] = j) \/ (Len(s) = KeptSteps /\ j < f[1])
      BY <3>1, <3>2 DEF LastDone
    <3>4. \A j \in Finished(q) : j \in Range(f) \/ (Len(s) = KeptSteps /\ j < f[1])
      BY <3>3 DEF Range
    <3>5. LastFinished(q, s)
      BY <3>3, <3>4 DEF LastFinished
    <3> QED BY <3>5 DEF q, s
  <2> QED BY <2>3, <2>4, <2>5
<1> QED BY <1>1, LogInvariance, PTL
=============================================================================
