------------------------- MODULE TransactionProofs -------------------------
(***************************************************************************)
(* Type correctness and the four properties of Transaction, for every      *)
(* number of effects, every nesting and every number of signals.           *)
(***************************************************************************)
EXTENDS Transaction, SequenceTheorems, FiniteSetTheorems, TLAPS
-----------------------------------------------------------------------------
(* Sequences used as stacks: what pushing, popping and truncating leave in place,
   element by element.                                                       *)

\* The first m elements of a sequence.
LEMMA PrefixFacts ==
  ASSUME NEW S, NEW s \in Seq(S), NEW m \in Nat, m <= Len(s)
  PROVE  LET t == SubSeq(s, 1, m) IN
         /\ t \in Seq(S) /\ Len(t) = m
         /\ \A k \in 1..m : k \in 1..Len(s) /\ t[k] = s[k]
<1> DEFINE t == SubSeq(s, 1, m)
<1>1. Len(s) \in Nat /\ \A k \in 1..m : k \in 1..Len(s) /\ s[k] \in S
  OBVIOUS
<1>2. /\ t \in Seq(S)
      /\ Len(t) = IF 1 <= m THEN m - 1 + 1 ELSE 0
      /\ \A k \in 1..(m - 1 + 1) : t[k] = s[1 + k - 1]
  BY <1>1, SubSeqProperties
<1> HIDE DEF t
<1>3. Len(t) = m
  BY <1>2
<1>4. ASSUME NEW k \in 1..m PROVE k \in 1..Len(s) /\ t[k] = s[k]
  BY <1>1, <1>2
<1> QED BY <1>2, <1>3, <1>4 DEF t

\* What is left of a sequence without its last element.
LEMMA FrontFacts ==
  ASSUME NEW S, NEW s \in Seq(S), s # <<>>
  PROVE  LET t == SubSeq(s, 1, Len(s) - 1) IN
         /\ t \in Seq(S) /\ Len(t) = Len(s) - 1
         /\ s[Len(s)] \in S /\ Len(s) \in 1..Len(s)
         /\ \A k \in 1..Len(t) : k \in 1..Len(s) /\ t[k] = s[k]
<1>1. /\ Len(s) \in Nat /\ Len(s) \in 1..Len(s) /\ s[Len(s)] \in S
      /\ Len(s) - 1 \in Nat /\ Len(s) - 1 <= Len(s)
  OBVIOUS
<1> QED BY <1>1, PrefixFacts

\* A pushed element is the last, the others stay.
LEMMA PushFacts ==
  ASSUME NEW S, NEW s \in Seq(S), NEW x \in S
  PROVE  LET t == Append(s, x) IN
         /\ t \in Seq(S) /\ Len(t) = Len(s) + 1 /\ t # <<>>
         /\ t[Len(t)] = x
         /\ \A k \in 1..Len(s) : k \in 1..Len(t) /\ t[k] = s[k]
OBVIOUS

\* The last element replaced by another.
LEMMA ReplaceFacts ==
  ASSUME NEW S, NEW s \in Seq(S), s # <<>>, NEW x \in S
  PROVE  LET t == Append(SubSeq(s, 1, Len(s) - 1), x) IN
         /\ t \in Seq(S) /\ Len(t) = Len(s) /\ t[Len(s)] = x
         /\ \A k \in 1..(Len(s) - 1) : k \in 1..Len(s) /\ t[k] = s[k]
<1> DEFINE f == SubSeq(s, 1, Len(s) - 1)
<1>1. /\ f \in Seq(S) /\ Len(f) = Len(s) - 1 /\ Len(s) \in Nat
      /\ \A k \in 1..Len(f) : k \in 1..Len(s) /\ f[k] = s[k]
  BY FrontFacts
<1> HIDE DEF f
<1>2. /\ Append(f, x) \in Seq(S) /\ Len(Append(f, x)) = Len(f) + 1
      /\ Append(f, x)[Len(f) + 1] = x
      /\ \A k \in 1..Len(f) : Append(f, x)[k] = f[k]
  BY <1>1
<1>3. Len(f) + 1 = Len(s)
  BY <1>1
<1> QED BY <1>1, <1>2, <1>3 DEF f
-----------------------------------------------------------------------------
\* An effect with its compensation registered: not compensated, not final,
\* and older than the ones above it on the stack.
Registered(i) ==
  /\ comps[i] <= n /\ fate[comps[i]] = "done" /\ comps[i] \notin final
  /\ \A j \in 1..Len(comps) : i < j => comps[i] < comps[j]
  /\ \A j \in 1..Len(calls) : calls[j].comp # comps[i]

CompsInv == \A i \in 1..Len(comps) : Registered(i)

\* The mark of a call separates the effects from before it and since.
MarkOK(c) == /\ c.mark <= Len(comps) /\ c.since <= n
             /\ \A k \in 1..Len(comps) : k > c.mark <=> comps[k] > c.since

\* Only a call that compensates holds an effect, one of its own time; only the
\* innermost one pops, and only an unwind carries an error.
InHand(c) == IF c.does = "comp"
             THEN /\ c.comp > c.since /\ c.comp <= n
                  /\ fate[c.comp] = "done" /\ c.comp \notin final
             ELSE c.comp = NoEffect

CallOK(i) ==
  /\ MarkOK(calls[i]) /\ InHand(calls[i])
  /\ calls[i].does = "pop" => i = Len(calls)
  /\ calls[i].does = "body" => ~calls[i].fatal
  /\ \A j \in 1..Len(calls) : i < j => /\ calls[i].mark <= calls[j].mark
                                       /\ calls[i].comp <= calls[j].since

CallsInv == \A i \in 1..Len(calls) : CallOK(i)

\* No effect is lost: it is settled, final, registered or being compensated.
Accounted(e) == \/ fate[e] \in Settled
                \/ e \in final
                \/ \E i \in 1..Len(comps) : comps[i] = e
                \/ \E i \in 1..Len(calls) : calls[i].comp = e

FateInv == /\ \A e \in 1..n : Accounted(e)
           /\ \A e \in final : e <= n /\ fate[e] = "done"

\* A compensation is cut by a signal that is spent: it is neither pending nor
\* carried by an unwind that goes on.
Cut     == {e \in Effects : fate[e] = "cut"}
Carried == {i \in 1..Len(calls) : calls[i].fatal}
CutInv  == Cardinality(Cut) + Cardinality(Carried) + (IF flag THEN 1 ELSE 0) <= signals

TxnInv == TypeOK /\ CompsInv /\ CallsInv /\ FateInv
-----------------------------------------------------------------------------
\* The variables without the counting of the depth.
Typed ==
  /\ comps \in Seq(Effects) /\ depth \in Nat /\ calls \in Seq(Call)
  /\ flag \in BOOLEAN /\ running \in BOOLEAN
  /\ n \in 0..MaxEffects /\ final \subseteq Effects /\ signals \in Nat
  /\ fate \in [Effects -> {"none", "done"} \cup Settled]

LEMMA TypeParts == TypeOK <=> Typed /\ depth = Cardinality(Bodies)
BY DEF TypeOK, Typed

LEMMA EffectsSoFar ==
  ASSUME Typed
  PROVE  \A e, m \in Nat : e > m /\ e <= n => e \in Effects /\ e \in 1..n
BY BoundsAssumed DEF Typed, Effects

LEMMA NextParts ==
  ASSUME Typed', depth' = Cardinality(Bodies'), CompsInv', CallsInv', FateInv'
  PROVE  TxnInv'
BY DEF TxnInv, TypeOK, Typed

\* The innermost call, and the ones beneath it.
LEMMA TopFacts ==
  ASSUME calls \in Seq(Call), calls # <<>>
  PROVE  /\ Top \in Call /\ Len(calls) \in 1..Len(calls)
         /\ Beneath \in Seq(Call) /\ Len(Beneath) = Len(calls) - 1
         /\ \A k \in 1..Len(Beneath) : k \in 1..Len(calls) /\ Beneath[k] = calls[k]
BY FrontFacts DEF Top, Beneath

LEMMA BodiesFinite ==
  ASSUME calls \in Seq(Call)
  PROVE  IsFiniteSet(Bodies) /\ Cardinality(Bodies) \in Nat
<1>1. Len(calls) \in Int /\ 1 \in Int /\ Bodies \in SUBSET (1..Len(calls))
  BY DEF Bodies
<1> QED BY <1>1, FS_Interval, FS_Subset, FS_CardinalityType

\* The depth follows the bodies: one more when a body is entered ...
LEMMA DepthUp ==
  ASSUME TypeOK, NEW p, p \notin Bodies, Bodies' = Bodies \cup {p}, depth' = depth + 1
  PROVE  depth' \in Nat /\ depth' = Cardinality(Bodies')
<1>1. IsFiniteSet(Bodies) /\ Cardinality(Bodies) \in Nat
  BY BodiesFinite DEF TypeOK
<1>2. Cardinality(Bodies \cup {p}) = Cardinality(Bodies) + 1
  BY <1>1, FS_AddElement
<1>3. depth = Cardinality(Bodies)
  BY DEF TypeOK
<1> QED BY <1>1, <1>2, <1>3

\* ... one less when it is left, which it can only be at depth 1 or more.
LEMMA DepthDown ==
  ASSUME TypeOK, NEW p \in Bodies, Bodies' = Bodies \ {p}, LeaveBody
  PROVE  depth' \in Nat /\ depth' = Cardinality(Bodies')
<1>1. IsFiniteSet(Bodies) /\ Cardinality(Bodies) \in Nat
  BY BodiesFinite DEF TypeOK
<1>2. Cardinality(Bodies \ {p}) = Cardinality(Bodies) - 1 /\ IsFiniteSet(Bodies \ {p})
  BY <1>1, FS_RemoveElement
<1>3. Cardinality(Bodies \ {p}) \in Nat
  BY <1>2, FS_CardinalityType
<1> QED BY <1>1, <1>2, <1>3 DEF TypeOK, LeaveBody
-----------------------------------------------------------------------------
\* Calls end or start to pop while no effect is touched.
LEMMA Shrunk ==
  ASSUME Typed, CompsInv, CallsInv, FateInv,
         calls' \in Seq(Call), Len(calls') <= Len(calls),
         \A i \in 1..Len(calls') :
           /\ calls'[i].mark = calls[i].mark /\ calls'[i].since = calls[i].since
           /\ calls'[i].comp = calls[i].comp
           /\ \/ calls'[i].does = calls[i].does /\ calls'[i].fatal = calls[i].fatal
              \/ i = Len(calls') /\ calls'[i].does = "pop" /\ calls[i].does = "body",
         \A i \in 1..Len(calls) : i > Len(calls') => calls[i].does # "comp",
         UNCHANGED <<comps, n, fate, final>>
  PROVE  CompsInv' /\ CallsInv' /\ FateInv'
<1>1. Len(calls') \in Nat /\ \A i \in 1..Len(calls') : i \in 1..Len(calls)
  BY DEF Typed
<1>2. CompsInv'
  BY <1>1 DEF CompsInv, Registered
<1>3. CallsInv'
  <2> SUFFICES ASSUME NEW i \in 1..Len(calls') PROVE CallOK(i)'
    BY DEF CallsInv
  <2>1. CallOK(i) /\ i \in 1..Len(calls)
    BY <1>1 DEF CallsInv
  <2>2. MarkOK(calls[i])' /\ InHand(calls[i])'
    BY <2>1 DEF CallOK, MarkOK, InHand
  <2>3. /\ calls'[i].does = "pop" => i = Len(calls')
        /\ calls'[i].does = "body" => ~calls'[i].fatal
    BY <2>1, <1>1 DEF CallOK, Typed
  <2>4. \A j \in 1..Len(calls') : i < j => /\ calls'[i].mark <= calls'[j].mark
                                          /\ calls'[i].comp <= calls'[j].since
    BY <2>1, <1>1 DEF CallOK
  <2> QED BY <2>2, <2>3, <2>4 DEF CallOK
<1>4. FateInv'
  <2>1. ASSUME NEW e \in 1..n PROVE Accounted(e)'
    <3>1. Accounted(e)
      BY <2>1 DEF FateInv
    <3>2. ASSUME NEW i \in 1..Len(calls), calls[i].comp = e
          PROVE  i \in 1..Len(calls') /\ calls'[i].comp = e
      <4>1. calls[i].does = "comp"
        BY <3>2 DEF CallsInv, CallOK, InHand, NoEffect, Typed
      <4> QED BY <4>1, <3>2, <1>1 DEF Typed
    <3> QED BY <3>1, <3>2 DEF Accounted
  <2> QED BY <2>1 DEF FateInv
<1> QED BY <1>2, <1>3, <1>4

\* The compensation of the call at p ends, and the calls above it have ended.
LEMMA Ended ==
  ASSUME Typed, CompsInv, CallsInv, FateInv,
         NEW p \in 1..Len(calls), calls[p].does = "comp",
         NEW how \in Settled, fate' = [fate EXCEPT ![calls[p].comp] = how],
         calls' \in Seq(Call), Len(calls') = p,
         calls'[p].mark = calls[p].mark, calls'[p].since = calls[p].since,
         calls'[p].comp = NoEffect, calls'[p].does = "pop",
         \A i \in 1..(p - 1) : calls'[i] = calls[i],
         \A i \in 1..Len(calls) : i > p => calls[i].does # "comp",
         UNCHANGED <<comps, n, final>>
  PROVE  CompsInv' /\ CallsInv' /\ FateInv'
<1> DEFINE d == calls[p].comp
<1>0. Len(calls) \in Nat /\ p \in Nat /\ n \in Nat /\ \A i \in 1..p : i \in 1..Len(calls)
  BY DEF Typed
<1>1. /\ CallOK(p) /\ d > calls[p].since /\ d <= n /\ fate[d] = "done" /\ d \notin final
      /\ calls[p] \in Call /\ d \in Nat /\ d \in Effects
  <2>1. CallOK(p) /\ calls[p] \in Call
    BY DEF CallsInv, Typed
  <2>2. InHand(calls[p]) /\ d \in Nat /\ calls[p].since \in Nat
    BY <2>1 DEF CallOK, Call
  <2> QED BY <2>1, <2>2, EffectsSoFar DEF InHand
<1> HIDE DEF d
<1>2. fate' = [fate EXCEPT ![d] = how] /\ fate'[d] = how /\ \A e \in Effects : e # d => fate'[e] = fate[e]
  BY <1>1 DEF d, Typed
<1>3. CompsInv'
  <2> SUFFICES ASSUME NEW i \in 1..Len(comps) PROVE Registered(i)'
    BY DEF CompsInv
  <2>1. Registered(i) /\ comps[i] \in Effects
    BY DEF CompsInv, Typed
  <2>2. comps[i] # d
    BY <2>1, <1>0 DEF Registered, d
  <2>3. \A j \in 1..Len(calls') : calls'[j].comp # comps[i]
    <3> TAKE j \in 1..Len(calls')
    <3>1. CASE j = p
      BY <3>1, <2>1 DEF Effects, NoEffect
    <3>2. CASE j # p
      BY <3>2, <2>1, <1>0 DEF Registered
    <3> QED BY <3>1, <3>2
  <2> QED BY <2>1, <2>2, <2>3, <1>2 DEF Registered
<1>4. CallsInv'
  <2> SUFFICES ASSUME NEW i \in 1..p PROVE CallOK(i)'
    BY DEF CallsInv
  <2>1. CallOK(i) /\ i \in 1..Len(calls) /\ calls[i] \in Call
    BY <1>0 DEF CallsInv, Typed
  <2>2. /\ calls'[i].mark = calls[i].mark /\ calls'[i].since = calls[i].since
        /\ i # p => calls'[i] = calls[i]
    BY <1>0
  <2>3. MarkOK(calls[i])'
    BY <2>1, <2>2 DEF CallOK, MarkOK
  <2>4. InHand(calls[i])'
    <3>1. CASE i = p
      BY <3>1 DEF InHand
    <3>2. CASE i # p
      <4>1. calls[i].comp # d
        <5>1. i < p /\ p \in 1..Len(calls)
          BY <3>2, <1>0
        <5>2. calls[i].comp <= calls[p].since
          BY <5>1, <2>1 DEF CallOK
        <5>3. calls[i].comp \in Nat /\ calls[p].since \in Nat
          BY <2>1, <1>1 DEF Call
        <5> QED BY <5>2, <5>3, <1>1
      <4>2. InHand(calls[i])
        BY <2>1 DEF CallOK
      <4>3. calls[i].does = "comp" => calls[i].comp \in Effects
        BY <4>2, <2>1, EffectsSoFar DEF InHand, Call
      <4> QED BY <4>1, <4>2, <4>3, <2>2, <3>2, <1>2 DEF InHand
    <3> QED BY <3>1, <3>2
  <2>5. /\ calls'[i].does = "pop" => i = Len(calls')
        /\ calls'[i].does = "body" => ~calls'[i].fatal
    BY <2>1, <2>2, <1>0 DEF CallOK
  <2>6. \A j \in 1..p : i < j => /\ calls'[i].mark <= calls'[j].mark
                                /\ calls'[i].comp <= calls'[j].since
    <3> TAKE j \in 1..p
    <3> HAVE i < j
    <3>1. calls'[j].mark = calls[j].mark /\ calls'[j].since = calls[j].since /\ i # p
      BY <1>0
    <3> QED BY <3>1, <2>1, <2>2, <1>0 DEF CallOK
  <2> QED BY <2>3, <2>4, <2>5, <2>6 DEF CallOK
<1>5. FateInv'
  <2>1. ASSUME NEW e \in 1..n PROVE Accounted(e)'
    <3>1. Accounted(e) /\ e \in Effects
      BY <2>1, BoundsAssumed DEF FateInv, Typed, Effects
    <3>2. CASE e = d
      BY <3>2, <1>2 DEF Accounted
    <3>3. CASE e # d
      <4>1. ASSUME NEW i \in 1..Len(calls), calls[i].comp = e
            PROVE  i \in 1..Len(calls') /\ calls'[i].comp = e
        <5>1. calls[i].does = "comp"
          BY <4>1 DEF CallsInv, CallOK, InHand, NoEffect
        <5>2. i # p /\ i <= p
          BY <5>1, <4>1, <3>3, <1>0 DEF d
        <5> QED BY <5>2, <4>1, <1>0
      <4> QED BY <4>1, <3>1, <3>3, <1>2 DEF Accounted
    <3> QED BY <3>2, <3>3
  <2>2. ASSUME NEW e \in final PROVE e <= n /\ fate'[e] = "done"
    BY <2>2, <1>1, <1>2 DEF FateInv, Typed
  <2> QED BY <2>1, <2>2 DEF FateInv
<1> QED BY <1>3, <1>4, <1>5
-----------------------------------------------------------------------------
\* An error leaves the innermost of the calls cs, those above it having popped
\* all they had to.
LEMMA RaiseStep ==
  ASSUME TxnInv, NEW cs \in Seq(Call), NEW fatal \in BOOLEAN,
         Len(cs) <= Len(calls), \A i \in 1..Len(cs) : cs[i] = calls[i],
         \A i \in 1..Len(calls) : i > Len(cs) => calls[i].does = "pop",
         Raise(cs, fatal), UNCHANGED <<comps, n, final, signals>>, flag' \in BOOLEAN
  PROVE  TxnInv'
<1> DEFINE p == Len(cs)
<1> DEFINE c == cs[Len(cs)]
<1>0. Typed /\ CompsInv /\ CallsInv /\ FateInv /\ depth = Cardinality(Bodies)
  BY TypeParts DEF TxnInv
<1>1. p \in Nat /\ Len(calls) \in Nat /\ \A i \in 1..p : i \in 1..Len(calls) /\ calls[i] \in Call
  BY <1>0 DEF Typed
<1>2. CASE cs = <<>> /\ calls' = cs /\ running' = FALSE /\ UNCHANGED <<depth, fate>>
  <2>1. CompsInv' /\ CallsInv' /\ FateInv'
    BY <1>0, <1>1, <1>2, Shrunk
  <2>2. Bodies = {} /\ Bodies' = {}
    BY <1>1, <1>2 DEF Bodies
  <2>3. Typed'
    BY <1>0, <1>2 DEF Typed
  <2> QED BY <2>1, <2>2, <2>3, <1>0, <1>2, NextParts
<1>3. CASE /\ cs # <<>> /\ c.does = "body" /\ LeaveBody /\ UNCHANGED <<running, fate>>
           /\ calls' = Append(SubSeq(cs, 1, p - 1), [c EXCEPT !.does = "pop", !.fatal = fatal])
  <2>1. p \in 1..Len(calls) /\ c = calls[p] /\ c \in Call
    BY <1>1, <1>3
  <2> DEFINE x == [c EXCEPT !.does = "pop", !.fatal = fatal]
  <2>2. /\ x \in Call /\ x.mark = c.mark /\ x.since = c.since /\ x.comp = c.comp
        /\ x.does = "pop"
    BY <2>1 DEF Call
  <2> HIDE DEF x
  <2>3. /\ calls' \in Seq(Call) /\ Len(calls') = p /\ calls'[p] = x
        /\ \A i \in 1..(p - 1) : calls'[i] = cs[i]
    BY <1>3, <2>2, ReplaceFacts DEF x
  <2>4. \A i \in 1..p : i = p \/ calls'[i] = calls[i]
    BY <1>1, <2>3
  <2>5. CompsInv' /\ CallsInv' /\ FateInv'
    BY <1>0, <1>1, <1>3, <2>1, <2>2, <2>3, <2>4, Shrunk
  <2>6. p \in Bodies /\ Bodies' = Bodies \ {p}
    BY <1>1, <1>3, <2>1, <2>2, <2>3, <2>4 DEF Bodies
  <2>7. depth' \in Nat /\ depth' = Cardinality(Bodies')
    BY <2>6, <1>3, DepthDown DEF TxnInv
  <2>8. Typed'
    BY <2>3, <2>7, <1>0, <1>3 DEF Typed
  <2> QED BY <2>5, <2>7, <2>8, NextParts
<1>4. CASE /\ cs # <<>> /\ c.does = "comp" /\ UNCHANGED <<running, depth>>
           /\ calls' = Append(SubSeq(cs, 1, p - 1), [c EXCEPT !.does = "pop", !.comp = NoEffect])
           /\ fate' = [fate EXCEPT ![c.comp] = IF fatal THEN "cut" ELSE "stuck"]
  <2>1. p \in 1..Len(calls) /\ c = calls[p] /\ c \in Call
    BY <1>1, <1>4
  <2> DEFINE x == [c EXCEPT !.does = "pop", !.comp = NoEffect]
  <2>2. /\ x \in Call /\ x.mark = c.mark /\ x.since = c.since /\ x.comp = NoEffect
        /\ x.does = "pop"
    BY <2>1 DEF Call, NoEffect
  <2> HIDE DEF x
  <2>3. /\ calls' \in Seq(Call) /\ Len(calls') = p /\ calls'[p] = x
        /\ \A i \in 1..(p - 1) : calls'[i] = cs[i]
    BY <1>4, <2>2, ReplaceFacts DEF x
  <2>4. \A i \in 1..(p - 1) : calls'[i] = calls[i]
    BY <1>1, <2>3
  <2>5. PICK how \in Settled : fate' = [fate EXCEPT ![calls[p].comp] = how]
    BY <1>4, <2>1 DEF Settled
  <2>6. CompsInv' /\ CallsInv' /\ FateInv'
    <3>1. \A i \in 1..Len(calls) : i > p => calls[i].does # "comp"
      OBVIOUS
    <3>2. /\ calls[p].does = "comp" /\ calls'[p].mark = calls[p].mark
          /\ calls'[p].since = calls[p].since /\ calls'[p].comp = NoEffect
          /\ calls'[p].does = "pop"
      BY <1>4, <2>1, <2>2, <2>3
    <3> HIDE DEF p
    <3> QED BY <1>0, <2>1, <2>3, <2>4, <2>5, <3>1, <3>2, Ended
  <2>7. Bodies' = Bodies
    <3>1. \A i \in 1..Len(calls) : i > p => calls[i].does # "body"
      OBVIOUS
    <3>2. calls[p].does # "body" /\ calls'[p].does # "body" /\ Len(calls') = p
      BY <1>4, <2>1, <2>2, <2>3
    <3> HIDE DEF p
    <3>3. \A i : i \in Bodies' <=> i \in Bodies
      BY <1>1, <2>1, <2>4, <3>1, <3>2 DEF Bodies
    <3> QED BY <3>3
  <2>8. fate' \in [Effects -> {"none", "done"} \cup Settled]
    BY <1>0, <2>5 DEF Typed
  <2>9. Typed'
    BY <2>3, <2>8, <1>0, <1>4 DEF Typed
  <2> QED BY <2>6, <2>7, <2>9, <1>0, <1>4, NextParts
<1> QED BY <1>2, <1>3, <1>4 DEF Raise
-----------------------------------------------------------------------------
\* Effects registered or in hand are among those so far.
LEMMA Ranges ==
  ASSUME Typed, CompsInv, CallsInv
  PROVE  /\ n \in Nat /\ NoEffect \notin Effects /\ Effects \subseteq Nat
         /\ \A k \in 1..Len(comps) :
              Registered(k) /\ comps[k] \in Effects /\ comps[k] \in Nat /\ comps[k] <= n
         /\ \A i \in 1..Len(calls) :
              /\ CallOK(i) /\ calls[i] \in Call /\ calls[i].comp <= n
              /\ calls[i].does # "comp" => calls[i].comp = NoEffect
              /\ calls[i].does = "comp" => calls[i].comp \in Effects
<1>1. n \in Nat /\ NoEffect \notin Effects /\ Effects \subseteq Nat
  BY BoundsAssumed DEF Typed, Effects, NoEffect
<1>2. ASSUME NEW k \in 1..Len(comps)
      PROVE  Registered(k) /\ comps[k] \in Effects /\ comps[k] <= n
  BY DEF Typed, CompsInv, Registered
<1>3. ASSUME NEW i \in 1..Len(calls)
      PROVE  /\ CallOK(i) /\ calls[i] \in Call /\ calls[i].comp <= n
             /\ calls[i].does # "comp" => calls[i].comp = NoEffect
             /\ calls[i].does = "comp" => calls[i].comp \in Effects
  <2>1. CallOK(i) /\ calls[i] \in Call
    BY DEF CallsInv, Typed
  <2>2. InHand(calls[i]) /\ calls[i].comp \in Nat /\ calls[i].since \in Nat
    BY <2>1 DEF CallOK, Call
  <2>3. CASE calls[i].does = "comp"
    BY <2>1, <2>2, <2>3, EffectsSoFar DEF InHand
  <2>4. CASE calls[i].does # "comp"
    BY <2>1, <2>2, <2>4, <1>1 DEF InHand, NoEffect
  <2> QED BY <2>3, <2>4
<1> QED BY <1>1, <1>2, <1>3

LEMMA OnRollbackStep == TxnInv /\ OnRollback => TxnInv'
<1> SUFFICES ASSUME TxnInv, OnRollback PROVE TxnInv'
  OBVIOUS
<1> DEFINE new == n + 1
<1>0. Typed /\ CompsInv /\ CallsInv /\ FateInv /\ depth = Cardinality(Bodies)
  BY TypeParts DEF TxnInv
<1>1. /\ n \in Nat /\ new \in Effects /\ new \in Nat /\ new > n /\ n' = new
      /\ calls \in Seq(Call) /\ comps \in Seq(Effects) /\ final' = final /\ calls' = calls
  BY <1>0, BoundsAssumed DEF OnRollback, Typed, Effects
<1>2. /\ comps' \in Seq(Effects) /\ Len(comps') = Len(comps) + 1 /\ Len(comps) \in Nat
      /\ comps'[Len(comps) + 1] = new /\ \A k \in 1..Len(comps) : comps'[k] = comps[k]
  <2>1. comps' = Append(comps, new)
    BY DEF OnRollback
  <2> QED BY <1>1, <2>1, PushFacts
<1>3. fate' = [fate EXCEPT ![new] = "done"] /\ fate'[new] = "done"
      /\ \A e \in Effects : e # new => fate'[e] = fate[e]
  BY <1>0, <1>1 DEF OnRollback, Typed
<1> HIDE DEF new
<1>4. Typed' /\ Bodies' = Bodies /\ depth' = depth
  <2>1. fate' \in [Effects -> {"none", "done"} \cup Settled]
    BY <1>0, <1>3 DEF Typed
  <2>2. n' \in 0..MaxEffects /\ UNCHANGED <<depth, calls, flag, running, final, signals>>
    BY <1>1, BoundsAssumed DEF OnRollback, Effects
  <2> QED BY <1>0, <1>2, <2>1, <2>2 DEF Typed, Bodies
<1>5. ASSUME NEW i \in 1..Len(calls)
      PROVE  /\ CallOK(i) /\ calls[i] \in Call /\ calls[i].comp <= n
             /\ calls[i].does = "comp" => calls[i].comp \in Effects
  BY <1>0, Ranges
<1>6. CompsInv'
  <2> SUFFICES ASSUME NEW i \in 1..Len(comps') PROVE Registered(i)'
    BY DEF CompsInv
  <2>1. CASE i = Len(comps')
    <3>1. comps'[i] = new /\ \A j \in 1..Len(comps') : ~(i < j)
      BY <2>1, <1>2
    <3>2. new \notin final /\ \A j \in 1..Len(calls) : calls[j].comp # new
      BY <1>0, <1>1, <1>5, SMTT(30) DEF FateInv, Call
    <3> QED BY <3>1, <3>2, <1>1, <1>3 DEF Registered
  <2>2. CASE i # Len(comps')
    <3>1. i \in 1..Len(comps) /\ comps'[i] = comps[i] /\ comps[i] \in Effects /\ Registered(i)
      BY <2>2, <1>0, <1>2 DEF CompsInv, Typed
    <3>2. comps[i] <= n /\ comps[i] \in Nat /\ comps[i] < new
      BY <3>1, <1>1 DEF Registered, Effects
    <3>3. \A j \in 1..Len(comps') : i < j => comps'[i] < comps'[j]
      BY <3>1, <3>2, <1>2 DEF Registered
    <3> QED BY <3>1, <3>2, <3>3, <1>1, <1>3 DEF Registered
  <2> QED BY <2>1, <2>2
<1>7. CallsInv'
  <2> SUFFICES ASSUME NEW i \in 1..Len(calls) PROVE CallOK(i)'
    BY <1>1 DEF CallsInv
  <2>1. MarkOK(calls[i])'
    <3>1. /\ calls[i].mark <= Len(comps) /\ calls[i].since <= n
          /\ calls[i].mark \in Nat /\ calls[i].since \in Nat
          /\ \A k \in 1..Len(comps) : k > calls[i].mark <=> comps[k] > calls[i].since
      BY <1>5 DEF CallOK, MarkOK, Call
    <3>2. ASSUME NEW k \in 1..Len(comps')
          PROVE  k > calls[i].mark <=> comps'[k] > calls[i].since
      <4>1. CASE k = Len(comps')
        BY <4>1, <3>1, <1>1, <1>2
      <4>2. CASE k # Len(comps')
        BY <4>2, <3>1, <1>2
      <4> QED BY <4>1, <4>2
    <3> QED BY <3>1, <3>2, <1>1, <1>2 DEF MarkOK
  <2>2. InHand(calls[i])'
    BY <1>1, <1>3, <1>5 DEF CallOK, InHand, Call
  <2> QED BY <2>1, <2>2, <1>1, <1>5 DEF CallOK
<1>8. FateInv'
  <2>1. ASSUME NEW e \in 1..new PROVE Accounted(e)'
    <3>1. CASE e = new
      BY <3>1, <1>2 DEF Accounted
    <3>2. CASE e # new
      <4>1. e \in 1..n /\ e \in Effects
        <5>1. e \in 1..(n + 1) /\ e # n + 1
          BY <3>2 DEF new
        <5> QED BY <5>1, <1>1, <1>0, BoundsAssumed DEF Effects, Typed
      <4>2. Accounted(e)
        BY <4>1, <1>0 DEF FateInv
      <4> QED BY <4>1, <4>2, <3>2, <1>1, <1>2, <1>3 DEF Accounted
    <3> QED BY <3>1, <3>2
  <2>2. ASSUME NEW e \in final PROVE e <= new /\ fate'[e] = "done"
    BY <1>0, <1>1, <1>3 DEF FateInv, Typed, Effects
  <2> QED BY <2>1, <2>2, <1>1 DEF FateInv
<1> QED BY <1>0, <1>4, <1>6, <1>7, <1>8, NextParts

LEMMA EnterStep == TxnInv /\ Enter => TxnInv'
<1> SUFFICES ASSUME TxnInv, Enter PROVE TxnInv'
  OBVIOUS
<1>0. Typed /\ CompsInv /\ CallsInv /\ FateInv /\ depth = Cardinality(Bodies)
  BY TypeParts DEF TxnInv
<1> DEFINE m == Len(calls) + 1
<1>1. PICK c \in Call : /\ calls' = Append(calls, c) /\ c.mark = Len(comps)
                        /\ c.does = "body" /\ c.comp = NoEffect
                        /\ c.since = n /\ ~c.fatal
  <2>1. [mark |-> Len(comps), does |-> "body", comp |-> NoEffect,
         fatal |-> FALSE, since |-> n] \in Call
    BY <1>0 DEF Typed, Call, NoEffect
  <2> QED BY <2>1 DEF Enter
<1>2. /\ Len(calls) \in Nat /\ m \in Nat /\ calls' \in Seq(Call) /\ Len(calls') = m
      /\ calls'[m] = c /\ \A k \in 1..Len(calls) : k # m /\ calls'[k] = calls[k]
  BY <1>0, <1>1, PushFacts DEF Typed
<1>3. UNCHANGED <<comps, flag, running, n, fate, final, signals>> /\ depth' = depth + 1
  BY DEF Enter, past
<1>4. depth' \in Nat /\ depth' = Cardinality(Bodies')
  <2>1. m \notin Bodies /\ Bodies' = Bodies \cup {m}
    BY <1>1, <1>2 DEF Bodies
  <2> QED BY <2>1, <1>3, DepthUp DEF TxnInv
<1>5. ASSUME NEW i \in 1..Len(calls)
      PROVE  CallOK(i) /\ calls[i] \in Call /\ calls[i].comp <= n /\ calls[i].does # "pop"
  <2>1. CallOK(i) /\ calls[i] \in Call
    BY <1>0 DEF CallsInv, Typed
  <2>2. calls[i].comp <= n
    BY <2>1, <1>0 DEF CallOK, InHand, NoEffect, Typed
  <2>3. i = Len(calls) => calls[i].does # "pop"
    BY DEF Enter, Polled, InScript, Doing, Top
  <2> QED BY <2>1, <2>2, <2>3 DEF CallOK
<1>6. CompsInv'
  <2> SUFFICES ASSUME NEW i \in 1..Len(comps) PROVE Registered(i)'
    BY <1>3 DEF CompsInv
  <2>1. Registered(i) /\ comps[i] # NoEffect
    BY <1>0, Ranges
  <2>2. \A j \in 1..Len(calls') : calls'[j].comp # comps[i]
    <3> TAKE j \in 1..Len(calls')
    <3>1. CASE j = m
      BY <3>1, <2>1, <1>1, <1>2
    <3>2. CASE j # m
      BY <3>2, <2>1, <1>2 DEF Registered
    <3> QED BY <3>1, <3>2
  <2> QED BY <2>1, <2>2, <1>3 DEF Registered
<1>7. CallsInv'
  <2> SUFFICES ASSUME NEW i \in 1..m PROVE CallOK(i)'
    BY <1>2 DEF CallsInv
  <2>1. CASE i = m
    <3>1. MarkOK(calls[i])'
      <4>1. \A k \in 1..Len(comps) : comps[k] <= n /\ comps[k] \in Nat /\ n \in Nat
        BY <1>0, Ranges
      <4> QED BY <4>1, <2>1, <1>0, <1>1, <1>2, <1>3 DEF MarkOK, Typed
    <3>2. InHand(calls[i])'
      BY <2>1, <1>1, <1>2 DEF InHand
    <3> QED BY <3>1, <3>2, <2>1, <1>1, <1>2 DEF CallOK
  <2>2. CASE i # m
    <3>1. i \in 1..Len(calls) /\ calls'[i] = calls[i]
      BY <2>2, <1>2
    <3>2. MarkOK(calls[i])' /\ InHand(calls[i])'
      BY <3>1, <1>3, <1>5 DEF CallOK, MarkOK, InHand
    <3>3. \A j \in 1..m : i < j => /\ calls'[i].mark <= calls'[j].mark
                                  /\ calls'[i].comp <= calls'[j].since
      <4> TAKE j \in 1..m
      <4>1. CASE j = m
        BY <4>1, <3>1, <1>1, <1>2, <1>5 DEF CallOK, MarkOK
      <4>2. CASE j # m
        BY <4>2, <3>1, <1>2, <1>5 DEF CallOK
      <4> QED BY <4>1, <4>2
    <3> QED BY <3>1, <3>2, <3>3, <1>2, <1>5 DEF CallOK
  <2> QED BY <2>1, <2>2
<1>8. FateInv'
  <2>1. \A i \in 1..Len(calls) : i \in 1..m
    BY <1>2
  <2> HIDE DEF m
  <2> QED BY <2>1, <1>0, <1>2, <1>3 DEF FateInv, Accounted
<1>9. Typed'
  BY <1>0, <1>2, <1>3, <1>4 DEF Typed
<1> QED BY <1>4, <1>6, <1>7, <1>8, <1>9, NextParts

LEMMA CommitStep == TxnInv /\ Commit => TxnInv'
<1> SUFFICES ASSUME TxnInv, Commit PROVE TxnInv'
  OBVIOUS
<1> DEFINE p == Len(calls)
<1> DEFINE m == Top.mark
<1>0. Typed /\ CompsInv /\ CallsInv /\ FateInv /\ depth = Cardinality(Bodies)
  BY TypeParts DEF TxnInv
<1>1. /\ calls # <<>> /\ Top = calls[p] /\ Top.does = "body" /\ calls' = Beneath
      /\ LeaveBody /\ UNCHANGED <<flag, running, n, fate, signals>>
  BY DEF Commit, Doing, Top
<1>2. /\ p \in Nat /\ p \in 1..p /\ calls' \in Seq(Call) /\ Len(calls') = p - 1
      /\ \A k \in 1..(p - 1) : k \in 1..p /\ calls'[k] = calls[k]
  BY <1>0, <1>1, TopFacts DEF Typed
<1>3. /\ CallOK(p) /\ calls[p] \in Call /\ calls[p].comp = NoEffect
      /\ m \in Nat /\ m <= Len(comps)
  <2>1. CallOK(p) /\ calls[p] \in Call /\ calls[p].comp = NoEffect
    BY <1>0, <1>1, <1>2, Ranges
  <2> QED BY <2>1, <1>1 DEF CallOK, MarkOK, Call
<1>4. depth' \in Nat /\ depth' = Cardinality(Bodies')
  <2>1. p \in Bodies /\ Bodies' = Bodies \ {p}
    BY <1>1, <1>2 DEF Bodies
  <2> QED BY <2>1, <1>1, DepthDown DEF TxnInv
<1>5. CASE depth # 1
  <2>1. UNCHANGED <<comps, final>>
    <3>1. depth - 1 # 0
      BY <1>0, <1>5 DEF Typed
    <3> QED BY <3>1, <1>5 DEF Commit, Outermost
  <2>2. CompsInv' /\ CallsInv' /\ FateInv'
    BY <2>1, <1>0, <1>1, <1>2, Shrunk
  <2>3. Typed'
    BY <2>1, <1>0, <1>1, <1>2, <1>4 DEF Typed
  <2> QED BY <2>2, <2>3, <1>4, NextParts
<1>6. CASE depth = 1
  <2>1. /\ comps' = SubSeq(comps, 1, m)
        /\ final' = final \cup {comps[i] : i \in (m + 1)..Len(comps)}
    BY <1>6 DEF Commit, Outermost, Truncate
  <2> HIDE DEF m
  <2>2. /\ comps' \in Seq(Effects) /\ Len(comps') = m /\ Len(comps) \in Nat
        /\ \A k \in 1..m : k \in 1..Len(comps) /\ comps'[k] = comps[k]
    BY <2>1, <1>0, <1>3, PrefixFacts DEF Typed
  <2>3. \A e \in final' : e \in final \/ \E i \in (m + 1)..Len(comps) : e = comps[i]
    BY <2>1
  <2>4. \A i \in (m + 1)..Len(comps) : i \in 1..Len(comps) /\ comps[i] \in final'
    BY <2>1, <1>3
  <2>5. CompsInv'
    <3> SUFFICES ASSUME NEW i \in 1..m PROVE Registered(i)'
      BY <2>2 DEF CompsInv
    <3>1. Registered(i) /\ i \in 1..Len(comps) /\ comps[i] \in Nat
      BY <1>0, <2>2, Ranges
    <3>2. comps[i] \notin final'
      <4>1. \A j \in (m + 1)..Len(comps) : comps[i] < comps[j] /\ comps[j] \in Nat
        BY <3>1, <2>4, <1>0, <1>3, Ranges DEF Registered
      <4> QED BY <4>1, <3>1, <2>3 DEF Registered
    <3> QED BY <3>1, <3>2, <2>2, <1>1, <1>2 DEF Registered
  <2>6. CallsInv'
    <3> SUFFICES ASSUME NEW i \in 1..(p - 1) PROVE CallOK(i)'
      BY <1>2 DEF CallsInv
    <3>1. CallOK(i) /\ i \in 1..p /\ calls'[i] = calls[i] /\ calls[i] \in Call
      BY <1>0, <1>2, Ranges
    <3>2. calls[i].mark <= m
      BY <3>1, <1>1, <1>2 DEF CallOK, m
    <3>3. MarkOK(calls[i])'
      BY <3>1, <3>2, <2>2, <1>1 DEF CallOK, MarkOK
    <3>4. InHand(calls[i])'
      <4>1. calls[i].comp \notin final' \/ calls[i].does # "comp"
        BY <3>1, <2>3, <2>4, <1>0, Ranges DEF CallOK, InHand, Registered
      <4> QED BY <4>1, <3>1, <1>1 DEF CallOK, InHand
    <3> QED BY <3>1, <3>3, <3>4, <1>2 DEF CallOK
  <2>7. FateInv'
    <3>1. ASSUME NEW e \in 1..n PROVE Accounted(e)'
      <4>1. Accounted(e) /\ e # NoEffect
        BY <1>0 DEF FateInv, NoEffect
      <4>2. ASSUME NEW i \in 1..Len(comps), comps[i] = e PROVE Accounted(e)'
        <5>1. CASE i \in 1..m
          BY <5>1, <4>2, <2>2 DEF Accounted
        <5>2. CASE i \notin 1..m
          <6>1. i \in (m + 1)..Len(comps)
            BY <5>2, <1>3
          <6> QED BY <6>1, <4>2, <2>4 DEF Accounted
        <5> QED BY <5>1, <5>2
      <4>3. ASSUME NEW i \in 1..p, calls[i].comp = e PROVE Accounted(e)'
        <5>1. i \in 1..(p - 1)
          BY <4>1, <4>3, <1>2, <1>3
        <5> QED BY <5>1, <4>3, <1>2 DEF Accounted
      <4>4. e \in final => e \in final'
        BY <2>1
      <4> QED BY <4>1, <4>2, <4>3, <4>4, <1>1 DEF Accounted
    <3>2. ASSUME NEW e \in final' PROVE e <= n /\ fate[e] = "done"
      BY <3>2, <2>3, <2>4, <1>0, Ranges DEF FateInv, Registered
    <3> QED BY <3>1, <3>2, <1>1 DEF FateInv
  <2>8. final' \subseteq Effects
    BY <2>3, <2>4, <1>0 DEF Typed
  <2>9. Typed'
    BY <2>2, <2>8, <1>0, <1>1, <1>2, <1>4 DEF Typed
  <2> QED BY <2>5, <2>6, <2>7, <2>9, <1>4, NextParts
<1> QED BY <1>5, <1>6

LEMMA PopStep == TxnInv /\ Pop => TxnInv'
<1> SUFFICES ASSUME TxnInv, Pop PROVE TxnInv'
  OBVIOUS
<1> DEFINE p == Len(calls)
<1> DEFINE m == Len(comps)
<1> DEFINE d == comps[m]
<1>0. Typed /\ CompsInv /\ CallsInv /\ FateInv /\ depth = Cardinality(Bodies)
  BY TypeParts DEF TxnInv
<1>1. /\ calls # <<>> /\ Top = calls[p] /\ Top.does = "pop" /\ m > Top.mark
      /\ comps' = SubSeq(comps, 1, m - 1)
      /\ calls' = Append(Beneath, [Top EXCEPT !.does = "comp", !.comp = d])
      /\ UNCHANGED <<depth, flag, running, n, fate, final, signals>>
  BY DEF Pop, PopLast, Doing, OnTop, past, Top
<1>2. Top \in Call /\ Top.mark \in Nat /\ m \in Nat /\ m \in 1..m /\ comps # <<>>
  BY <1>0, <1>1, TopFacts DEF Typed, Call
<1>3. /\ d \in Effects /\ d \in Nat /\ d <= n /\ Registered(m) /\ d # NoEffect
      /\ \A k \in 1..(m - 1) : k \in 1..m /\ comps[k] < d /\ comps[k] \in Nat
  <2>1. d \in Effects /\ d \in Nat /\ d <= n /\ Registered(m) /\ d # NoEffect
    BY <1>0, <1>2, Ranges
  <2>2. ASSUME NEW k \in 1..(m - 1)
        PROVE  k \in 1..m /\ comps[k] < d /\ comps[k] \in Nat
    <3>1. k \in 1..m /\ m \in 1..m /\ k < m
      BY <1>2
    <3> QED BY <3>1, <1>0, Ranges DEF Registered
  <2> QED BY <2>1, <2>2
<1>4. /\ comps' \in Seq(Effects) /\ Len(comps') = m - 1
      /\ \A k \in 1..(m - 1) : comps'[k] = comps[k]
  BY <1>0, <1>1, <1>2, FrontFacts DEF Typed
<1> DEFINE x == [Top EXCEPT !.does = "comp", !.comp = d]
<1>5. /\ x \in Call /\ x.mark = Top.mark /\ x.since = Top.since /\ x.comp = d
      /\ x.does = "comp"
  BY <1>2, <1>3 DEF Call
<1>6. /\ p \in Nat /\ p \in 1..p /\ calls' \in Seq(Call) /\ Len(calls') = p /\ calls'[p] = x
      /\ \A k \in 1..p : k # p => calls'[k] = calls[k]
  <2> HIDE DEF x
  <2>1. calls' = Append(SubSeq(calls, 1, p - 1), x)
    BY <1>1 DEF Beneath, x
  <2> QED BY <2>1, <1>0, <1>1, <1>5, ReplaceFacts DEF Typed
<1> HIDE DEF x, d, m
<1>7. \A i \in 1..p : CallOK(i) /\ calls[i] \in Call /\ calls[i].comp <= n
  BY <1>0, Ranges
<1>8. CompsInv'
  <2> SUFFICES ASSUME NEW i \in 1..(m - 1) PROVE Registered(i)'
    BY <1>4 DEF CompsInv
  <2>1. i \in 1..m /\ Registered(i) /\ comps'[i] = comps[i] /\ comps[i] # d
    BY <1>0, <1>3, <1>4, Ranges DEF m
  <2>2. \A j \in 1..p : calls'[j].comp # comps[i]
    <3> TAKE j \in 1..p
    <3>1. CASE j = p
      BY <3>1, <2>1, <1>5, <1>6
    <3>2. CASE j # p
      BY <3>2, <2>1, <1>6 DEF Registered
    <3> QED BY <3>1, <3>2
  <2>3. \A j \in 1..(m - 1) : i < j => comps'[i] < comps'[j]
    BY <2>1, <1>3, <1>4 DEF Registered, m
  <2> QED BY <2>1, <2>2, <2>3, <1>1, <1>4, <1>6 DEF Registered
<1>9. CallsInv'
  <2> SUFFICES ASSUME NEW i \in 1..p PROVE CallOK(i)'
    BY <1>6 DEF CallsInv
  <2>1. /\ calls'[i].mark = calls[i].mark /\ calls'[i].since = calls[i].since
        /\ calls[i].mark <= Top.mark /\ calls[i].mark \in Nat
        /\ i # p => calls'[i] = calls[i]
    <3>1. calls[i].mark \in Nat
      BY <1>7 DEF Call
    <3>2. CASE i = p
      BY <3>1, <3>2, <1>1, <1>2, <1>5, <1>6
    <3>3. CASE i # p
      <4>1. calls[i].mark <= calls[p].mark
        BY <3>3, <1>6, <1>7 DEF CallOK
      <4> QED BY <3>1, <3>3, <4>1, <1>1, <1>6
    <3> QED BY <3>2, <3>3
  <2>2. MarkOK(calls[i])'
    <3>1. calls[i].mark <= m - 1
      BY <2>1, <1>1, <1>2 DEF m
    <3> QED BY <3>1, <2>1, <1>1, <1>3, <1>4, <1>7 DEF CallOK, MarkOK, m
  <2>3. InHand(calls[i])'
    <3>1. CASE i = p
      <4>1. d > Top.since
        BY <1>1, <1>2, <1>6, <1>7 DEF CallOK, MarkOK, d, m
      <4> QED BY <4>1, <3>1, <1>1, <1>3, <1>5, <1>6 DEF InHand, Registered, d
    <3>2. CASE i # p
      BY <3>2, <2>1, <1>1, <1>7 DEF CallOK, InHand
    <3> QED BY <3>1, <3>2
  <2>4. \A j \in 1..p : i < j => /\ calls'[i].mark <= calls'[j].mark
                                /\ calls'[i].comp <= calls'[j].since
    <3> TAKE j \in 1..p
    <3> HAVE i < j
    <3>1. calls'[j].mark = calls[j].mark /\ calls'[j].since = calls[j].since
      BY <1>1, <1>5, <1>6
    <3>2. i # p
      BY <1>6
    <3> QED BY <3>1, <3>2, <2>1, <1>7 DEF CallOK
  <2>5. /\ calls'[i].does = "pop" => i = p
        /\ calls'[i].does = "body" => ~calls'[i].fatal
    BY <2>1, <1>5, <1>6, <1>7 DEF CallOK
  <2> QED BY <2>2, <2>3, <2>4, <2>5, <1>6 DEF CallOK
<1>10. FateInv'
  <2>1. ASSUME NEW e \in 1..n PROVE Accounted(e)'
    <3>1. Accounted(e) /\ e # NoEffect
      BY <1>0 DEF FateInv, NoEffect
    <3>2. ASSUME NEW i \in 1..m, comps[i] = e PROVE Accounted(e)'
      <4>1. CASE i = m
        BY <4>1, <3>2, <1>5, <1>6 DEF Accounted, d
      <4>2. CASE i # m
        BY <4>2, <3>2, <1>2, <1>4 DEF Accounted, m
      <4> QED BY <4>1, <4>2
    <3>3. ASSUME NEW i \in 1..p, calls[i].comp = e PROVE Accounted(e)'
      <4>1. i # p
        BY <3>1, <3>3, <1>0, <1>1, Ranges
      <4> QED BY <4>1, <3>3, <1>6 DEF Accounted
    <3> QED BY <3>1, <3>2, <3>3, <1>1 DEF Accounted, m
  <2> QED BY <2>1, <1>0, <1>1 DEF FateInv
<1>11. Bodies' = Bodies
  <2>1. \A i : i \in Bodies' <=> i \in Bodies
    BY <1>1, <1>5, <1>6 DEF Bodies
  <2> QED BY <2>1
<1>12. Typed'
  BY <1>0, <1>1, <1>4, <1>6 DEF Typed
<1> QED BY <1>0, <1>1, <1>8, <1>9, <1>10, <1>11, <1>12, NextParts

LEMMA UndoneStep == TxnInv /\ Undone => TxnInv'
<1> SUFFICES ASSUME TxnInv, Undone PROVE TxnInv'
  OBVIOUS
<1> DEFINE p == Len(calls)
<1> DEFINE x == [Top EXCEPT !.does = "pop", !.comp = NoEffect]
<1>0. Typed /\ CompsInv /\ CallsInv /\ FateInv /\ depth = Cardinality(Bodies)
  BY TypeParts DEF TxnInv
<1>1. /\ calls # <<>> /\ Top = calls[p] /\ Top.does = "comp"
      /\ calls' = Append(SubSeq(calls, 1, p - 1), x)
      /\ UNCHANGED <<comps, depth, flag, running, n, final, signals>>
  BY DEF Undone, Doing, OnTop, Beneath, Top
<1>2. PICK how \in Settled : fate' = [fate EXCEPT ![calls[p].comp] = how]
  BY <1>1 DEF Undone, Settled
<1>3. /\ x \in Call /\ x.mark = Top.mark /\ x.since = Top.since /\ x.comp = NoEffect
      /\ x.does = "pop"
  BY <1>0, <1>1, TopFacts DEF Typed, Call, NoEffect
<1> HIDE DEF x
<1>4. /\ p \in Nat /\ p \in 1..p /\ calls' \in Seq(Call) /\ Len(calls') = p /\ calls'[p] = x
      /\ \A k \in 1..(p - 1) : calls'[k] = calls[k]
  <2>1. PICK cs \in Seq(Call) : cs = calls /\ cs # <<>>
    BY <1>0, <1>1 DEF Typed
  <2>2. PICK y \in Call : y = x
    BY <1>3
  <2>3. calls' = Append(SubSeq(cs, 1, Len(cs) - 1), y) /\ Len(cs) \in 1..Len(cs)
    BY <1>1, <2>1, <2>2
  <2> QED BY <2>1, <2>2, <2>3, ReplaceFacts
<1>5. CompsInv' /\ CallsInv' /\ FateInv'
  <2>1. \A i \in 1..p : i > p => calls[i].does # "comp"
    BY <1>4
  <2>2. /\ calls[p].does = "comp" /\ calls'[p].mark = calls[p].mark
        /\ calls'[p].since = calls[p].since /\ calls'[p].comp = NoEffect
        /\ calls'[p].does = "pop" /\ UNCHANGED <<comps, n, final>>
    BY <1>1, <1>3, <1>4
  <2> QED BY <2>1, <2>2, <1>0, <1>2, <1>4, Ended
<1>6. Bodies' = Bodies
  <2>1. \A i : i \in Bodies' <=> i \in Bodies
    BY <1>1, <1>3, <1>4 DEF Bodies
  <2> QED BY <2>1
<1>7. Typed'
  BY <1>0, <1>1, <1>2, <1>4 DEF Typed
<1> QED BY <1>0, <1>1, <1>5, <1>6, <1>7, NextParts

LEMMA ReRaiseStep == TxnInv /\ ReRaise => TxnInv'
<1> SUFFICES ASSUME TxnInv, ReRaise PROVE TxnInv'
  OBVIOUS
<1> DEFINE p == Len(calls)
<1>0. Typed /\ CompsInv /\ CallsInv /\ FateInv /\ depth = Cardinality(Bodies)
  BY TypeParts DEF TxnInv
<1>1. /\ calls # <<>> /\ Top.does = "pop" /\ Top = calls[p]
      /\ UNCHANGED <<comps, flag, n, final, signals>>
  BY DEF ReRaise, Doing, Top
<1>2. /\ p \in Nat /\ p \in 1..p /\ Beneath \in Seq(Call) /\ Len(Beneath) = p - 1
      /\ \A k \in 1..(p - 1) : k \in 1..p /\ Beneath[k] = calls[k]
      /\ Top.fatal \in BOOLEAN
  <2>1. Top \in Call
    BY <1>0, <1>1, TopFacts DEF Typed
  <2>2. Top.fatal \in BOOLEAN
    BY <2>1 DEF Call
  <2> QED BY <2>2, <1>0, <1>1, TopFacts DEF Typed
<1>3. \A i \in 1..p : i > Len(Beneath) => calls[i].does = "pop"
  BY <1>1, <1>2
<1>4. CASE Raise(Beneath, Top.fatal)
  <2>1. PICK cs \in Seq(Call), f \in BOOLEAN : cs = Beneath /\ f = Top.fatal
    BY <1>2
  <2>2. /\ Len(cs) <= p /\ \A i \in 1..Len(cs) : cs[i] = calls[i]
        /\ \A i \in 1..p : i > Len(cs) => calls[i].does = "pop"
        /\ Raise(cs, f) /\ flag' \in BOOLEAN
    BY <2>1, <1>0, <1>1, <1>2, <1>3, <1>4 DEF Typed
  <2> QED BY <2>2, <1>1, RaiseStep
<1>5. CASE calls' = Beneath /\ UNCHANGED <<depth, running, fate>>
  <2>1. CompsInv' /\ CallsInv' /\ FateInv'
    BY <1>0, <1>1, <1>2, <1>3, <1>5, Shrunk
  <2>2. Bodies' = Bodies
    <3>1. \A i : i \in Bodies' <=> i \in Bodies
      BY <1>1, <1>2, <1>5 DEF Bodies
    <3> QED BY <3>1
  <2>3. Typed'
    BY <1>0, <1>1, <1>2, <1>5 DEF Typed
  <2> QED BY <2>1, <2>2, <2>3, <1>0, <1>5, NextParts
<1> QED BY <1>4, <1>5 DEF ReRaise

\* Where the error starts: in the innermost call.
LEMMA FailStep == TxnInv /\ (Throw \/ Terminate) => TxnInv'
<1> SUFFICES ASSUME TxnInv, NEW f \in BOOLEAN, Raise(calls, f), InScript,
                    UNCHANGED <<comps, n, final, signals>>, flag' \in BOOLEAN
             PROVE  TxnInv'
  BY DEF Throw, Terminate, Polled, Consume, TxnInv, TypeOK
<1>1. PICK cs \in Seq(Call) : cs = calls
  BY DEF TxnInv, TypeOK
<1>2. /\ Len(cs) <= Len(calls) /\ \A i \in 1..Len(cs) : cs[i] = calls[i]
      /\ \A i \in 1..Len(calls) : i > Len(cs) => calls[i].does = "pop"
      /\ Raise(cs, f)
  BY <1>1
<1> QED BY <1>2, RaiseStep

\* Nothing but the flag and the process changes.
LEMMA FrameStep ==
  ASSUME TxnInv, UNCHANGED <<stack, n, fate, final>>,
         flag' \in BOOLEAN, running' \in BOOLEAN, signals' \in Nat
  PROVE  TxnInv'
<1>1. UNCHANGED <<comps, depth, calls, n, fate, final>>
  BY DEF stack
<1>2. TypeOK'
  BY <1>1 DEF TxnInv, TypeOK, Bodies
<1>3. CompsInv'
  BY <1>1 DEF TxnInv, CompsInv, Registered
<1>4. CallsInv'
  <2>1. CallsInv
    BY DEF TxnInv
  <2> QED BY <1>1, <2>1 DEF CallsInv, CallOK, MarkOK, InHand
<1>5. FateInv'
  <2>1. FateInv
    BY DEF TxnInv
  <2> QED BY <1>1, <2>1 DEF FateInv, Accounted
<1> QED BY <1>2, <1>3, <1>4, <1>5 DEF TxnInv

LEMMA StepTxn == TxnInv /\ [Next]_vars => TxnInv'
<1> SUFFICES ASSUME TxnInv, [Next]_vars PROVE TxnInv'
  OBVIOUS
<1>1. flag \in BOOLEAN /\ running \in BOOLEAN /\ signals \in Nat
  BY DEF TxnInv, TypeOK
<1>2. CASE Signal
  BY <1>1, <1>2, FrameStep DEF Signal
<1>3. CASE Exit
  BY <1>1, <1>3, FrameStep DEF Exit, past
<1>4. CASE UNCHANGED vars
  BY <1>1, <1>4, FrameStep DEF vars, past
<1> QED BY <1>2, <1>3, <1>4, OnRollbackStep, EnterStep, CommitStep, FailStep, PopStep,
           UndoneStep, ReRaiseStep DEF Next

LEMMA InitTxn == Init => TxnInv
<1> SUFFICES ASSUME Init PROVE TxnInv
  OBVIOUS
<1>1. Bodies = {} /\ Cardinality({}) = 0
  BY FS_EmptySet DEF Init, Bodies
<1>2. Typed
  <2>1. n \in 0..MaxEffects /\ depth \in Nat /\ signals \in Nat
    BY BoundsAssumed DEF Init
  <2>2. comps \in Seq(Effects) /\ calls \in Seq(Call)
    BY DEF Init
  <2>3. fate \in [Effects -> {"none", "done"} \cup Settled]
    BY DEF Init
  <2> QED BY <2>1, <2>2, <2>3 DEF Init, Typed
<1>3. CompsInv /\ CallsInv /\ FateInv
  BY DEF Init, CompsInv, CallsInv, FateInv
<1>4. depth = Cardinality(Bodies)
  BY <1>1 DEF Init
<1> QED BY <1>2, <1>3, <1>4, TypeParts DEF TxnInv
-----------------------------------------------------------------------------
\* The inductive invariant holds in every reachable state.
THEOREM TransactionInvariance == Spec => []TxnInv
BY InitTxn, StepTxn, PTL DEF Spec

\* Every variable keeps its type, and depth is the number of bodies on the call
\* stack: in_transaction() tells the truth (transaction.rs 30-34).
THEOREM TypeCorrect == Spec => []TypeOK
<1>1. TxnInv => TypeOK
  BY DEF TxnInv
<1> QED BY <1>1, TransactionInvariance, PTL

\* What an outermost commit has made final is never compensated
\* (transaction.rs 57-66), by no program of any nesting.
THEOREM CommittedStays == Spec => []FinalStays
<1>1. TxnInv => FinalStays
  <2> SUFFICES ASSUME TxnInv, NEW e \in final
               PROVE  fate[e] = "done" /\ \A i \in 1..Len(calls) : calls[i].comp # e
    BY DEF FinalStays
  <2>1. Typed /\ CompsInv /\ CallsInv /\ FateInv /\ e \in Effects
    BY TypeParts DEF TxnInv, Typed
  <2>2. \A i \in 1..Len(calls) : calls[i].comp # e
    <3> TAKE i \in 1..Len(calls)
    <3>1. /\ CallOK(i) /\ e # NoEffect
          /\ calls[i].does # "comp" => calls[i].comp = NoEffect
      BY <2>1, Ranges
    <3> QED BY <3>1 DEF CallOK, InHand
  <2> QED BY <2>1, <2>2 DEF FateInv
<1> QED BY <1>1, TransactionInvariance, PTL

\* Only the unwind itself moves a call that pops.
LEMMA WhilePopping ==
  ASSUME [Next]_vars, Doing("pop")
  PROVE  Pop \/ ReRaise \/ calls' = calls
BY DEF Next, vars, stack, OnRollback, Enter, Commit, Throw, Terminate, Undone, Signal, Exit,
       Polled, InScript

\* A re-raised error leaves fewer calls than it found.
LEMMA ReRaiseShrinks ==
  ASSUME TypeOK, ReRaise
  PROVE  Len(calls') < Len(calls) /\ Len(comps) <= Top.mark
<1>1. calls # <<>> /\ calls \in Seq(Call) /\ Len(comps) <= Top.mark
  BY DEF ReRaise, Doing, TypeOK
<1>2. /\ Beneath \in Seq(Call) /\ Len(Beneath) = Len(calls) - 1 /\ Len(calls) \in Nat
      /\ \A k \in 1..Len(Beneath) : Beneath[k] \in Call
  BY <1>1, TopFacts
<1>3. CASE Raise(Beneath, Top.fatal)
  <2>1. PICK cs \in Seq(Call) : cs = Beneath
    BY <1>2
  <2>2. CASE cs = <<>> /\ calls' = cs
    BY <2>1, <2>2, <1>1, <1>2
  <2>3. CASE cs # <<>> /\ \E x : calls' = Append(SubSeq(cs, 1, Len(cs) - 1), x)
    <3>1. Len(SubSeq(cs, 1, Len(cs) - 1)) = Len(cs) - 1
          /\ SubSeq(cs, 1, Len(cs) - 1) \in Seq(Call)
      BY <2>3, FrontFacts
    <3>2. Len(calls') = Len(cs)
      BY <2>3, <3>1
    <3> QED BY <3>2, <2>1, <1>1, <1>2
  <2>4. Len(calls') < Len(calls)
    BY <2>1, <2>2, <2>3, <1>3 DEF Raise
  <2> QED BY <2>4 DEF ReRaise
<1>4. CASE calls' = Beneath
  BY <1>2, <1>4 DEF ReRaise
<1> QED BY <1>3, <1>4 DEF ReRaise

\* When an unwind is over and its error raised again, every effect since its
\* transaction began is settled or final (transaction.rs 67-104).
THEOREM AllOrNothing == Spec => FailureUndoesAll
<1>1. TxnInv /\ [Next]_vars =>
        (Doing("pop") /\ Len(calls') < Len(calls) =>
           \A e \in (Top.since + 1)..n : fate[e] \in Settled \/ e \in final)
  <2> SUFFICES ASSUME TxnInv, [Next]_vars, Doing("pop"), Len(calls') < Len(calls),
                      NEW e \in (Top.since + 1)..n
               PROVE  fate[e] \in Settled \/ e \in final
    OBVIOUS
  <2> DEFINE p == Len(calls)
  <2>0. /\ Typed /\ CompsInv /\ CallsInv /\ FateInv
        /\ calls # <<>> /\ calls[p].does = "pop" /\ Top = calls[p]
    BY TypeParts DEF TxnInv, Doing, Top
  <2>1. p \in 1..p /\ p \in Nat /\ Top \in Call /\ Top.since \in Nat /\ Top.mark \in Nat
    <3>1. calls \in Seq(Call)
      BY <2>0 DEF Typed
    <3>2. Top \in Call /\ p \in 1..p
      BY <2>0, <3>1, TopFacts
    <3> QED BY <3>1, <3>2 DEF Call
  <2>2. Len(comps) <= Top.mark
    <3>1. ~(calls' = calls)
      BY <2>1
    <3>2. ~Pop
      <4>1. ASSUME Pop PROVE Len(calls') = p
        <5>1. \E x : calls' = Append(SubSeq(calls, 1, p - 1), x)
          BY <4>1 DEF Pop, OnTop, Beneath
        <5>2. /\ SubSeq(calls, 1, p - 1) \in Seq(Call)
              /\ Len(SubSeq(calls, 1, p - 1)) = p - 1
          BY <2>0, FrontFacts DEF Typed
        <5> QED BY <5>1, <5>2, <2>1
      <4> QED BY <4>1, <2>1
    <3>3. ReRaise
      BY <3>1, <3>2, WhilePopping
    <3> QED BY <3>3, ReRaiseShrinks DEF TxnInv
  <2>3. e \in 1..n /\ e > Top.since /\ e # NoEffect /\ e \in Nat
    BY <2>0, <2>1 DEF Typed, NoEffect
  <2>4. Accounted(e)
    BY <2>0, <2>3 DEF FateInv
  <2>5. \A i \in 1..Len(comps) : comps[i] # e
    <3> TAKE i \in 1..Len(comps)
    <3>1. ~(i > Top.mark) /\ comps[i] \in Nat
      BY <2>0, <2>1, <2>2, Ranges
    <3>2. ~(comps[i] > Top.since)
      BY <3>1, <2>0, <2>1, Ranges DEF CallOK, MarkOK
    <3> QED BY <3>1, <3>2, <2>3
  <2>6. \A i \in 1..p : calls[i].comp # e
    <3> TAKE i \in 1..p
    <3>1. CASE i = p
      BY <3>1, <2>0, <2>1, <2>3, Ranges
    <3>2. CASE i # p
      <4>1. i < p /\ CallOK(i) /\ calls[i] \in Call
        BY <3>2, <2>0, <2>1, Ranges
      <4>2. calls[i].comp <= Top.since /\ calls[i].comp \in Nat
        BY <4>1, <2>0, <2>1 DEF CallOK, Call
      <4> QED BY <4>2, <2>1, <2>3
    <3> QED BY <3>1, <3>2
  <2> QED BY <2>4, <2>5, <2>6 DEF Accounted
<1> QED BY <1>1, TransactionInvariance, PTL DEF Spec, FailureUndoesAll

\* A compensation only starts when every effect registered after its own is
\* settled or final (transaction.rs 71-88).
THEOREM LastInFirstOut == Spec => NewestFirst
<1>1. TxnInv /\ [Next]_vars =>
        (Doing("pop") /\ calls' # calls /\ Len(calls') = Len(calls) =>
           \A e \in (calls'[Len(calls)].comp + 1)..n : fate[e] \in Settled \/ e \in final)
  <2> SUFFICES ASSUME TxnInv, [Next]_vars, Doing("pop"), calls' # calls,
                      Len(calls') = Len(calls), NEW e \in (calls'[Len(calls)].comp + 1)..n
               PROVE  fate[e] \in Settled \/ e \in final
    OBVIOUS
  <2> DEFINE p == Len(calls)
  <2> DEFINE m == Len(comps)
  <2>0. /\ Typed /\ CompsInv /\ CallsInv /\ FateInv
        /\ calls # <<>> /\ calls[p].does = "pop" /\ Top = calls[p]
    BY TypeParts DEF TxnInv, Doing, Top
  <2>1. p \in 1..p /\ p \in Nat /\ Top \in Call /\ Top.since \in Nat /\ Top.mark \in Nat
    BY <2>0, TopFacts, SMTT(30) DEF Typed, Call
  <2>2. Pop
    <3>1. ~ReRaise
      BY <2>1, ReRaiseShrinks DEF TxnInv
    <3> QED BY <3>1, WhilePopping
  <2>3. m > Top.mark /\ m \in 1..m /\ m \in Nat
    BY <2>0, <2>1, <2>2 DEF Pop, Typed
  <2>4. calls'[p].comp = comps[m]
    <3>1. \E x : /\ x = [Top EXCEPT !.does = "comp", !.comp = comps[m]]
                 /\ calls' = Append(SubSeq(calls, 1, p - 1), x)
      BY <2>2 DEF Pop, PopLast, OnTop, Beneath
    <3>2. PICK x : /\ x = [Top EXCEPT !.does = "comp", !.comp = comps[m]]
                   /\ calls' = Append(SubSeq(calls, 1, p - 1), x)
      BY <3>1
    <3>3. comps[m] \in Nat
      BY <2>0, <2>3, Ranges
    <3>4. x \in Call /\ x.comp = comps[m]
      BY <3>2, <3>3, <2>1 DEF Call
    <3>5. calls'[p] = x
      BY <3>2, <3>4, <2>0, ReplaceFacts DEF Typed
    <3> QED BY <3>4, <3>5
  <2>5. /\ comps[m] \in Nat /\ comps[m] > Top.since /\ e > comps[m]
        /\ e \in 1..n /\ e \in Nat /\ e # NoEffect
    <3>1. comps[m] \in Nat /\ comps[m] > Top.since /\ n \in Nat
      BY <2>0, <2>1, <2>3, Ranges DEF CallOK, MarkOK
    <3> QED BY <3>1, <2>4, <2>1 DEF NoEffect
  <2>6. Accounted(e)
    BY <2>0, <2>5 DEF FateInv
  <2>7. \A i \in 1..m : comps[i] # e
    <3> TAKE i \in 1..m
    <3>1. Registered(i) /\ comps[i] \in Nat /\ (i = m \/ i < m)
      BY <2>0, <2>3, Ranges
    <3>2. comps[i] <= comps[m]
      BY <3>1, <2>3, <2>5 DEF Registered
    <3> QED BY <3>1, <3>2, <2>5
  <2>8. \A i \in 1..p : calls[i].comp # e
    <3> TAKE i \in 1..p
    <3>1. CASE i = p
      BY <3>1, <2>0, <2>1, <2>5, Ranges
    <3>2. CASE i # p
      <4>1. i < p /\ CallOK(i) /\ calls[i] \in Call
        BY <3>2, <2>0, <2>1, Ranges
      <4>2. calls[i].comp <= Top.since /\ calls[i].comp \in Nat
        BY <4>1, <2>0, <2>1 DEF CallOK, Call
      <4> QED BY <4>2, <2>1, <2>5
    <3> QED BY <3>1, <3>2
  <2> QED BY <2>6, <2>7, <2>8 DEF Accounted
<1> QED BY <1>1, TransactionInvariance, PTL DEF Spec, NewestFirst
-----------------------------------------------------------------------------
(* A signal costs at most one compensation.                                 *)

LEMMA Counting ==
  ASSUME NEW S, NEW T, NEW x, IsFiniteSet(S), T \subseteq S \cup {x}
  PROVE  /\ IsFiniteSet(T) /\ Cardinality(S) \in Nat /\ Cardinality(T) \in Nat
         /\ Cardinality(T) <= Cardinality(S) + 1
         /\ T \subseteq S => Cardinality(T) <= Cardinality(S)
<1> DEFINE U == S \cup {x}
<1>1. /\ IsFiniteSet(U) /\ Cardinality(S) \in Nat
      /\ Cardinality(U) = IF x \in S THEN Cardinality(S) ELSE Cardinality(S) + 1
  BY FS_AddElement, FS_CardinalityType
<1>2. Cardinality(U) <= Cardinality(S) + 1 /\ Cardinality(U) \in Nat
  BY <1>1
<1> HIDE DEF U
<1>3. T \in SUBSET U
  BY DEF U
<1>4. IsFiniteSet(T) /\ Cardinality(T) <= Cardinality(U) /\ Cardinality(T) \in Nat
  BY <1>1, <1>3, FS_Subset, FS_CardinalityType
<1>5. T \in SUBSET S => Cardinality(T) <= Cardinality(S)
  BY FS_Subset
<1> QED BY <1>1, <1>2, <1>4, <1>5

LEMMA CutFinite ==
  ASSUME TypeOK
  PROVE  IsFiniteSet(Cut) /\ IsFiniteSet(Carried)
<1>1. IsFiniteSet(Effects) /\ IsFiniteSet(1..Len(calls))
  BY BoundsAssumed, FS_Interval DEF Effects, TypeOK
<1>2. Cut \in SUBSET Effects /\ Carried \in SUBSET (1..Len(calls))
  BY DEF Cut, Carried
<1> QED BY <1>1, <1>2, FS_Subset

\* No compensation is cut, no error carried further.
LEMMA CutFrame ==
  ASSUME TypeOK, CutInv, Cut' \subseteq Cut, Carried' \subseteq Carried,
         flag' = flag, signals' = signals
  PROVE  CutInv'
<1>1. IsFiniteSet(Cut) /\ IsFiniteSet(Carried)
  BY CutFinite
<1>2. /\ Cardinality(Cut) \in Nat /\ Cardinality(Cut') \in Nat
      /\ Cardinality(Cut') <= Cardinality(Cut)
      /\ Cardinality(Carried) \in Nat /\ Cardinality(Carried') \in Nat
      /\ Cardinality(Carried') <= Cardinality(Carried)
  BY <1>1, Counting
<1> DEFINE bit == IF flag THEN 1 ELSE 0
<1>3. /\ bit \in Nat /\ signals \in Nat
      /\ Cardinality(Cut) + Cardinality(Carried) + bit <= signals
  BY DEF TypeOK, CutInv
<1>4. CutInv' <=> Cardinality(Cut') + Cardinality(Carried') + bit <= signals
  BY DEF CutInv
<1> HIDE DEF bit
<1> QED BY <1>2, <1>3, <1>4

KeptTo(p) == {i \in Carried : i <= p}

\* An error that starts or goes on is carried by one call or cuts one
\* compensation, if it is a signal's; neither, if it is not.
LEMMA RaiseCut ==
  ASSUME TypeOK, NEW cs \in Seq(Call), NEW fatal \in BOOLEAN,
         Len(cs) <= Len(calls), \A i \in 1..Len(cs) : cs[i] = calls[i],
         Raise(cs, fatal)
  PROVE  /\ \E x : \/ Cut' \subseteq Cut /\ Carried' \subseteq KeptTo(Len(cs)) \cup {x}
                   \/ Cut' \subseteq Cut \cup {x} /\ Carried' \subseteq KeptTo(Len(cs))
         /\ ~fatal => Cut' \subseteq Cut /\ Carried' \subseteq KeptTo(Len(cs))
<1> DEFINE p == Len(cs)
<1> DEFINE c == cs[Len(cs)]
<1>0. /\ p \in Nat /\ Len(calls) \in Nat
      /\ \A i \in 1..p : i \in 1..Len(calls) /\ calls[i] \in Call
  BY DEF TypeOK
<1>1. CASE cs = <<>> /\ calls' = cs /\ UNCHANGED fate
  <2>1. Cut' \subseteq Cut /\ Carried' = {}
    BY <1>1 DEF Cut, Carried
  <2> QED BY <2>1
<1>2. CASE /\ cs # <<>> /\ UNCHANGED fate
           /\ calls' = Append(SubSeq(cs, 1, p - 1), [c EXCEPT !.does = "pop", !.fatal = fatal])
  <2> DEFINE x == [c EXCEPT !.does = "pop", !.fatal = fatal]
  <2>0. c \in Call /\ p \in 1..p
    BY <1>2
  <2>1. c \in Call /\ p \in 1..p /\ x \in Call /\ x.fatal = fatal
    BY <2>0 DEF Call
  <2> HIDE DEF x
  <2>2. /\ Len(calls') = p /\ calls'[p] = x
        /\ \A i \in 1..(p - 1) : calls'[i] = cs[i]
    BY <1>2, <2>1, ReplaceFacts DEF x
  <2>3. Cut' \subseteq Cut
    BY <1>2 DEF Cut
  <2>4. \A i \in Carried' : i \in KeptTo(p) \/ (i = p /\ fatal)
    BY <1>0, <2>1, <2>2 DEF Carried, KeptTo
  <2>5. Carried' \subseteq KeptTo(p) \cup {p} /\ (~fatal => Carried' \subseteq KeptTo(p))
    BY <2>4
  <2> QED BY <2>3, <2>5
<1>3. CASE /\ cs # <<>>
           /\ calls' = Append(SubSeq(cs, 1, p - 1), [c EXCEPT !.does = "pop", !.comp = NoEffect])
           /\ fate' = [fate EXCEPT ![c.comp] = IF fatal THEN "cut" ELSE "stuck"]
  <2> DEFINE x == [c EXCEPT !.does = "pop", !.comp = NoEffect]
  <2>0. c \in Call /\ p \in 1..p
    BY <1>3
  <2>1. c \in Call /\ p \in 1..p /\ x \in Call /\ x.fatal = c.fatal
    BY <2>0 DEF Call, NoEffect
  <2> HIDE DEF x
  <2>2. /\ Len(calls') = p /\ calls'[p] = x
        /\ \A i \in 1..(p - 1) : calls'[i] = cs[i]
    BY <1>3, <2>1, ReplaceFacts DEF x
  <2>3. \A e \in Cut' : e \in Cut \/ (e = c.comp /\ fatal)
    BY <1>3 DEF Cut, TypeOK
  <2>4. \A i \in Carried' : i \in KeptTo(p)
    BY <1>0, <2>1, <2>2 DEF Carried, KeptTo
  <2>5. Cut' \subseteq Cut \cup {c.comp} /\ (~fatal => Cut' \subseteq Cut)
    BY <2>3
  <2>6. Carried' \subseteq KeptTo(p)
    BY <2>4
  <2> QED BY <2>5, <2>6
<1> QED BY <1>1, <1>2, <1>3 DEF Raise

LEMMA StepCut == TxnInv /\ CutInv /\ [Next]_vars => CutInv'
<1> SUFFICES ASSUME TxnInv, CutInv, [Next]_vars PROVE CutInv'
  OBVIOUS
<1>0. /\ TypeOK /\ IsFiniteSet(Cut) /\ IsFiniteSet(Carried) /\ signals \in Nat
      /\ calls \in Seq(Call) /\ Len(calls) \in Nat
  BY CutFinite DEF TxnInv, TypeOK
<1>1. CASE OnRollback
  <2>1. Cut' \subseteq Cut /\ Carried' \subseteq Carried
    BY <1>0, <1>1 DEF OnRollback, Cut, Carried, TypeOK
  <2> QED BY <2>1, <1>0, <1>1, CutFrame DEF OnRollback
<1>2. CASE Enter
  <2>1. \E x \in Call : calls' = Append(calls, x) /\ ~x.fatal
    <3>1. [mark |-> Len(comps), does |-> "body", comp |-> NoEffect,
           fatal |-> FALSE, since |-> n] \in Call
      BY <1>0 DEF TypeOK, Call, NoEffect
    <3> QED BY <3>1, <1>2 DEF Enter
  <2>2. Carried' \subseteq Carried
    BY <2>1, <1>0 DEF Carried
  <2>3. Cut' \subseteq Cut /\ flag' = flag /\ signals' = signals
    BY <1>2 DEF Enter, past, Cut
  <2> QED BY <2>2, <2>3, <1>0, CutFrame
<1>3. CASE Commit
  <2>1. calls # <<>> /\ calls' = Beneath
    BY <1>3 DEF Commit, Doing
  <2>2. Carried' \subseteq Carried
    BY <2>1, <1>0, TopFacts DEF Carried
  <2>3. Cut' \subseteq Cut /\ flag' = flag /\ signals' = signals
    BY <1>3 DEF Commit, Cut
  <2> QED BY <2>2, <2>3, <1>0, CutFrame
<1>4. CASE Pop \/ Undone
  <2>1. calls # <<>>
    BY <1>4 DEF Pop, Undone, Doing
  <2>2. PICK x : calls' = Append(SubSeq(calls, 1, Len(calls) - 1), x) /\ x.fatal = Top.fatal
                 /\ x \in Call
    <3>1. Top \in Call
      BY <2>1, <1>0, TopFacts
    <3>2. CASE Pop
      <4>1. comps[Len(comps)] \in Nat
        <5>1. comps \in Seq(Effects) /\ Len(comps) > Top.mark /\ Top.mark \in Nat
          BY <3>1, <3>2, <1>0 DEF Pop, TypeOK, Call
        <5>2. comps[Len(comps)] \in Effects
          BY <5>1
        <5> QED BY <5>2, BoundsAssumed DEF Effects
      <4>2. [Top EXCEPT !.does = "comp", !.comp = comps[Len(comps)]] \in Call
            /\ [Top EXCEPT !.does = "comp", !.comp = comps[Len(comps)]].fatal = Top.fatal
        BY <3>1, <4>1 DEF Call
      <4> QED BY <3>2, <4>2 DEF Pop, PopLast, OnTop, Beneath
    <3>3. CASE Undone
      <4>1. [Top EXCEPT !.does = "pop", !.comp = NoEffect] \in Call
            /\ [Top EXCEPT !.does = "pop", !.comp = NoEffect].fatal = Top.fatal
        BY <3>1 DEF Call, NoEffect
      <4> QED BY <3>3, <4>1 DEF Undone, OnTop, Beneath
    <3> QED BY <1>4, <3>2, <3>3
  <2>3. /\ Len(calls') = Len(calls) /\ calls'[Len(calls)].fatal = calls[Len(calls)].fatal
        /\ \A k \in 1..(Len(calls) - 1) : calls'[k] = calls[k]
    BY <2>1, <2>2, <1>0, ReplaceFacts DEF Top
  <2>4. Carried' \subseteq Carried
    BY <2>3, <1>0 DEF Carried
  <2>5. Cut' \subseteq Cut /\ flag' = flag /\ signals' = signals
    BY <1>0, <1>4 DEF Pop, Undone, past, Cut, TypeOK
  <2> QED BY <2>4, <2>5, <1>0, CutFrame
<1>5. CASE Throw
  <2>0. PICK f \in BOOLEAN : Raise(calls, f) /\ ~f
    BY <1>5 DEF Throw
  <2>1. PICK cs \in Seq(Call) : cs = calls
    BY <1>0
  <2>2. Len(cs) <= Len(calls) /\ (\A i \in 1..Len(cs) : cs[i] = calls[i]) /\ Raise(cs, f)
    <3>1. Len(cs) <= Len(calls) /\ \A i \in 1..Len(cs) : cs[i] = calls[i]
      BY <2>1, <1>0
    <3>2. Raise(cs, f)
      BY <2>0, <2>1
    <3> QED BY <3>1, <3>2
  <2>3. Cut' \subseteq Cut /\ Carried' \subseteq KeptTo(Len(cs))
    BY <2>0, <2>2, <1>0, RaiseCut
  <2>4. Carried' \subseteq Carried
    BY <2>3 DEF KeptTo
  <2> QED BY <2>3, <2>4, <1>0, <1>5, CutFrame DEF Throw
<1>6. CASE Terminate
  <2>0. PICK f \in BOOLEAN : Raise(calls, f) /\ f
    BY <1>6 DEF Terminate
  <2>1. PICK cs \in Seq(Call) : cs = calls
    BY <1>0
  <2>2. Len(cs) <= Len(calls) /\ (\A i \in 1..Len(cs) : cs[i] = calls[i]) /\ Raise(cs, f)
    <3>1. Len(cs) <= Len(calls) /\ \A i \in 1..Len(cs) : cs[i] = calls[i]
      BY <2>1, <1>0
    <3>2. Raise(cs, f)
      BY <2>0, <2>1
    <3> QED BY <3>1, <3>2
  <2>3. PICK x : \/ Cut' \subseteq Cut /\ Carried' \subseteq Carried \cup {x}
                 \/ Cut' \subseteq Cut \cup {x} /\ Carried' \subseteq Carried
    <3>1. KeptTo(Len(cs)) \subseteq Carried
      BY DEF KeptTo
    <3> QED BY <3>1, <2>2, <1>0, RaiseCut
  <2>4. /\ Cardinality(Cut) \in Nat /\ Cardinality(Cut') \in Nat
        /\ Cardinality(Carried) \in Nat /\ Cardinality(Carried') \in Nat
        /\ Cardinality(Cut') + Cardinality(Carried') <= Cardinality(Cut) + Cardinality(Carried) + 1
    <3>1. Cut' \subseteq Cut \cup {x} /\ Carried' \subseteq Carried \cup {x}
      BY <2>3
    <3>2. /\ Cardinality(Cut) \in Nat /\ Cardinality(Cut') \in Nat
          /\ Cardinality(Cut') <= Cardinality(Cut) + 1
          /\ Cut' \subseteq Cut => Cardinality(Cut') <= Cardinality(Cut)
      BY <3>1, <1>0, Counting
    <3>3. /\ Cardinality(Carried) \in Nat /\ Cardinality(Carried') \in Nat
          /\ Cardinality(Carried') <= Cardinality(Carried) + 1
          /\ Carried' \subseteq Carried => Cardinality(Carried') <= Cardinality(Carried)
      BY <3>1, <1>0, Counting
    <3> QED BY <2>3, <3>2, <3>3
  <2>5. flag /\ ~flag' /\ signals' = signals
    BY <1>6 DEF Terminate, Consume
  <2>6. Cardinality(Cut) + Cardinality(Carried) + 1 <= signals
    BY <2>5 DEF CutInv
  <2>7. CutInv' <=> Cardinality(Cut') + Cardinality(Carried') + 0 <= signals
    BY <2>5 DEF CutInv
  <2> QED BY <2>4, <2>6, <2>7, <1>0
<1>7. CASE ReRaise
  <2>1. /\ calls # <<>> /\ Top = calls[Len(calls)] /\ flag' = flag /\ signals' = signals
    BY <1>7 DEF ReRaise, Doing, Top
  <2>2. /\ Top \in Call /\ Top.fatal \in BOOLEAN /\ Len(calls) \in 1..Len(calls)
        /\ Beneath \in Seq(Call) /\ Len(Beneath) = Len(calls) - 1
        /\ \A k \in 1..Len(Beneath) : Beneath[k] = calls[k]
    <3>1. Top \in Call
      BY <2>1, <1>0, TopFacts
    <3>2. Top.fatal \in BOOLEAN
      BY <3>1 DEF Call
    <3> QED BY <3>1, <3>2, <2>1, <1>0, TopFacts
  <2>3. CASE calls' = Beneath /\ UNCHANGED fate
    <3>1. Cut' \subseteq Cut /\ Carried' \subseteq Carried
      BY <2>2, <2>3, <1>0 DEF Cut, Carried
    <3> QED BY <3>1, <2>1, <1>0, CutFrame
  <2>4. CASE Raise(Beneath, Top.fatal)
    <3>1. PICK cs \in Seq(Call), f \in BOOLEAN : cs = Beneath /\ f = Top.fatal
      BY <2>2
    <3>2. /\ Len(cs) <= Len(calls) /\ (\A i \in 1..Len(cs) : cs[i] = calls[i]) /\ Raise(cs, f)
          /\ Len(cs) = Len(calls) - 1
      BY <3>1, <2>2, <2>4, <1>0
    <3>3. CASE ~f
      <4>1. Cut' \subseteq Cut /\ Carried' \subseteq KeptTo(Len(cs))
        BY <3>2, <3>3, <1>0, RaiseCut
      <4>2. Carried' \subseteq Carried
        BY <4>1 DEF KeptTo
      <4> QED BY <4>1, <4>2, <2>1, <1>0, CutFrame
    <3>4. CASE f
      <4> DEFINE K == KeptTo(Len(cs))
      <4>1. PICK x : \/ Cut' \subseteq Cut /\ Carried' \subseteq K \cup {x}
                     \/ Cut' \subseteq Cut \cup {x} /\ Carried' \subseteq K
        BY <3>2, <1>0, RaiseCut
      <4>2. Len(calls) \in Carried /\ K \in SUBSET (Carried \ {Len(calls)})
        <5>1. Top.fatal
          BY <3>1, <3>4
        <5>2. Len(calls) \in Carried
          BY <5>1, <2>1, <2>2 DEF Carried
        <5>3. \A i \in K : i \in Carried /\ i # Len(calls)
          BY <3>2, <1>0 DEF Carried, KeptTo
        <5> QED BY <5>2, <5>3
      <4> HIDE DEF K
      <4>3. /\ IsFiniteSet(Carried \ {Len(calls)})
            /\ Cardinality(Carried \ {Len(calls)}) = Cardinality(Carried) - 1
        BY <4>2, <1>0, FS_RemoveElement
      <4>4. IsFiniteSet(K) /\ Cardinality(K) <= Cardinality(Carried) - 1
        BY <4>2, <4>3, FS_Subset
      <4>5. Cut' \subseteq Cut \cup {x} /\ Carried' \subseteq K \cup {x}
        BY <4>1
      <4>6. /\ Cardinality(Cut) \in Nat /\ Cardinality(Cut') \in Nat
            /\ Cardinality(Cut') <= Cardinality(Cut) + 1
            /\ Cut' \subseteq Cut => Cardinality(Cut') <= Cardinality(Cut)
        BY <4>5, <1>0, Counting
      <4>7. /\ Cardinality(K) \in Nat /\ Cardinality(Carried') \in Nat
            /\ Cardinality(Carried') <= Cardinality(K) + 1
            /\ Carried' \subseteq K => Cardinality(Carried') <= Cardinality(K)
        BY <4>4, <4>5, Counting
      <4>8. Cardinality(Carried) \in Nat
        BY <1>0, FS_CardinalityType
      <4>9. Cardinality(Cut') + Cardinality(Carried') <= Cardinality(Cut) + Cardinality(Carried)
        BY <4>1, <4>4, <4>6, <4>7, <4>8
      <4> DEFINE bit == IF flag THEN 1 ELSE 0
      <4>10. bit \in Nat /\ Cardinality(Cut) + Cardinality(Carried) + bit <= signals
        BY DEF CutInv
      <4>11. CutInv' <=> Cardinality(Cut') + Cardinality(Carried') + bit <= signals
        BY <2>1 DEF CutInv
      <4> HIDE DEF bit
      <4> QED BY <4>6, <4>7, <4>8, <4>9, <4>10, <4>11, <1>0
    <3> QED BY <3>3, <3>4
  <2> QED BY <2>3, <2>4, <1>7 DEF ReRaise
<1>8. CASE Signal
  <2>1. /\ Cut' = Cut /\ Carried' = Carried /\ flag' = TRUE /\ signals' = signals + 1
    BY <1>8 DEF Signal, Cut, Carried, stack
  <2>2. /\ Cardinality(Cut) \in Nat /\ Cardinality(Carried) \in Nat
    BY <1>0, FS_CardinalityType
  <2>3. Cardinality(Cut) + Cardinality(Carried) <= signals
    <3>1. CASE flag
      BY <3>1, <2>2, <1>0 DEF CutInv
    <3>2. CASE ~flag
      BY <3>2, <2>2, <1>0 DEF CutInv
    <3> QED BY <3>1, <3>2
  <2>4. CutInv' <=> Cardinality(Cut) + Cardinality(Carried) + 1 <= signals + 1
    BY <2>1 DEF CutInv
  <2> QED BY <2>2, <2>3, <2>4, <1>0
<1>9. CASE Exit \/ UNCHANGED vars
  <2>1. Cut' = Cut /\ Carried' = Carried /\ flag' = flag /\ signals' = signals
    BY <1>9 DEF Exit, vars, past, stack, Cut, Carried
  <2> QED BY <2>1, <1>0, CutFrame
<1> QED BY <1>1, <1>2, <1>3, <1>4, <1>5, <1>6, <1>7, <1>8, <1>9 DEF Next

\* A signal costs at most one compensation: it is consumed where it strikes
\* (context.rs 92-107), whatever the nesting.
THEOREM SignalBudget == Spec => []SignalCutsOne
<1>1. Init => CutInv
  <2> SUFFICES ASSUME Init PROVE CutInv
    OBVIOUS
  <2>1. Cut = {} /\ Carried = {} /\ ~flag /\ signals = 0
    BY DEF Init, Cut, Carried
  <2>2. Cardinality({}) = 0
    BY FS_EmptySet
  <2> QED BY <2>1, <2>2 DEF CutInv
<1>2. TxnInv /\ CutInv => SignalCutsOne
  <2> SUFFICES ASSUME TxnInv, CutInv PROVE SignalCutsOne
    OBVIOUS
  <2>1. Cardinality(Cut) \in Nat /\ Cardinality(Carried) \in Nat /\ signals \in Nat
    BY CutFinite, FS_CardinalityType DEF TxnInv, TypeOK
  <2>2. Cardinality(Cut) <= signals
    <3>1. CASE flag
      BY <3>1, <2>1 DEF CutInv
    <3>2. CASE ~flag
      BY <3>2, <2>1 DEF CutInv
    <3> QED BY <3>1, <3>2
  <2> QED BY <2>2 DEF SignalCutsOne, Cut
<1> QED BY <1>1, <1>2, StepCut, TransactionInvariance, PTL DEF Spec
=============================================================================
