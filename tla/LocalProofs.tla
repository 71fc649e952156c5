----------------------------- MODULE LocalProofs ----------------------------
(* What nrg does on the machine it runs on, proved for every value of the constants
   of LocalTools: each part by itself, with its own inductive invariant, and then,
   at the end, the properties of LocalTools.                                 *)
EXTENDS LocalTools, FiniteSets, SequenceTheorems, FiniteSetTheorems, WellFoundedInduction,
        TLAPS
-----------------------------------------------------------------------------
(* ----------------------- The search for a project ----------------------- *)
(* A search under way has passed nothing: no candidate, no boundary.         *)
UpwardInv ==
  /\ kind \in {"key", "root"} /\ home \in {Upward!NoHome, Upward!Unbound} \cup Upward!Dirs
  /\ at \in Upward!Dirs \cup {0}
  /\ at # 0 => /\ result = Upward!Nothing
               /\ \A e \in 1 .. at - 1 : ~Upward!Candidate(e) /\ ~Upward!AtBoundary(e)
  /\ Upward!NearestIsTaken

LEMMA UpwardInit == ASSUME Upward!DepthAssumption, Upward!Init PROVE UpwardInv
<1>1. at = 1 /\ 1 \in Upward!Dirs /\ 1 .. at - 1 = {} /\ result = Upward!Nothing
  BY DEF Upward!DepthAssumption, Upward!Init, Upward!Dirs
<1> QED  BY <1>1 DEF UpwardInv, Upward!Init, Upward!NearestIsTaken

(* The places within reach, where the search stands: this one, and no further
   one if this is the boundary.                                              *)
LEMMA Reach ==
  ASSUME Upward!DepthAssumption, UpwardInv, at \in Upward!Dirs
  PROVE  /\ at \in Upward!Within
         /\ Upward!AtBoundary(at) => \A d \in Upward!Within : d <= at
<1>1. \A e \in 1 .. at - 1 : e # home /\ (kind = "key" => home # Upward!NoHome /\ Upward!is_user_controlled(e))
  BY DEF UpwardInv, Upward!AtBoundary, Upward!Dirs, Upward!DepthAssumption
<1>2. home \in Upward!Dirs => at <= home
  BY <1>1 DEF Upward!Dirs, Upward!DepthAssumption
<1>3. at \in Upward!Within
  BY <1>1, <1>2 DEF Upward!Within
<1>4. ASSUME Upward!AtBoundary(at), NEW d \in Upward!Within, ~(d <= at) PROVE FALSE
  <2>1. d \in Upward!Dirs /\ at \in 1 .. d - 1 /\ at # Depth
    BY <1>4 DEF Upward!Within, Upward!Dirs, Upward!DepthAssumption
  <2>2. at # home
    BY <1>4, <2>1 DEF Upward!Within, Upward!Dirs
  <2>3. kind = "key" => home # Upward!NoHome /\ Upward!is_user_controlled(at)
    BY <2>1 DEF Upward!Within
  <2> QED  BY <1>4, <2>1, <2>2, <2>3 DEF Upward!AtBoundary
<1> QED  BY <1>3, <1>4

LEMMA UpwardLook ==
  ASSUME Upward!DepthAssumption, UpwardInv, Upward!Look PROVE UpwardInv'
<1>1. /\ at \in Upward!Dirs /\ Upward!Candidate(at) /\ at' = 0 /\ UNCHANGED Upward!world
      /\ result' = [what |-> IF Upward!Trusted(at) THEN "found" ELSE "refused", at |-> at]
  BY DEF Upward!Look, Upward!Answer, Upward!Over
<1>2. at \in Upward!Within /\ Upward!Nearest(at)
  BY <1>1, Reach DEF UpwardInv, Upward!Nearest, Upward!Candidate, Upward!Dirs
<1>3. Upward!NearestIsTaken'
  <2> DEFINE Good(d) == d \in Upward!Within /\ Upward!Nearest(d) /\ Upward!Taken(d)
  <2>1. PICK d : d = at
    OBVIOUS
  <2>2. (d \in Upward!Within /\ Upward!Nearest(d))'
    BY <1>1, <1>2, <2>1 DEF Upward!world, Upward!Within, Upward!Nearest, Upward!is_user_controlled,
                            Upward!untrusted_reason
  <2>3. Upward!Taken(d)'
    BY <1>1, <2>1 DEF Upward!world, Upward!Taken, Upward!Trusted, Upward!is_user_controlled,
                      Upward!untrusted_reason, Upward!ensure_key_file_is_trusted
  <2> QED  BY <2>2, <2>3 DEF Upward!NearestIsTaken
<1> QED  BY <1>1, <1>3 DEF UpwardInv, Upward!world

LEMMA UpwardClimb ==
  ASSUME Upward!DepthAssumption, UpwardInv, Upward!Climb PROVE UpwardInv'
<1>1. /\ at \in Upward!Dirs /\ ~Upward!Candidate(at) /\ ~Upward!AtBoundary(at) /\ at' = at + 1
      /\ UNCHANGED Upward!world /\ result' = result
  BY DEF Upward!Climb
<1>2. at' \in Upward!Dirs /\ at' # 0 /\ at # 0
  BY <1>1 DEF Upward!Dirs, Upward!DepthAssumption, Upward!AtBoundary
<1>3. \A e \in 1 .. at' - 1 : ~Upward!Candidate(e) /\ ~Upward!AtBoundary(e)
  BY <1>1, <1>2 DEF UpwardInv, Upward!Dirs
<1>4. \A e \in 1 .. at' - 1 : (~Upward!Candidate(e) /\ ~Upward!AtBoundary(e))'
  BY <1>1, <1>3 DEF Upward!world, Upward!Candidate, Upward!AtBoundary, Upward!is_user_controlled,
                    Upward!untrusted_reason
<1> QED  BY <1>1, <1>2, <1>4 DEF UpwardInv, Upward!world, Upward!NearestIsTaken, Upward!Dirs

LEMMA UpwardOver ==
  ASSUME Upward!DepthAssumption, UpwardInv, Upward!LookInConfig \/ Upward!FallBack
  PROVE  UpwardInv'
<1>1. /\ at \in Upward!Dirs /\ ~Upward!Candidate(at) /\ Upward!AtBoundary(at) /\ at' = 0
      /\ UNCHANGED Upward!world
  BY DEF Upward!LookInConfig, Upward!FallBack, Upward!Answer, Upward!Over
<1>2. \A d \in Upward!Within : ~Upward!Nearest(d)
  <2>1. \A e \in 1 .. at : ~Upward!Candidate(e)
    BY <1>1 DEF UpwardInv, Upward!Dirs
  <2>2. \A d \in Upward!Within : d \in 1 .. at
    BY <1>1, Reach DEF Upward!Within, Upward!Dirs
  <2> QED  BY <2>1, <2>2 DEF Upward!Nearest, Upward!Candidate
<1>3. (\A d \in Upward!Within : ~Upward!Nearest(d))'
  BY <1>1, <1>2 DEF Upward!world, Upward!Within, Upward!Nearest, Upward!is_user_controlled,
                    Upward!untrusted_reason
<1>4. IF kind = "key"
      THEN IF holds[Upward!Config] = "nothing" THEN result' = Upward!Nothing
           ELSE result' = [what |-> IF Upward!Trusted(Upward!Config) THEN "found" ELSE "refused",
                           at |-> Upward!Config]
      ELSE result' = [what |-> IF home = 1 THEN "refused" ELSE "start", at |-> 1]
  BY DEF Upward!LookInConfig, Upward!FallBack, Upward!Answer, Upward!Over, Upward!Candidate,
         Upward!Nothing, UpwardInv
<1>5. Upward!NearestIsTaken'
  BY <1>1, <1>3, <1>4 DEF Upward!NearestIsTaken, Upward!world, Upward!Taken, Upward!Trusted,
       Upward!is_user_controlled, Upward!untrusted_reason, Upward!ensure_key_file_is_trusted
<1> QED  BY <1>1, <1>5 DEF UpwardInv, Upward!world

LEMMA UpwardStep ==
  ASSUME Upward!DepthAssumption PROVE UpwardInv /\ [Upward!Next]_Upward!vars => UpwardInv'
<1>1. UpwardInv /\ UNCHANGED Upward!vars => UpwardInv'
  BY DEF UpwardInv, Upward!vars, Upward!world, Upward!Candidate, Upward!AtBoundary,
         Upward!is_user_controlled, Upward!untrusted_reason, Upward!NearestIsTaken,
         Upward!Within, Upward!Nearest, Upward!Taken, Upward!Trusted,
         Upward!ensure_key_file_is_trusted
<1> QED  BY <1>1, UpwardLook, UpwardClimb, UpwardOver DEF Upward!Next

(* secrets/mod.rs, state.rs: from a directory at any depth, a search that is
   over has taken the nearest candidate it may reach, and never passes over one
   that it must refuse.                                                      *)
LEMMA UpwardHolds ==
  ASSUME Upward!DepthAssumption PROVE Upward!Spec => []Upward!NearestIsTaken
<1>1. UpwardInv => Upward!NearestIsTaken
  BY DEF UpwardInv
<1> QED  BY <1>1, UpwardInit, UpwardStep, PTL DEF Upward!Spec
-----------------------------------------------------------------------------
(* ------------------------------- Secrets -------------------------------- *)
(* A resolved value is registered; an encoding that is not was made before.   *)
PieceInv(p) ==
  /\ p \in [of : Keys, form : {"plain", "url", "url2", "marker"}]
  /\ p.form = "plain" /\ Secret!Resolved(p.of) => p \in registered
  /\ p.form \in {"url", "url2"} => p \in registered \cup early
(* What defines a key hides what comes behind it.                            *)
Allowed(k, origin) ==
  /\ source[k][origin].trusted
  /\ \A i, j \in 1 .. Len(Secret!Order) :
       j < i /\ Secret!Order[i] = origin => source[k][Secret!Order[j]] = None
SecretInv ==
  /\ resolved \in [Keys -> SUBSET Secret!Places]
  /\ \A k \in Keys : Secret!Resolved(k) => Secret!Piece(k, "plain") \in registered
  /\ \A p \in pieces : PieceInv(p)
  /\ shown \subseteq early /\ \A p \in shown : p.form # "plain"
  /\ \A p \in ran : p.form # "marker"
  /\ \A k \in Keys : \A origin \in resolved[k] \cup {q \in Secret!Places : <<k, q>> \in fetched} :
       Allowed(k, origin)

LEMMA SecretInit == Secret!Init => SecretInv
  BY DEF Secret!Init, SecretInv, Secret!Resolved

LEMMA LookupIsFirst ==
  ASSUME NEW k \in Keys, Secret!lookup_secret(k) # "none"
  PROVE  /\ Secret!lookup_secret(k) \in Secret!Places
         /\ \A i, j \in 1 .. Len(Secret!Order) :
              j < i /\ Secret!Order[i] = Secret!lookup_secret(k) => source[k][Secret!Order[j]] = None
<1> DEFINE L == Secret!LookupPlaces(k)
<1>1. L # {} /\ L \subseteq 1 .. 4
  BY DEF Secret!lookup_secret, Secret!LookupPlaces, Secret!Order
<1>2. PICK m \in L : \A j \in L : m <= j
  <2>1. \E m \in L : \A j \in L : m <= j
    <3>1. CASE 1 \in L
      BY <1>1, <3>1
    <3>2. CASE 1 \notin L /\ 2 \in L
      BY <1>1, <3>2
    <3>3. CASE 1 \notin L /\ 2 \notin L /\ 3 \in L
      BY <1>1, <3>3
    <3>4. CASE 1 \notin L /\ 2 \notin L /\ 3 \notin L
      <4>1. PICK x : x \in L
        BY <1>1
      <4>2. \A j \in L : j = 4
        BY <1>1, <3>4
      <4> QED  BY <4>1, <4>2
    <3> QED  BY <3>1, <3>2, <3>3, <3>4
  <2> QED  BY <2>1
<1>3. PICK c : c = CHOOSE i \in L : \A j \in L : i <= j
  OBVIOUS
<1>4. c \in L /\ \A j \in L : c <= j
  BY <1>2, <1>3
<1>5. Secret!lookup_secret(k) = Secret!Order[c] /\ c \in 1 .. 4
  BY <1>1, <1>3, <1>4 DEF Secret!lookup_secret
<1>6. \A i \in 1 .. 4 : Secret!Order[i] = Secret!Order[c] => i = c
  BY <1>5 DEF Secret!Order
<1>7. \A j \in 1 .. 4 : j < c => j \notin L
  BY <1>1, <1>4
<1>8. \A j \in 1 .. 4 : j < c => source[k][Secret!Order[j]] = None
  BY <1>7 DEF Secret!LookupPlaces, Secret!Order
<1> QED  BY <1>5, <1>6, <1>8 DEF Secret!Places, Secret!Order

LEMMA SecretResolve ==
  ASSUME SecretInv, NEW k \in Keys, Secret!secret(k) PROVE SecretInv'
<1> DEFINE origin == Secret!lookup_secret(k)
<1>1. /\ origin \in Secret!Places /\ origin # "none" /\ Allowed(k, origin)
      /\ UNCHANGED <<source, pieces, shown, ran, early>>
  BY LookupIsFirst DEF Secret!secret, Secret!world, Allowed
<1>2. /\ fetched' \subseteq fetched \cup {<<k, origin>>}
      /\ \/ UNCHANGED <<registered, resolved>>
         \/ /\ registered' = registered \cup {Secret!Piece(k, "plain")}
            /\ resolved' = [resolved EXCEPT ![k] = @ \cup {origin}]
  BY DEF Secret!secret, Secret!Register
<1> HIDE DEF origin
<1>3. resolved' \in [Keys -> SUBSET Secret!Places] /\ registered \subseteq registered'
  BY <1>1, <1>2 DEF SecretInv
<1>4. \A q \in Keys : Secret!Resolved(q)' => Secret!Piece(q, "plain") \in registered'
  BY <1>2, <1>3 DEF SecretInv, Secret!Resolved
<1>5. \A p \in pieces' : PieceInv(p)'
  <2> SUFFICES ASSUME NEW p \in pieces PROVE PieceInv(p)'
    BY <1>1
  <2>1. PieceInv(p) /\ p.of \in Keys
    BY DEF SecretInv, PieceInv
  <2>2. p.form = "plain" => p = Secret!Piece(p.of, "plain")
    BY <2>1 DEF PieceInv, Secret!Piece
  <2>3. p.form = "plain" /\ Secret!Resolved(p.of)' => p \in registered'
    BY <1>4, <2>1, <2>2
  <2> QED  BY <1>1, <1>3, <2>1, <2>3 DEF PieceInv
<1>6. \A q \in Keys : \A x \in resolved'[q] \cup {y \in Secret!Places : <<q, y>> \in fetched'} :
        Allowed(q, x)
  <2> SUFFICES ASSUME NEW q \in Keys, NEW x \in Secret!Places, x \in resolved'[q] \/ <<q, x>> \in fetched'
               PROVE  Allowed(q, x)
    BY <1>3
  <2>1. \/ x \in resolved[q] \/ <<q, x>> \in fetched
        \/ q = k /\ x = origin
    BY <1>2 DEF SecretInv
  <2> QED  BY <1>1, <2>1 DEF SecretInv
<1>7. \A q, x : Allowed(q, x)' = Allowed(q, x)
  BY <1>1 DEF Allowed
<1> QED  BY <1>1, <1>3, <1>4, <1>5, <1>6, <1>7 DEF SecretInv

(* The script gets one more string.                                          *)
LEMMA SecretHave ==
  ASSUME SecretInv, NEW p, pieces' = pieces \cup {p}, PieceInv(p)',
         early \subseteq early', registered \subseteq registered',
         UNCHANGED <<source, resolved, fetched, shown, ran>>
  PROVE  SecretInv'
<1>1. \A q \in pieces : PieceInv(q)'
  BY DEF SecretInv, PieceInv, Secret!Resolved
<1>2. \A q, x : Allowed(q, x)' = Allowed(q, x)
  BY DEF Allowed
<1> QED  BY <1>1, <1>2 DEF SecretInv, Secret!Resolved

LEMMA SecretStrings ==
  ASSUME SecretInv, NEW k \in Keys,
         Secret!reveal(k) \/ Secret!interpolate(k) \/ Secret!Elsewhere(k)
  PROVE  SecretInv'
<1>1. PICK form \in {"plain", "marker"} :
        /\ pieces' = pieces \cup {Secret!Piece(k, form)}
        /\ UNCHANGED <<source, registered, resolved, fetched, shown, ran>>
        /\ early \subseteq early'
  BY DEF Secret!reveal, Secret!interpolate, Secret!Elsewhere, Secret!Have, Secret!world
<1>2. PieceInv(Secret!Piece(k, form))'
  BY <1>1 DEF PieceInv, SecretInv, Secret!Piece, Secret!Resolved
<1> QED  BY <1>1, <1>2, SecretHave

LEMMA SecretEncode ==
  ASSUME SecretInv, NEW p \in pieces, Secret!url_encode(p) PROVE SecretInv'
<1>1. /\ PieceInv(p) /\ p.form \in {"plain", "url"}
      /\ pieces' = pieces \cup {Secret!Encoded(p)}
      /\ UNCHANGED <<source, resolved, fetched, shown, ran>>
      /\ Secret!Encoded(p) \in registered' \cup early'
      /\ registered \subseteq registered' /\ early \subseteq early'
  BY DEF Secret!url_encode, Secret!Have, Secret!Derived, Secret!world, SecretInv
<1>2. PICK form \in {"url", "url2"} : Secret!Encoded(p) = [of |-> p.of, form |-> form]
  BY <1>1 DEF Secret!Encoded, PieceInv
<1>3. PieceInv(Secret!Encoded(p))'
  BY <1>1, <1>2 DEF PieceInv
<1> QED  BY <1>1, <1>3, SecretHave

LEMMA SecretShow ==
  ASSUME SecretInv, NEW piece \in SUBSET pieces,
         Secret!OnPrint(piece) \/ Secret!Sent(piece, TRUE) \/ Secret!Sent(piece, ~dry)
  PROVE  SecretInv'
<1>1. /\ Secret!Shows(piece) /\ UNCHANGED <<source, registered, pieces, resolved, fetched, early>>
      /\ ran' # ran => Secret!assert_no_secret_leak(piece) /\ ran' = ran \cup piece
  BY DEF Secret!OnPrint, Secret!Sent, Secret!world
<1>2. \A p \in piece \ registered : p.form # "marker" /\ Secret!Resolved(p.of) =>
        p \in early /\ p.form # "plain"
  BY DEF SecretInv, PieceInv
<1>3. shown' \subseteq early /\ \A p \in shown' : p.form # "plain"
  BY <1>1, <1>2 DEF Secret!Shows, SecretInv
<1>4. \A p \in ran' : p.form # "marker"
  BY <1>1 DEF Secret!assert_no_secret_leak, SecretInv
<1>5. \A p : PieceInv(p)' = PieceInv(p)
  BY <1>1 DEF PieceInv, Secret!Resolved
<1>6. \A q, x : Allowed(q, x)' = Allowed(q, x)
  BY <1>1 DEF Allowed
<1> QED  BY <1>1, <1>3, <1>4, <1>5, <1>6 DEF SecretInv, Secret!Resolved

LEMMA SecretStep == SecretInv /\ [Secret!Next]_Secret!vars => SecretInv'
<1> SUFFICES ASSUME SecretInv, [Secret!Next]_Secret!vars PROVE SecretInv'
  OBVIOUS
<1>1. CASE UNCHANGED Secret!vars
  <2>1. \A p : PieceInv(p)' = PieceInv(p)
    BY <1>1 DEF Secret!vars, PieceInv, Secret!Resolved
  <2>2. \A q, x : Allowed(q, x)' = Allowed(q, x)
    BY <1>1 DEF Secret!vars, Allowed
  <2> QED  BY <1>1, <2>1, <2>2 DEF Secret!vars, SecretInv, Secret!Resolved
<1>2. CASE \E piece \in SUBSET pieces :
             Secret!OnPrint(piece) \/ Secret!Sent(piece, TRUE) \/ Secret!Sent(piece, ~dry)
  BY <1>2, SecretShow
<1> QED  BY <1>1, <1>2, SecretResolve, SecretStrings, SecretEncode
         DEF Secret!Next, Secret!ssh_exec, Secret!local_exec, Secret!effect,
             Secret!ssh_probe, Secret!preflight, Secret!write_remote, Secret!transfer_file

(* secret.rs, builtins/util.rs: for any keys, places and worlds, and any program
   over the builtins, no sink shows a resolved value or an encoding made since,
   no marker reaches a command, and what is used comes from the first place that
   defines the key, which only the user can write.                           *)
LEMMA SecretHolds == Secret!Spec => []Secret!SecretsStayInside
<1>1. SecretInv => Secret!SecretsStayInside
  BY DEF SecretInv, Allowed, Secret!SecretsStayInside, Secret!assert_no_secret_leak
<1> QED  BY <1>1, SecretInit, SecretStep, PTL DEF Secret!Spec
-----------------------------------------------------------------------------
(* ------------------------------ Key files ------------------------------- *)
(* Who is in init made the private key, and nothing is sealed to a key pair of
   this directory before init is over; from then on it stays the pair.       *)
Initing == {"parse", "open pub", "write pub"}
Readers == Procs \cup {"none", "team", "torn"}
Args    == [Procs -> [of : Nat, to : Readers, force : BOOLEAN]]
KeysInv ==
  /\ pc = [p \in Procs |-> pc[p]]
  /\ env \in Nat /\ edits \in Nat /\ pub \in Readers
  /\ enc \in [of : Nat, to : Readers] /\ arg \in Args
  /\ pub \in Procs => key = pub
  /\ \A p \in Procs : pc[p] \in Initing => key = p /\ pub \notin Procs
  /\ \A p \in Procs : pc[p] = "seal" => (arg[p].to \in Procs => pub = arg[p].to)
  /\ enc.to \in Procs => pub = enc.to
  /\ Seal!decrypt_value(token.line) = token.from

LEMMA SetTo ==
  ASSUME arg \in Args, NEW p \in Procs, NEW r \in Readers, arg' = [arg EXCEPT ![p].to = r]
  PROVE  arg' \in Args /\ \A q \in Procs : arg'[q].to = IF q = p THEN r ELSE arg[q].to
  BY DEF Args
LEMMA SetOthers ==
  ASSUME arg \in Args, NEW p \in Procs,
         \/ \E n \in Nat : arg' = [arg EXCEPT ![p].of = n]
         \/ \E f \in BOOLEAN : arg' = [arg EXCEPT ![p].force = f]
  PROVE  arg' \in Args
  BY DEF Args

LEMMA Framing ==
  ASSUME Seal!KeyFilesAssumption, NEW a \in Armors
  PROVE  Seal!decrypt_value(Seal!encrypt_value(a).line) = Seal!encrypt_value(a).from
<1> DEFINE f == Seal!Framed(a)
<1>1. a \in Seq({a[i] : i \in DOMAIN a} \ {Seal!Bar})
  BY DEF Seal!KeyFilesAssumption
<1>2. PICK n \in Nat : n = Len(a) /\ DOMAIN a = 1 .. n /\ a = [i \in 1 .. n |-> a[i]]
  BY <1>1
<1>3. \A i \in 1 .. n : a[i] # Seal!Bar
  BY <1>1, <1>2
<1>4. f = [i \in 1 .. n |-> IF a[i] = Seal!NL THEN Seal!Bar ELSE a[i]]
  BY <1>2 DEF Seal!Framed
<1>5. Len(f) = n
  BY <1>4
<1>6. \A i \in 1 .. n : f[i] # Seal!NL
  BY <1>4 DEF Seal!NL, Seal!Bar
<1> HIDE DEF f
<1>7. {i \in 1 .. Len(f) : f[i] = Seal!NL} = {}
  BY <1>5, <1>6
<1>8. Seal!FirstLine(f) = f
  BY <1>7 DEF Seal!FirstLine
<1>9. Seal!decrypt_value(f) = [i \in 1 .. n |-> IF f[i] = Seal!Bar THEN Seal!NL ELSE f[i]]
  BY <1>5 DEF Seal!decrypt_value
<1>10. \A i \in 1 .. n : (IF f[i] = Seal!Bar THEN Seal!NL ELSE f[i]) = a[i]
  BY <1>3, <1>4 DEF Seal!NL, Seal!Bar
<1>11. Seal!decrypt_value(f) = a
  BY <1>2, <1>9, <1>10
<1> QED  BY <1>8, <1>11 DEF f, Seal!encrypt_value

LEMMA KeysInit == ASSUME Seal!KeyFilesAssumption, Seal!Init PROVE KeysInv
<1>1. token.line = <<>> /\ token.from = <<>>
  BY DEF Seal!Init
<1>2. Seal!decrypt_value(<<>>) = <<>>
  BY DEF Seal!decrypt_value
<1> QED  BY <1>1, <1>2 DEF Seal!Init, Seal!KeyFilesAssumption, KeysInv, Initing, Readers, Args, Seal!Free

(* Steps that leave the keys and what is sealed alone.                       *)
LEMMA KeysKept ==
  ASSUME KeysInv, UNCHANGED <<enc, key, pub, token>>,
         pc' = [p \in Procs |-> pc'[p]],
         env' \in Nat, edits' \in Nat, arg' \in Args,
         \A p \in Procs :
           /\ pc'[p] \in Initing => pc[p] \in Initing
           /\ pc'[p] = "seal" => pc[p] = "seal" /\ arg'[p] = arg[p]
  PROVE  KeysInv'
  BY DEF KeysInv

LEMMA KeysUnseal ==
  ASSUME KeysInv, NEW p \in Procs,
         \/ \E forced \in BOOLEAN : Seal!unseal_file(p, forced)
         \/ Seal!Decrypt(p) \/ Seal!Publish(p) \/ Seal!Kill(p) \/ Seal!parse_and_validate_pubkey(p)
  PROVE  KeysInv'
<1>1. UNCHANGED <<enc, key, pub, token>>
  BY DEF Seal!unseal_file, Seal!Decrypt, Seal!Publish, Seal!Kill, Seal!files, Seal!parse_and_validate_pubkey
<1>2. PICK to \in {"decrypt", "publish", "idle", "open pub"} : pc' = [pc EXCEPT ![p] = to]
  BY DEF Seal!unseal_file, Seal!Decrypt, Seal!Publish, Seal!Kill, Seal!Goto, Seal!Leave, Seal!parse_and_validate_pubkey
<1>3. (pc[p] \in Initing \/ pc'[p] \notin Initing) /\ pc' = [q \in Procs |-> pc'[q]]
  BY <1>2 DEF Seal!unseal_file, Seal!Decrypt, Seal!Publish, Seal!Kill, Seal!Goto, Seal!Leave,
     Seal!parse_and_validate_pubkey, KeysInv, Initing
<1>4. /\ arg' \in Args /\ env' \in Nat /\ edits' \in Nat
      /\ \A q \in Procs \ {p} : arg'[q] = arg[q]
  <2>1. /\ enc.of \in Nat /\ arg[p].of \in Nat /\ env \in Nat /\ edits \in Nat
        /\ arg \in Args
    BY DEF KeysInv, Args
  <2>2. \/ arg' = arg
        \/ \E forced \in BOOLEAN : arg' = [arg EXCEPT ![p].force = forced]
        \/ arg' = [arg EXCEPT ![p].of = enc.of]
        \/ arg' = [arg EXCEPT ![p] = Seal!Free]
    BY DEF Seal!unseal_file, Seal!Decrypt, Seal!Publish, Seal!Kill, Seal!Goto, Seal!Leave,
       Seal!parse_and_validate_pubkey
  <2>3. Seal!Free \in [of : Nat, to : Readers, force : BOOLEAN]
    BY DEF Seal!Free, Readers
  <2>4. arg' \in Args
    <3>1. CASE arg' = [arg EXCEPT ![p].of = enc.of] \/ \E f \in BOOLEAN : arg' = [arg EXCEPT ![p].force = f]
      BY <2>1, <3>1, SetOthers
    <3>2. CASE arg' = arg \/ arg' = [arg EXCEPT ![p] = Seal!Free]
      BY <2>1, <2>3, <3>2 DEF Args
    <3> QED  BY <2>2, <3>1, <3>2
  <2>5. \A q \in Procs \ {p} : arg'[q] = arg[q]
    BY <2>1, <2>2 DEF Args
  <2>6. env' \in Nat /\ edits' \in Nat
    BY <2>1 DEF Seal!unseal_file, Seal!Decrypt, Seal!Publish, Seal!Kill, Seal!files, Seal!parse_and_validate_pubkey
  <2> QED  BY <2>4, <2>5, <2>6
<1>5. \A q \in Procs :
        /\ pc'[q] \in Initing => pc[q] \in Initing
        /\ pc'[q] = "seal" => pc[q] = "seal" /\ arg'[q] = arg[q]
  BY <1>2, <1>3, <1>4 DEF KeysInv, Initing
<1> QED  BY <1>1, <1>3, <1>4, <1>5, KeysKept

LEMMA KeysStep ==
  ASSUME Seal!KeyFilesAssumption, KeysInv, [Seal!Next]_Seal!vars PROVE KeysInv'
<1> USE DEF KeysInv, Initing, Readers, Args, Seal!Free
<1>1. CASE UNCHANGED Seal!vars
  BY <1>1 DEF Seal!vars, Seal!files, Seal!decrypt_value
<1>2. CASE Seal!Edit \/ Seal!Delete
  <2>1. UNCHANGED <<enc, key, pub, token, pc, arg>>
    BY <1>2 DEF Seal!Edit, Seal!Delete
  <2>2. env \in Nat /\ edits \in Nat
    OBVIOUS
  <2> HIDE DEF KeysInv
  <2>3. env' \in Nat /\ edits' \in Nat
    BY <1>2, <2>2 DEF Seal!Edit, Seal!Delete
  <2> USE DEF KeysInv
  <2> QED  BY <2>1, <2>3, KeysKept
<1>3. CASE Seal!DeleteKey
  BY <1>3 DEF Seal!DeleteKey, Seal!decrypt_value
<1>4. ASSUME NEW p \in Procs, Seal!age_keygen(p) PROVE KeysInv'
  BY <1>4 DEF Seal!age_keygen, Seal!Goto, Seal!KeyFilesAssumption, Seal!decrypt_value
<1>5. ASSUME NEW p \in Procs, Seal!OpenPub(p) PROVE KeysInv'
  BY <1>5 DEF Seal!OpenPub, Seal!Goto, Seal!KeyFilesAssumption, Seal!decrypt_value
<1>6. ASSUME NEW p \in Procs, Seal!WritePub(p) PROVE KeysInv'
  BY <1>6 DEF Seal!WritePub, Seal!Leave, Seal!Goto, Seal!KeyFilesAssumption, Seal!decrypt_value
<1>7. ASSUME NEW p \in Procs, Seal!seal_file(p) PROVE KeysInv'
  <2>1. /\ \A q \in Procs : arg'[q].to = IF q = p THEN pub ELSE arg[q].to
        /\ arg' \in Args
    <3>1. arg' = [arg EXCEPT ![p].to = pub]
      BY <1>7 DEF Seal!seal_file
    <3> QED  BY <3>1, SetTo, ZenonT(40)
  <2> QED  BY <1>7, <2>1, ZenonT(40) DEF Seal!seal_file, Seal!Goto, Seal!KeyFilesAssumption, Seal!decrypt_value
<1>8. ASSUME NEW p \in Procs, Seal!Sealed(p) PROVE KeysInv'
  BY <1>8 DEF Seal!Sealed, Seal!Leave, Seal!Goto, Seal!KeyFilesAssumption, Seal!decrypt_value
<1>9. ASSUME NEW a \in Armors, Seal!cmd_encrypt(a) PROVE KeysInv'
  <2>1. Seal!decrypt_value(token'.line) = token'.from
    BY <1>9, Framing DEF Seal!cmd_encrypt
  <2>2. Seal!decrypt_value(token.line)' = Seal!decrypt_value(token'.line)
    BY DEF Seal!decrypt_value
  <2> QED  BY <1>9, <2>1, <2>2 DEF Seal!cmd_encrypt
<1> USE KeysUnseal
<1> HIDE DEF KeysInv, Initing
<1> QED  BY <1>1, <1>2, <1>3, <1>4, <1>5, <1>6, <1>7, <1>8, <1>9, KeysUnseal DEF Seal!Next

(* secrets/mod.rs, cli/secrets.rs: for any commands, killed anywhere and any
   number of times, the public key init wrote belongs to the private one beside
   it, what is sealed to it opens here, and a pasted token decrypts.         *)
LEMMA SealHolds == ASSUME Seal!KeyFilesAssumption PROVE Seal!Spec => []Seal!SealedOpens
<1>1. KeysInv => Seal!SealedOpens
  BY DEF KeysInv, Seal!SealedOpens
<1> QED  BY <1>1, KeysInit, KeysStep, PTL DEF Seal!Spec

(* unseal_file: a .env that is there is only ever replaced by its user or by an
   unseal that was given --force, whatever the other processes do meanwhile.  *)
LEMMA EditsHold == ASSUME Seal!KeyFilesAssumption PROVE Seal!Spec => Seal!EditsSurvive
<1>1. ASSUME KeysInv, Seal!Next, env # 0, env' # env, pc' # pc
      PROVE  \E p \in Procs : pc[p] = "publish" /\ pc'[p] = "idle" /\ arg[p].force
  <2>1. PICK p \in Procs : Seal!Publish(p)
    BY <1>1 DEF Seal!Next, Seal!Edit, Seal!Delete, Seal!DeleteKey, Seal!age_keygen,
       Seal!parse_and_validate_pubkey, Seal!OpenPub, Seal!WritePub, Seal!seal_file, Seal!Sealed,
       Seal!unseal_file, Seal!Decrypt, Seal!Kill, Seal!cmd_encrypt, Seal!files
  <2>2. Seal!MayPublish(p) /\ pc[p] = "publish" /\ pc' = [pc EXCEPT ![p] = "idle"]
    BY <1>1, <2>1 DEF Seal!Publish, Seal!Leave, Seal!Goto
  <2> QED  BY <1>1, <2>2 DEF Seal!MayPublish, KeysInv
<1>2. KeysInv /\ [Seal!Next]_Seal!vars =>
        [env # 0 /\ env' # env =>
           pc' = pc \/ \E p \in Procs : pc[p] = "publish" /\ pc'[p] = "idle" /\ arg[p].force]_Seal!vars
  BY <1>1
<1> QED  BY <1>2, KeysInit, KeysStep, PTL DEF Seal!Spec, Seal!EditsSurvive
-----------------------------------------------------------------------------
(* ------------------------------- Dry runs ------------------------------- *)
(* What the overlay knows of a name: one it has neither read nor changed is as it
   was before the run, or was renamed away; of the others that it does not doubt
   it tells rightly whether they run, and of those of this run all of it.     *)
Overlaid(n) ==
  /\ n \notin seeded => sim[n] = "absent" /\ (n \in doubt \/ live[n] = real[n])
  /\ n \in seeded \ doubt => Sim!Runs(sim[n]) = Sim!Runs(live[n])
  /\ n \in mine => n \in seeded \ doubt /\ sim[n] = live[n]
Tagged(t) ==
  /\ t \notin seeded => t \notin ids
  /\ t \in seeded \ doubt => (t \in ids <=> t \in images)
SimInv ==
  /\ real \in [Containers -> Sim!States] /\ live \in [Containers -> Sim!States]
  /\ sim \in [Containers -> Sim!States]
  /\ seeded \subseteq Containers \cup Tags /\ mine \subseteq Containers
  /\ \A n \in Containers : Overlaid(n)
  /\ \A t \in Tags : Tagged(t)

LEMMA AsBoolean == ASSUME NEW P \in BOOLEAN PROVE \E b \in BOOLEAN : b = P
  OBVIOUS

(* What a probe that ran tells of a container and of an image.               *)
LEMMA InspectTells ==
  ASSUME NEW s, NEW yes \in BOOLEAN, s = "absent" => ~yes, NEW told \in Sim!Inspect(s, yes), told.ran
  PROVE  told.verdict = IF yes THEN "yes" ELSE "no"
<1>1. /\ Sim!Answered([exit |-> 0, says |-> "nothing"], yes) = IF yes THEN "yes" ELSE "no"
      /\ Sim!Answered([exit |-> 1, says |-> "no such"], yes) = "no"
  BY DEF Sim!Answered, Sim!probe_absent_or_err
<1>2. ASSUME NEW o, told = [verdict |-> Sim!Answered(o, yes), ran |-> TRUE]
      PROVE  told.verdict = Sim!Answered(o, yes)
  BY <1>2
<1>3. ASSUME NEW o, told = [verdict |-> Sim!Answered(o, yes), ran |-> FALSE]
      PROVE  told.ran = FALSE
  BY <1>3
<1>4. \/ \E o \in {IF s = "absent" THEN Sim!Gone ELSE Sim!Ok} : told = [verdict |-> Sim!Answered(o, yes), ran |-> TRUE]
      \/ \E o \in Sim!Failures : told = [verdict |-> Sim!Answered(o, yes), ran |-> FALSE]
  BY DEF Sim!Inspect, Sim!Told
<1>5. told.verdict = Sim!Answered(IF s = "absent" THEN Sim!Gone ELSE Sim!Ok, yes)
  BY <1>2, <1>3, <1>4
<1> QED  BY <1>1, <1>5 DEF Sim!Gone, Sim!Ok

LEMMA ImageTells ==
  ASSUME NEW t, NEW told \in Sim!ImageInspect(t), told.ran
  PROVE  told.verdict = IF t \in images THEN "yes" ELSE "no"
<1>1. /\ Sim!real_image_id([exit |-> 0, says |-> "nothing"]) = "yes"
      /\ Sim!real_image_id([exit |-> 1, says |-> "no such"]) = "no"
      /\ Sim!real_image_id([exit |-> 125, says |-> "image not known"]) = "no"
  BY DEF Sim!real_image_id, Sim!probe_absent_or_err
<1>2. ASSUME NEW o, told = [verdict |-> Sim!real_image_id(o), ran |-> TRUE]
      PROVE  told.verdict = Sim!real_image_id(o)
  BY <1>2
<1>3. ASSUME NEW o, told = [verdict |-> Sim!real_image_id(o), ran |-> FALSE]
      PROVE  told.ran = FALSE
  BY <1>3
<1>4. \/ \E o \in IF t \in images THEN {Sim!Ok} ELSE {Sim!Gone, Sim!Unknown} :
           told = [verdict |-> Sim!real_image_id(o), ran |-> TRUE]
      \/ \E o \in Sim!Failures : told = [verdict |-> Sim!real_image_id(o), ran |-> FALSE]
  BY DEF Sim!ImageInspect, Sim!Told
<1>5. \E o \in IF t \in images THEN {Sim!Ok} ELSE {Sim!Gone, Sim!Unknown} : told.verdict = Sim!real_image_id(o)
  BY <1>2, <1>3, <1>4
<1> QED  BY <1>1, <1>5 DEF Sim!Gone, Sim!Ok, Sim!Unknown

(* An answer of which host and overlay say the same keeps the promise.       *)
LEMMA SameAnswer ==
  ASSUME NEW of, NEW plan \in BOOLEAN, NEW sure \in BOOLEAN, NEW found, Sim!Answer(of, plan, found, sure),
         found.ran /\ sure => found.verdict = IF plan THEN "yes" ELSE "no"
  PROVE  Sim!PlanAgrees'
<1>1. /\ answer'.dry = (IF plan THEN "yes" ELSE "no") /\ answer'.live = found.verdict
      /\ answer'.ran = found.ran /\ answer'.sure = sure
  BY DEF Sim!Answer
<1>2. answer'.ran /\ answer'.sure => answer'.dry = answer'.live
  BY <1>1
<1> QED  BY <1>2 DEF Sim!PlanAgrees

(* A command that makes the same of a name on the host and in the overlay.   *)
LEMMA SimCommand ==
  ASSUME Sim!OverlayAssumption, SimInv, NEW n \in Containers, NEW s \in Sim!States,
         live' = [live EXCEPT ![n] = s], sim' = [sim EXCEPT ![n] = s], seeded' = seeded \cup {n},
         Sim!Own(n), UNCHANGED <<real, images, ids>>
  PROVE  SimInv'
<1>1. /\ real' \in [Containers -> Sim!States] /\ live' \in [Containers -> Sim!States]
      /\ sim' \in [Containers -> Sim!States]
      /\ \A q \in Containers : live'[q] = (IF q = n THEN s ELSE live[q]) /\ sim'[q] = IF q = n THEN s ELSE sim[q]
  BY DEF SimInv
<1>2. seeded' \subseteq Containers \cup Tags /\ mine' \subseteq Containers
  BY DEF SimInv, Sim!Own
<1>3. ASSUME NEW q \in Containers PROVE Overlaid(q)'
  <2>1. Overlaid(q)
    BY DEF SimInv
  <2>2. CASE q = n
    BY <1>1, <2>2 DEF Overlaid, Sim!Own
  <2>3. CASE q # n
    BY <1>1, <2>1, <2>3 DEF Overlaid, Sim!Own
  <2> QED  BY <2>2, <2>3
<1>4. ASSUME NEW t \in Tags PROVE Tagged(t)'
  <2>1. Tagged(t) /\ t # n
    BY DEF SimInv, Sim!OverlayAssumption
  <2> QED  BY <2>1 DEF Tagged, Sim!Own
<1> QED  BY <1>1, <1>2, <1>3, <1>4 DEF SimInv

LEMMA SimCommands ==
  ASSUME Sim!OverlayAssumption, SimInv, NEW n \in Containers,
         \/ Sim!sim_docker_run(n) \/ Sim!sim_docker_stop(n)
         \/ Sim!sim_docker_restart(n) \/ Sim!sim_docker_remove(n)
  PROVE  SimInv' /\ answer' = None
<1>1. PICK s \in Sim!States :
        /\ live' = [live EXCEPT ![n] = s] /\ sim' = [sim EXCEPT ![n] = s]
        /\ seeded' = seeded \cup {n} /\ Sim!Own(n) /\ Sim!Command
  BY DEF Sim!sim_docker_run, Sim!sim_docker_stop, Sim!sim_docker_restart, Sim!sim_docker_remove,
         Sim!set_running, Sim!set_stopped, Sim!set_restarted, Sim!forget, Sim!Becomes, Sim!States
<1> QED  BY <1>1, SimCommand DEF Sim!Command, Sim!world

(* What a container was is now under another name, and the old one is in doubt. *)
LEMMA SimRename ==
  ASSUME Sim!OverlayAssumption, SimInv, NEW o \in Containers, NEW n \in Containers, Sim!sim_docker_rename(o, n)
  PROVE  SimInv' /\ answer' = None
<1>1. /\ o # n /\ live[o] # "absent" /\ UNCHANGED <<real, images, ids>> /\ answer' = None
      /\ sim' = [sim EXCEPT ![n] = IF sim[o] = "absent" THEN @ ELSE sim[o], ![o] = "absent"]
      /\ seeded' = (seeded \ {o}) \cup {n}
      /\ live' = [live EXCEPT ![n] = live[o], ![o] = "absent"]
      /\ mine' = (mine \ {o, n}) \cup (IF o \in mine THEN {n} ELSE {})
      /\ doubt' = (doubt \ {n}) \cup {o} \cup IF sim[o] = "absent" \/ o \in doubt THEN {n} ELSE {}
  BY DEF Sim!sim_docker_rename, Sim!Command, Sim!rename, Sim!world
<1>2. /\ real' \in [Containers -> Sim!States] /\ live' \in [Containers -> Sim!States]
      /\ sim' \in [Containers -> Sim!States]
      /\ \A q \in Containers :
           /\ live'[q] = IF q = o THEN "absent" ELSE IF q = n THEN live[o] ELSE live[q]
           /\ sim'[q] = IF q = o \/ (q = n /\ sim[o] = "absent" /\ sim[n] = "absent") THEN "absent"
                        ELSE IF q = n /\ sim[o] # "absent" THEN sim[o] ELSE sim[q]
  BY <1>1 DEF SimInv, Sim!States
<1>3. seeded' \subseteq Containers \cup Tags /\ mine' \subseteq Containers
  BY <1>1 DEF SimInv
<1>4. ASSUME NEW q \in Containers PROVE Overlaid(q)'
  <2>1. Overlaid(q) /\ Overlaid(o)
    BY DEF SimInv
  <2>2. CASE q = o
    BY <1>1, <1>2, <2>2 DEF Overlaid
  <2>3. CASE q = n
    BY <1>1, <1>2, <2>1, <2>3 DEF Overlaid
  <2>4. CASE q \notin {o, n}
    BY <1>1, <1>2, <2>1, <2>4 DEF Overlaid
  <2> QED  BY <2>2, <2>3, <2>4
<1>5. ASSUME NEW t \in Tags PROVE Tagged(t)'
  <2>1. Tagged(t) /\ t # n /\ t # o
    BY DEF SimInv, Sim!OverlayAssumption
  <2> QED  BY <1>1, <2>1 DEF Tagged
<1> QED  BY <1>1, <1>2, <1>3, <1>4, <1>5 DEF SimInv

LEMMA SimRunning ==
  ASSUME Sim!OverlayAssumption, SimInv, NEW n \in Containers, Sim!sim_container_running(n)
  PROVE  SimInv' /\ Sim!PlanAgrees'
<1>1. UNCHANGED <<real, images, live, mine, ids>>
  BY DEF Sim!sim_container_running, Sim!world
<1>2. SimInv'
  <2>1. CASE UNCHANGED <<sim, seeded, doubt>>
    BY <1>1, <2>1 DEF SimInv, Overlaid, Tagged, Sim!Runs
  <2>2. ASSUME n \notin seeded, NEW told \in Sim!Inspect(real[n], Sim!Runs(real[n])), Sim!seed_running(n, told)
        PROVE  SimInv'
    <3>1. /\ sim' = [sim EXCEPT ![n] = IF told.verdict = "yes" THEN "healthy" ELSE "stopped"]
          /\ seeded' = seeded \cup {n} /\ doubt' = IF told.ran THEN doubt ELSE doubt \cup {n}
      BY <2>2 DEF Sim!seed_running
    <3>2. told.ran => told.verdict = IF Sim!Runs(real[n]) THEN "yes" ELSE "no"
      <4>1. PICK yes \in BOOLEAN : yes = Sim!Runs(real[n])
        <5>1. Sim!Runs(real[n]) \in BOOLEAN
          BY DEF Sim!Runs
        <5> QED  BY <5>1, AsBoolean
      <4>2. told \in Sim!Inspect(real[n], yes) /\ (real[n] = "absent" => ~yes)
        BY <2>2, <4>1 DEF Sim!Runs
      <4> QED  BY <4>1, <4>2, InspectTells
    <3>3. /\ sim' \in [Containers -> Sim!States] /\ \A q \in Containers \ {n} : sim'[q] = sim[q]
          /\ sim'[n] = IF told.verdict = "yes" THEN "healthy" ELSE "stopped"
      BY <3>1 DEF SimInv, Sim!States
    <3>4. ASSUME NEW q \in Containers PROVE Overlaid(q)'
      <4>1. Overlaid(q)
        BY DEF SimInv
      <4>2. CASE q = n
        <5>1. n \in seeded' /\ n \notin mine'
          BY <1>1, <2>2, <3>1, <4>1, <4>2 DEF Overlaid
        <5>2. n \notin doubt' => told.ran /\ live[n] = real[n]
          BY <2>2, <3>1, <4>1, <4>2 DEF Overlaid
        <5>3. n \notin doubt' => Sim!Runs(sim'[n]) = Sim!Runs(live[n])
          BY <3>2, <3>3, <5>2 DEF Sim!Runs
        <5> QED  BY <1>1, <4>2, <5>1, <5>3 DEF Overlaid, Sim!Runs
      <4>3. CASE q # n
        <5>1. sim'[q] = sim[q] /\ (q \in seeded' <=> q \in seeded) /\ (q \in doubt' <=> q \in doubt)
          BY <3>1, <3>3, <4>3
        <5> QED  BY <1>1, <4>1, <5>1 DEF Overlaid, Sim!Runs
      <4> QED  BY <4>2, <4>3
    <3>5. ASSUME NEW t \in Tags PROVE Tagged(t)'
      <4>1. Tagged(t) /\ t # n
        BY DEF SimInv, Sim!OverlayAssumption
      <4> QED  BY <1>1, <3>1, <4>1 DEF Tagged
    <3> QED  BY <1>1, <3>1, <3>3, <3>4, <3>5 DEF SimInv
  <2> QED  BY <2>1, <2>2 DEF Sim!sim_container_running
<1>3. PICK found \in Sim!Inspect(live[n], Sim!Runs(live[n])) :
        Sim!Answer("running", Sim!Runs(sim'[n]), found, n \notin doubt')
  BY DEF Sim!sim_container_running
<1>4. n \in seeded'
  BY DEF Sim!sim_container_running, Sim!seed_running
<1>5. n \notin doubt' => Sim!Runs(sim'[n]) = Sim!Runs(live[n])
  <2>1. Overlaid(n)'
    BY <1>2 DEF SimInv
  <2> QED  BY <1>1, <1>4, <2>1 DEF Overlaid, Sim!Runs
<1>6. PICK plan \in BOOLEAN, sure \in BOOLEAN, yes \in BOOLEAN :
        plan = Sim!Runs(sim'[n]) /\ sure = (n \notin doubt') /\ yes = Sim!Runs(live[n])
  <2>1. Sim!Runs(sim'[n]) \in BOOLEAN /\ Sim!Runs(live[n]) \in BOOLEAN
    BY DEF Sim!Runs
  <2>2. (n \notin doubt') \in BOOLEAN
    OBVIOUS
  <2> QED  BY <2>1, <2>2, AsBoolean
<1>7. found.ran => found.verdict = IF yes THEN "yes" ELSE "no"
  <2>1. found \in Sim!Inspect(live[n], yes) /\ (live[n] = "absent" => ~yes)
    BY <1>3, <1>6 DEF Sim!Runs
  <2> QED  BY <2>1, InspectTells
<1>8. found.ran /\ sure => found.verdict = IF plan THEN "yes" ELSE "no"
  BY <1>5, <1>6, <1>7
<1>9. Sim!Answer("running", plan, found, sure)
  BY <1>3, <1>6
<1> QED  BY <1>2, <1>8, <1>9, SameAnswer

LEMMA SimHealthy ==
  ASSUME SimInv, NEW n \in Containers, Sim!sim_container_healthy(n)
  PROVE  SimInv' /\ Sim!PlanAgrees'
<1>1. UNCHANGED <<real, images, live, mine, ids, sim, seeded, doubt>>
  BY DEF Sim!sim_container_healthy, Sim!world, Sim!containers
<1>2. SimInv'
  BY <1>1 DEF SimInv, Overlaid, Tagged, Sim!Runs
<1>3. PICK found \in Sim!Inspect(live[n], live[n] = "healthy") :
        Sim!Answer("healthy", sim[n] = "healthy", found, n \in mine)
  BY DEF Sim!sim_container_healthy
<1>4. PICK plan \in BOOLEAN, sure \in BOOLEAN, yes \in BOOLEAN :
        plan = (sim[n] = "healthy") /\ sure = (n \in mine) /\ yes = (live[n] = "healthy")
  <2>1. (sim[n] = "healthy") \in BOOLEAN /\ (n \in mine) \in BOOLEAN /\ (live[n] = "healthy") \in BOOLEAN
    OBVIOUS
  <2> QED  BY <2>1, AsBoolean
<1>5. found \in Sim!Inspect(live[n], yes) /\ (live[n] = "absent" => ~yes)
  BY <1>3, <1>4
<1>6. found.ran => found.verdict = IF yes THEN "yes" ELSE "no"
  BY <1>5, InspectTells
<1>7. n \in mine => sim[n] = live[n]
  BY DEF SimInv, Overlaid
<1>8. found.ran /\ sure => found.verdict = IF plan THEN "yes" ELSE "no"
  BY <1>4, <1>6, <1>7
<1>9. Sim!Answer("healthy", plan, found, sure)
  BY <1>3, <1>4
<1> QED  BY <1>2, <1>8, <1>9, SameAnswer

LEMMA SimImage ==
  ASSUME Sim!OverlayAssumption, SimInv, NEW t \in Tags, Sim!sim_image_id(t)
  PROVE  SimInv' /\ Sim!PlanAgrees'
<1>1. UNCHANGED <<real, images, live, mine, sim>>
  BY DEF Sim!sim_image_id, Sim!world, Sim!containers
<1>2. SimInv'
  <2>1. CASE UNCHANGED <<seeded, ids, doubt>>
    BY <1>1, <2>1 DEF SimInv, Overlaid, Tagged, Sim!Runs
  <2>2. ASSUME t \notin seeded, NEW told \in Sim!ImageInspect(t), Sim!seed_image(t, told) PROVE SimInv'
    <3>1. /\ seeded' = seeded \cup {t}
          /\ ids' = IF told.verdict = "yes" THEN ids \cup {t} ELSE ids
          /\ doubt' = IF told.ran THEN doubt ELSE doubt \cup {t}
      BY <2>2 DEF Sim!seed_image
    <3>2. told.ran => told.verdict = IF t \in images THEN "yes" ELSE "no"
      BY <2>2, ImageTells
    <3>3. ASSUME NEW n \in Containers PROVE Overlaid(n)'
      <4>1. Overlaid(n) /\ n # t
        BY DEF SimInv, Sim!OverlayAssumption
      <4>2. (n \in seeded' <=> n \in seeded) /\ (n \in doubt' <=> n \in doubt)
        BY <3>1, <4>1
      <4> QED  BY <1>1, <4>1, <4>2 DEF Overlaid, Sim!Runs
    <3>4. ASSUME NEW q \in Tags PROVE Tagged(q)'
      <4>1. Tagged(q)
        BY DEF SimInv
      <4>2. CASE q = t
        BY <1>1, <2>2, <3>1, <3>2, <4>1, <4>2 DEF Tagged
      <4>3. CASE q # t
        BY <1>1, <3>1, <4>1, <4>3 DEF Tagged
      <4> QED  BY <4>2, <4>3
    <3> QED  BY <1>1, <3>1, <3>3, <3>4 DEF SimInv
  <2> QED  BY <2>1, <2>2 DEF Sim!sim_image_id
<1>3. PICK found \in Sim!ImageInspect(t) : Sim!Answer("image", t \in ids', found, t \notin doubt')
  BY DEF Sim!sim_image_id
<1>4. t \in seeded'
  BY DEF Sim!sim_image_id, Sim!seed_image
<1>5. t \notin doubt' => (t \in ids' <=> t \in images)
  BY <1>1, <1>2, <1>4 DEF SimInv, Tagged
<1>6. found.ran => found.verdict = IF t \in images THEN "yes" ELSE "no"
  BY ImageTells
<1>7. PICK plan \in BOOLEAN, sure \in BOOLEAN : plan = (t \in ids') /\ sure = (t \notin doubt')
  <2>1. (t \in ids') \in BOOLEAN /\ (t \notin doubt') \in BOOLEAN
    OBVIOUS
  <2> QED  BY <2>1, AsBoolean
<1>8. found.ran /\ sure => found.verdict = IF plan THEN "yes" ELSE "no"
  BY <1>5, <1>6, <1>7
<1>9. Sim!Answer("image", plan, found, sure)
  BY <1>3, <1>7
<1> QED  BY <1>2, <1>8, <1>9, SameAnswer

LEMMA SimInit == Sim!OverlayAssumption /\ Sim!Init => SimInv /\ Sim!PlanAgrees
<1> SUFFICES ASSUME Sim!OverlayAssumption, Sim!Init PROVE SimInv /\ Sim!PlanAgrees
  OBVIOUS
<1>1. real \in [Containers -> Sim!States]
  BY DEF Sim!OverlayAssumption, Sim!Init
<1> QED  BY <1>1 DEF Sim!Init, SimInv, Sim!PlanAgrees, Overlaid, Tagged, Sim!States

LEMMA SimStep ==
  ASSUME Sim!OverlayAssumption, SimInv, Sim!PlanAgrees, [Sim!Next]_Sim!vars
  PROVE  SimInv' /\ Sim!PlanAgrees'
<1>1. CASE UNCHANGED Sim!vars
  BY <1>1 DEF Sim!vars, Sim!world, Sim!containers, SimInv, Overlaid, Tagged, Sim!Runs, Sim!PlanAgrees
<1>2. CASE \E n \in Containers :
       \/ Sim!sim_docker_run(n) \/ Sim!sim_docker_stop(n) \/ Sim!sim_docker_restart(n)
       \/ Sim!sim_docker_remove(n) \/ \E o \in Containers : Sim!sim_docker_rename(o, n)
  <2>1. SimInv' /\ answer' = None
    BY <1>2, SimCommands, SimRename
  <2> QED  BY <2>1 DEF Sim!PlanAgrees
<1>3. CASE \E n \in Containers : Sim!sim_container_running(n) \/ Sim!sim_container_healthy(n)
  BY <1>3, SimRunning, SimHealthy
<1>4. CASE \E t \in Tags : Sim!sim_image_id(t)
  BY <1>4, SimImage
<1> QED  BY <1>1, <1>2, <1>3, <1>4 DEF Sim!Next

(* engine/sim.rs, builtins/sim.rs: whatever a host was like and whatever a script
   does, in any order, a dry run answers as the host would in a live run, but of
   a name that was renamed away, a failed probe, and health it did not make.  *)
LEMMA SimHolds == ASSUME Sim!OverlayAssumption PROVE Sim!Spec => []Sim!PlanAgrees
<1>1. Sim!Spec => [](SimInv /\ Sim!PlanAgrees)
  BY SimInit, SimStep, PTL DEF Sim!Spec
<1> QED  BY <1>1, PTL
-----------------------------------------------------------------------------
(* -------------------------- Ports of dry runs --------------------------- *)
Picks == [base : Int, dry : Nat, live : 0 .. MaxPort, published : BOOLEAN]
(* The plan moves on with each port it grants, so that a port it named for a base
   is below the next one; what was published answers in both.                *)
PickedRight(i) ==
  /\ picked[i].dry # 0 =>
       /\ picked[i].dry <= MaxPort /\ picked[i].dry \in occupied
       /\ picked[i].dry < Ports!as_port(picked[i].base) + Offset + port_picks
  /\ i <= Span => (picked[i].live # 0 => picked[i].dry # 0)
  /\ picked[i].published => picked[i].live \in listening /\ picked[i].dry # 0
  /\ \A j \in 1 .. i - 1 :
       picked[j].base = picked[i].base /\ picked[i].dry # 0 => picked[j].dry # picked[i].dry
PortsInv ==
  /\ port_picks \in Nat /\ picked \in Seq(Picks) /\ port_picks <= Len(picked)
  /\ \A i \in 1 .. Len(picked) : PickedRight(i)
  /\ waited # <<>> /\ waited.ran /\ waited.published => waited.dry = waited.live

(* A set of natural numbers has a least one.                                *)
LEMMA Least ==
  ASSUME NEW T \in SUBSET Nat, T # {}
  PROVE  \E x \in T : \A y \in T : x <= y
<1> DEFINE Less == OpToRel(<, Nat)
<1>1. \A x, y \in Nat : <<x, y>> \in Less <=> x < y
  BY DEF OpToRel
<1>2. IsWellFoundedOn(Less, Nat)
  BY NatLessThanWellFounded
<1> HIDE DEF Less
<1>3. \E x \in T : \A y \in T : <<y, x>> \notin Less
  BY <1>2, WFMin
<1>4. PICK x \in T : \A y \in T : <<y, x>> \notin Less
  BY <1>3
<1>5. \A y \in T : ~(y < x)
  BY <1>1, <1>4
<1>6. \A y \in T : x <= y
  BY <1>5
<1> QED  BY <1>6

LEMMA PortRange ==
  ASSUME Ports!PortsAssumption, NEW b \in Int
  PROVE  Ports!as_port(b) \in 0 .. MaxPort
  BY DEF Ports!as_port, Ports!PortsAssumption

LEMMA LivePicked ==
  ASSUME Ports!PortsAssumption, NEW b \in Int
  PROVE  /\ Ports!LivePort(b) \in 0 .. MaxPort
         /\ Ports!LivePort(b) # 0 => Ports!as_port(b) + Offset + Span - 1 <= MaxPort
<1> DEFINE start == Ports!as_port(b) + Offset
           free  == Ports!Candidates(b) \ listening
<1>1. start \in Nat /\ Span \in Nat /\ MaxPort \in Nat /\ Span > 0
  BY PortRange DEF Ports!PortsAssumption
<1>2. CASE free = {}
  BY <1>1, <1>2 DEF Ports!LivePort
<1>3. CASE free # {}
  <2>1. start + Span - 1 <= MaxPort /\ free \subseteq start .. start + Span - 1
    BY <1>1, <1>3 DEF Ports!Candidates
  <2> HIDE DEF start, free
  <2>2. free \in SUBSET Nat
    BY <1>1, <2>1
  <2>3. \E p \in free : \A q \in free : p <= q
    BY <1>3, <2>2, Least
  <2>4. (CHOOSE p \in free : \A q \in free : p <= q) \in free
    BY <2>3
  <2>5. Ports!LivePort(b) = CHOOSE p \in free : \A q \in free : p <= q
    BY <1>3 DEF Ports!LivePort, free
  <2>6. Ports!LivePort(b) \in start .. start + Span - 1
    BY <2>1, <2>4, <2>5
  <2>7. Ports!LivePort(b) \in 0 .. MaxPort
    BY <1>1, <2>1, <2>6
  <2> QED  BY <2>1, <2>7 DEF start
<1> QED  BY <1>2, <1>3

LEMMA PickPort ==
  ASSUME Ports!PortsAssumption, PortsInv, NEW b \in Bases, Ports!sim_pick_port(b) PROVE PortsInv'
<1>0. PICK p : p = Ports!DryPort(b)
  OBVIOUS
<1>1. PICK found \in {Ports!LivePort(b), 0} :
        /\ waited' = <<>> /\ listening' = listening
        /\ port_picks' = IF p = 0 THEN port_picks ELSE port_picks + 1
        /\ occupied' = IF p = 0 THEN occupied ELSE occupied \cup {p}
        /\ picked' = Append(picked, [base |-> b, dry |-> p, live |-> found, published |-> FALSE])
  BY <1>0 DEF Ports!sim_pick_port
<1>2. PICK n \in Nat, start \in Nat : n = Len(picked) /\ start = Ports!as_port(b) + Offset /\ b \in Int /\ start > 0
  <2>1. b \in Int /\ MaxPort \in Nat /\ Offset \in Nat /\ Offset > 0
    BY DEF Ports!PortsAssumption
  <2>2. Ports!as_port(b) \in 0 .. MaxPort
    BY <2>1, PortRange
  <2>3. Ports!as_port(b) + Offset \in Nat /\ Ports!as_port(b) + Offset > 0
    BY <2>1, <2>2
  <2>4. Len(picked) \in Nat
    BY DEF PortsInv
  <2> QED  BY <2>1, <2>3, <2>4
<1>3. /\ port_picks \in Nat /\ port_picks <= n /\ Span \in Nat /\ MaxPort \in Nat
      /\ \A i \in 1 .. n : PickedRight(i)
  BY <1>2 DEF PortsInv, Ports!PortsAssumption
<1>4. p \in Nat /\ p = (IF start + port_picks > MaxPort THEN 0 ELSE start + port_picks)
  BY <1>0, <1>2, <1>3 DEF Ports!DryPort
<1>5. found \in 0 .. MaxPort /\ (found # 0 => start + Span - 1 <= MaxPort)
  <2>1. /\ Ports!LivePort(b) \in 0 .. MaxPort
        /\ Ports!LivePort(b) # 0 => start + Span - 1 <= MaxPort
    BY <1>2, LivePicked
  <2> QED  BY <1>1, <1>3, <2>1
<1>6. PICK pick \in Picks : /\ pick = [base |-> b, dry |-> p, live |-> found, published |-> FALSE]
                          /\ pick.base = b /\ pick.dry = p /\ pick.live = found /\ pick.published = FALSE
  <2>1. [base |-> b, dry |-> p, live |-> found, published |-> FALSE] \in Picks
    BY <1>2, <1>4, <1>5 DEF Picks
  <2> QED  BY <2>1
<1>7. /\ picked' \in Seq(Picks) /\ Len(picked') = n + 1 /\ picked'[n + 1] = pick
      /\ \A i \in 1 .. n : picked'[i] = picked[i]
  BY <1>1, <1>2, <1>6 DEF PortsInv
<1>8. \A i \in 1 .. n : picked[i] \in Picks
  BY <1>2 DEF PortsInv
<1>9. port_picks' \in Nat /\ port_picks <= port_picks' /\ occupied \subseteq occupied'
      /\ port_picks' <= n + 1
  BY <1>1, <1>3
<1>10. ASSUME NEW i \in 1 .. n PROVE PickedRight(i)'
  <2>1. PickedRight(i) /\ picked[i].dry \in Nat /\ picked[i].base \in Int
    BY <1>3, <1>8 DEF Picks
  <2>2. Ports!as_port(picked[i].base) \in Nat /\ Offset \in Nat
    BY <2>1, PortRange DEF Ports!PortsAssumption
  <2>3. picked[i].dry < Ports!as_port(picked[i].base) + Offset + port_picks
        => picked[i].dry < Ports!as_port(picked[i].base) + Offset + port_picks'
    BY <1>3, <1>9, <2>1, <2>2
  <2>4. Ports!as_port(picked[i].base)' = Ports!as_port(picked[i].base)
    BY <1>7 DEF Ports!as_port
  <2>5. \A j \in 1 .. i - 1 : picked'[j] = picked[j]
    BY <1>7
  <2> QED  BY <1>1, <1>7, <1>9, <2>1, <2>3, <2>4, <2>5 DEF PickedRight
<1>11. PickedRight(n + 1)'
  <2>1. p # 0 => p <= MaxPort /\ p \in occupied' /\ port_picks' = port_picks + 1 /\ p = start + port_picks
    BY <1>1, <1>3, <1>4
  <2>2. p # 0 => p < start + port_picks'
    BY <1>2, <1>3, <2>1
  <2>3. n + 1 <= Span => (found # 0 => p # 0)
    <3>1. SUFFICES ASSUME n + 1 <= Span, found # 0, p = 0 PROVE FALSE
      OBVIOUS
    <3>2. start + Span - 1 <= MaxPort /\ port_picks <= Span - 1
      BY <1>2, <1>3, <1>5, <3>1
    <3>3. start + port_picks <= MaxPort
      BY <1>2, <1>3, <3>2
    <3>4. p = start + port_picks
      BY <1>2, <1>3, <1>4, <3>3
    <3> QED  BY <1>2, <1>3, <3>1, <3>4
  <2>4. ASSUME NEW j \in 1 .. n, picked[j].base = b, p # 0 PROVE picked[j].dry # p
    <3>1. PickedRight(j) /\ picked[j] \in Picks
      BY <1>3, <1>8
    <3>2. picked[j].dry # 0 => picked[j].dry < start + port_picks
      BY <1>2, <2>4, <3>1 DEF PickedRight
    <3> QED  BY <1>2, <1>3, <2>1, <2>4, <3>1, <3>2 DEF Picks
  <2>5. Ports!as_port(b)' + Offset = start
    BY <1>2 DEF Ports!as_port
  <2> QED  BY <1>6, <1>7, <2>1, <2>2, <2>3, <2>4, <2>5 DEF PickedRight
<1>12. \A i \in 1 .. n + 1 : i \in 1 .. n \/ i = n + 1
  BY <1>2
<1> QED  BY <1>1, <1>7, <1>9, <1>10, <1>11, <1>12 DEF PortsInv

LEMMA PublishedPick ==
  ASSUME NEW old \in Picks, NEW pick, pick = [old EXCEPT !.published = TRUE]
  PROVE  /\ pick \in Picks /\ pick.base = old.base /\ pick.dry = old.dry
         /\ pick.live = old.live /\ pick.published = TRUE
  BY DEF Picks

LEMMA Publish ==
  ASSUME Ports!PortsAssumption, PortsInv, NEW i \in DOMAIN picked, Ports!sim_docker_run(i) PROVE PortsInv'
<1>1. /\ listening' = listening \cup {picked[i].live} /\ picked[i].dry # 0
      /\ picked' = [picked EXCEPT ![i].published = TRUE]
      /\ waited' = <<>> /\ UNCHANGED <<port_picks, occupied>>
  BY DEF Ports!sim_docker_run
<1>2. PICK n \in Nat : n = Len(picked) /\ i \in 1 .. n
  BY DEF PortsInv
<1>3. \A q \in 1 .. n : picked[q] \in Picks /\ PickedRight(q)
  BY <1>2 DEF PortsInv
<1>4. PICK pick \in Picks :
        /\ pick = [picked[i] EXCEPT !.published = TRUE]
        /\ pick.base = picked[i].base /\ pick.dry = picked[i].dry
        /\ pick.live = picked[i].live /\ pick.published = TRUE
  BY <1>2, <1>3, PublishedPick
<1>5. /\ picked' \in Seq(Picks) /\ Len(picked') = n
      /\ \A q \in 1 .. n : picked'[q] = IF q = i THEN pick ELSE picked[q]
  <2>1. picked' = [picked EXCEPT ![i] = pick]
    BY <1>1, <1>4
  <2> QED  BY <1>2, <2>1, ExceptSeq DEF PortsInv
<1>6. \A q \in 1 .. n : /\ picked'[q].base = picked[q].base /\ picked'[q].dry = picked[q].dry
                        /\ picked'[q].live = picked[q].live
                        /\ picked'[q].published => q = i \/ picked[q].published
  BY <1>4, <1>5
<1>7. ASSUME NEW q \in 1 .. n PROVE PickedRight(q)'
  <2>1. PickedRight(q)
    BY <1>3
  <2>2. \A j \in 1 .. q - 1 : picked'[j].base = picked[j].base /\ picked'[j].dry = picked[j].dry
    BY <1>6
  <2>3. picked'[q].published => picked'[q].live \in listening' /\ picked'[q].dry # 0
    BY <1>1, <1>6, <2>1 DEF PickedRight
  <2>4. Ports!as_port(picked[q].base)' = Ports!as_port(picked[q].base)
    BY <1>6 DEF Ports!as_port
  <2> QED  BY <1>1, <1>6, <2>1, <2>2, <2>3, <2>4 DEF PickedRight
<1> QED  BY <1>1, <1>2, <1>5, <1>7 DEF PortsInv

LEMMA OpenPort == Ports!real_port_open([exit |-> 0, says |-> "nothing"]) = "yes"
<1>1. ASSUME NEW reply, reply.exit = 0 PROVE Ports!real_port_open(reply) = "yes"
  BY <1>1 DEF Ports!real_port_open
<1>2. [exit |-> 0, says |-> "nothing"].exit = 0
  OBVIOUS
<1> QED  BY <1>1, <1>2

LEMMA WaitPort ==
  ASSUME Ports!PortsAssumption, PortsInv, NEW i \in DOMAIN picked, Ports!sim_wait_port(i) PROVE PortsInv'
<1>1. PICK told \in Ports!Told(Ports!real_port_open, IF picked[i].live \in listening THEN {Ports!Ok} ELSE {Ports!Closed}) :
        waited' = [dry |-> IF picked[i].dry \in occupied THEN "yes" ELSE "no",
                   live |-> told.verdict, ran |-> told.ran, published |-> picked[i].published]
  BY DEF Ports!sim_wait_port
<1>2. UNCHANGED <<port_picks, occupied, listening, picked>>
  BY DEF Ports!sim_wait_port
<1>3. PickedRight(i)
  BY DEF PortsInv
<1>4. picked[i].published => picked[i].live \in listening /\ picked[i].dry \in occupied
  BY <1>3 DEF PickedRight
<1>5. told.ran /\ picked[i].live \in listening => told.verdict = "yes"
  <2>1. Ports!real_port_open([exit |-> 0, says |-> "nothing"]) = "yes"
    BY OpenPort
  <2>2. ASSUME NEW o, told = [verdict |-> Ports!real_port_open(o), ran |-> TRUE]
        PROVE  told.verdict = Ports!real_port_open(o)
    BY <2>2
  <2>3. ASSUME NEW o, told = [verdict |-> Ports!real_port_open(o), ran |-> FALSE]
        PROVE  told.ran = FALSE
    BY <2>3
  <2>4. \/ \E o \in IF picked[i].live \in listening THEN {Ports!Ok} ELSE {Ports!Closed} :
             told = [verdict |-> Ports!real_port_open(o), ran |-> TRUE]
        \/ \E o \in Ports!Failures : told = [verdict |-> Ports!real_port_open(o), ran |-> FALSE]
    BY <1>1 DEF Ports!Told
  <2> QED  BY <2>1, <2>2, <2>3, <2>4 DEF Ports!Ok
<1>6. /\ waited'.dry = (IF picked[i].dry \in occupied THEN "yes" ELSE "no") /\ waited'.live = told.verdict
      /\ waited'.ran = told.ran /\ waited'.published = picked[i].published
  BY <1>1
<1>7. waited'.ran /\ waited'.published => waited'.dry = waited'.live
  BY <1>4, <1>5, <1>6
<1>8. \A q \in 1 .. Len(picked) : PickedRight(q)'
  BY <1>2 DEF PortsInv, PickedRight, Ports!as_port
<1> QED  BY <1>2, <1>7, <1>8 DEF PortsInv

LEMMA PortsInit == Ports!Init => PortsInv
<1> SUFFICES ASSUME Ports!Init PROVE PortsInv
  OBVIOUS
<1>1. port_picks = 0 /\ picked = <<>> /\ waited = <<>> /\ Len(picked) = 0 /\ picked \in Seq(Picks)
  BY EmptySeq DEF Ports!Init
<1> QED  BY <1>1 DEF PortsInv

LEMMA PortsStep == ASSUME Ports!PortsAssumption, PortsInv, [Ports!Next]_Ports!vars PROVE PortsInv'
<1>1. CASE UNCHANGED Ports!vars
  <2>1. UNCHANGED <<port_picks, occupied, listening, picked, waited>>
    BY <1>1 DEF Ports!vars
  <2>2. \A q \in 1 .. Len(picked) : PickedRight(q)'
    BY <2>1 DEF PortsInv, PickedRight, Ports!as_port
  <2> QED  BY <2>1, <2>2 DEF PortsInv
<1>2. CASE \E b \in Bases : Ports!sim_pick_port(b)
  BY <1>2, PickPort
<1>3. CASE \E i \in DOMAIN picked : Ports!sim_docker_run(i) \/ Ports!sim_wait_port(i)
  BY <1>3, Publish, WaitPort
<1> QED  BY <1>1, <1>2, <1>3 DEF Ports!Next

LEMMA PortsSound == ASSUME Ports!PortsAssumption, PortsInv PROVE Ports!PicksAreSound
<1>1. ASSUME NEW i \in DOMAIN picked
      PROVE  /\ {picked[i].dry, picked[i].live} \subseteq 0 .. MaxPort
             /\ i <= Span => (picked[i].live # 0 => picked[i].dry # 0)
             /\ \A j \in 1 .. i - 1 :
                  picked[j].base = picked[i].base /\ picked[i].dry # 0 => picked[j].dry # picked[i].dry
  <2>1. PickedRight(i) /\ picked[i] \in Picks
    BY DEF PortsInv
  <2>2. picked[i].dry \in Nat /\ picked[i].live \in 0 .. MaxPort /\ MaxPort \in Nat
    BY <2>1 DEF Picks, Ports!PortsAssumption
  <2> QED  BY <2>1, <2>2 DEF PickedRight
<1>2. waited # <<>> /\ waited.ran /\ waited.published => waited.dry = waited.live
  BY DEF PortsInv
<1> QED  BY <1>1, <1>2 DEF Ports!PicksAreSound

(* engine/sim.rs pick_port, builtins/sim.rs: for any ports in use, bases and picks,
   no run hands out a port that does not exist, the plan names none twice for a
   base and grants what a live run grants, and a published port answers in both. *)
LEMMA PortsHold == ASSUME Ports!PortsAssumption PROVE Ports!Spec => []Ports!PicksAreSound
<1>1. Ports!Spec => []PortsInv
  BY PortsInit, PortsStep, PTL DEF Ports!Spec
<1> QED  BY <1>1, PortsSound, PTL
-----------------------------------------------------------------------------
(* ------------------------------- Modules -------------------------------- *)
IsList(s) == s \in Seq({s[i] : i \in DOMAIN s})
Frames(s) ==
  /\ IsList(s)
  /\ \A i \in 1 .. Len(s) : s[i] = Module!Frame(s[i].in, s[i].from, s[i].of, s[i].rest)

(* What is left of the script of a rollback or a setup.                      *)
Aim == IF command = "setup" THEN "proxy" ELSE "deploy"
Left(p) ==
  IF command = "setup"
  THEN {<<Module!Import(p, "docker"), Module!Import(p, "proxy"),
          Module!Call(p, "docker"), Module!Call(p, "proxy")>>,
        <<Module!Import(p, "proxy"), Module!Call(p, "docker"), Module!Call(p, "proxy")>>,
        <<Module!Call(p, "docker"), Module!Call(p, "proxy")>>,
        <<Module!Call(p, "proxy")>>, <<>>}
  ELSE {<<Module!Import(p, "deploy"), Module!Call(p, "deploy")>>, <<Module!Call(p, "deploy")>>, <<>>}
CallsOnly(rest) == rest # <<>> => rest[1].do = "call"
NoCalls(rest) ==
  /\ IsList(rest)
  /\ \A i \in 1 .. Len(rest) :
       rest[i].do # "call" /\ (rest[i].do = "import" => rest[i].of \in Module!Names)
Acts(rest) == IsList(rest) /\ \E i \in 1 .. Len(rest) : rest[i].do = "effect"

Bottom == frames[Len(frames)]
Below  == frames[Len(frames) - 1]
Acted(how) == \E i \in 1 .. Len(did) : did[i] = [attempt |-> how, in |-> "body", of |-> Aim]

(* The script ends with the call it is for, which acts before it returns.    *)
ScriptInv ==
  /\ frames # <<>> /\ Bottom.from = "lib" /\ Bottom.rest \in Left(attempt)
  /\ Bottom.rest = <<>> =>
       \/ Acted(attempt)
       \/ Len(frames) > 1 /\ Below.in = "body" /\ Below.of = Aim /\ Acts(Below.rest)
(* Before the first call only top levels run, which call nothing; after it the
   script has nothing left to import, and whatever runs is below a function.  *)
Quiet ==
  /\ \A i \in 1 .. Len(did) : did[i].in # "body"
  /\ \A i \in 1 .. Len(frames) : frames[i].in # "body"
  /\ \A i \in 1 .. Len(frames) - 1 : NoCalls(frames[i].rest)
Calling == CallsOnly(Bottom.rest) /\ (Len(frames) > 1 => Below.in = "body")
LibInv ==
  /\ Quiet \/ Calling
  /\ CallsOnly(Bottom.rest) => loaded[Aim] # NoFile
StdInv == \A i \in 1 .. Len(frames) - 1 : frames[i].from = "std"

Told(n, words) == words = NoFile \/ Module!IsText(n, words)
TextsInv ==
  /\ files = [n \in Module!Names |-> files[n]] /\ loaded = [n \in Module!Names |-> loaded[n]]
  /\ \A n \in Module!Names : Told(n, files[n]) /\ Told(n, loaded[n])
  /\ copying \in Nat
AttemptInv ==
  IF command \in {"exec", "run"} THEN attempt = "file"
  ELSE /\ attempt \in {"lib", "std"} /\ ScriptInv
       /\ attempt = "lib" => LibInv
       /\ attempt = "std" => StdInv
EndsInv ==
  /\ ended \in {"not started", "refused"} => did = <<>>
  /\ ended = "not started" => attempt = "file" /\ missing = "none"
  /\ ended = "done" => command \in {"exec", "run"} \/ Acted(attempt)
  /\ missing = OwnModule => ended = "failed"
  /\ attempt = "std" => missing \in Module!ToSet(Embedded) \cup {"none"}
ModuleInv ==
  /\ TextsInv /\ EndsInv /\ Frames(frames) /\ IsList(did) /\ command \in Module!Commands
  /\ \A i \in 1 .. Len(did) : did[i].in = "body" => did[i].attempt = attempt
  /\ ended = "no" => AttemptInv

LEMMA ListFacts ==
  ASSUME NEW s, IsList(s)
  PROVE  Len(s) \in Nat /\ DOMAIN s = 1 .. Len(s) /\ (s = <<>> <=> Len(s) = 0)
  BY DEF IsList

LEMMA ListOf == ASSUME NEW S, NEW s \in Seq(S) PROVE IsList(s)
  BY DEF IsList

LEMMA TailFacts ==
  ASSUME NEW s, IsList(s), s # <<>>
  PROVE  /\ IsList(Tail(s)) /\ Len(Tail(s)) = Len(s) - 1 /\ Head(s) = s[1]
         /\ \A i \in 1 .. Len(s) - 1 : Tail(s)[i] = s[i + 1]
<1>1. PICK S : S = {s[i] : i \in DOMAIN s} /\ s \in Seq(S)
  BY DEF IsList
<1>2. PICK t : t = Tail(s)
  OBVIOUS
<1>3. t \in Seq(S) /\ Len(t) = Len(s) - 1 /\ Head(s) = s[1] /\ \A i \in 1 .. Len(s) - 1 : t[i] = s[i + 1]
  BY <1>1, <1>2
<1>4. t \in Seq({t[i] : i \in DOMAIN t})
  BY <1>3
<1> QED  BY <1>2, <1>3, <1>4 DEF IsList

OnTop(x, s, new) == new = <<x>> \o s
LEMMA PutFacts ==
  ASSUME NEW s, IsList(s), NEW x, NEW new, OnTop(x, s, new)
  PROVE  /\ IsList(new) /\ Len(new) = Len(s) + 1 /\ new[1] = x
         /\ \A i \in 1 .. Len(s) : new[i + 1] = s[i]
<1>1. PICK S : S = {s[i] : i \in DOMAIN s} \cup {x} /\ s \in Seq(S) /\ <<x>> \in Seq(S)
  <2>1. PICK S : S = {s[i] : i \in DOMAIN s} \cup {x}
    OBVIOUS
  <2>2. s \in Seq(S) /\ <<x>> \in Seq(S)
    BY <2>1 DEF IsList
  <2> QED  BY <2>1, <2>2
<1>2. new \in Seq(S) /\ Len(new) = Len(s) + 1 /\ new[1] = x /\ \A i \in 1 .. Len(s) : new[i + 1] = s[i]
  <2>1. Len(<<x>>) = 1 /\ <<x>>[1] = x /\ Len(s) \in Nat
    BY <1>1
  <2>2. /\ new \in Seq(S) /\ Len(new) = 1 + Len(s)
        /\ \A i \in 1 .. 1 + Len(s) : new[i] = IF i <= 1 THEN <<x>>[i] ELSE s[i - 1]
    BY <1>1, <2>1, ConcatProperties DEF OnTop
  <2> QED  BY <2>1, <2>2
<1> QED  BY <1>2, ListOf

LEMMA FrameOn ==
  ASSUME NEW in, NEW from, NEW of, NEW rest, NEW f, f = Module!Frame(in, from, of, rest)
  PROVE  [f EXCEPT !.rest = Tail(@)] = Module!Frame(in, from, of, Tail(rest))
<1>1. f = [in |-> in, from |-> from, of |-> of, rest |-> rest]
  BY DEF Module!Frame
<1>2. PICK less : less = Tail(rest)
  OBVIOUS
<1>3. [f EXCEPT !.rest = less] = [in |-> in, from |-> from, of |-> of, rest |-> less]
  BY <1>1
<1>4. f.rest = rest
  BY <1>1
<1> QED  BY <1>2, <1>3, <1>4 DEF Module!Frame

(* A running frame goes on, a new one is put on top, or it returns.          *)
GoesOn(s, new) == new = <<[s[1] EXCEPT !.rest = Tail(@)]>> \o Tail(s)
LEMMA Advanced ==
  ASSUME NEW s, Frames(s), s # <<>>, NEW new, GoesOn(s, new)
  PROVE  /\ Frames(new) /\ Len(new) = Len(s)
         /\ new[1] = Module!Frame(s[1].in, s[1].from, s[1].of, Tail(s[1].rest))
         /\ \A i \in 2 .. Len(s) : new[i] = s[i]
<1>1. IsList(s) /\ Len(s) \in Nat \ {0}
  BY ListFacts DEF Frames
<1>2. PICK t : t = Tail(s)
  OBVIOUS
<1>3. IsList(t) /\ Len(t) = Len(s) - 1 /\ \A i \in 1 .. Len(s) - 1 : t[i] = s[i + 1]
  BY <1>1, <1>2, TailFacts
<1>4. [s[1] EXCEPT !.rest = Tail(@)] = Module!Frame(s[1].in, s[1].from, s[1].of, Tail(s[1].rest))
  <2>1. s[1] = Module!Frame(s[1].in, s[1].from, s[1].of, s[1].rest)
    BY <1>1 DEF Frames
  <2>2. PICK f, in, from, of, rest :
          f = s[1] /\ in = f.in /\ from = f.from /\ of = f.of /\ rest = f.rest
    OBVIOUS
  <2>3. f = Module!Frame(in, from, of, rest)
    BY <2>1, <2>2
  <2>4. [f EXCEPT !.rest = Tail(@)] = Module!Frame(in, from, of, Tail(rest))
    BY <2>3, FrameOn
  <2> QED  BY <2>2, <2>4
<1>5. /\ IsList(new) /\ Len(new) = Len(t) + 1
      /\ new[1] = Module!Frame(s[1].in, s[1].from, s[1].of, Tail(s[1].rest))
      /\ \A i \in 1 .. Len(t) : new[i + 1] = t[i]
  <2>1. PICK f : f = Module!Frame(s[1].in, s[1].from, s[1].of, Tail(s[1].rest))
    OBVIOUS
  <2>2. OnTop(f, t, new)
    BY <1>2, <1>4, <2>1 DEF OnTop, GoesOn
  <2> QED  BY <1>3, <2>1, <2>2, PutFacts
<1>6. ASSUME NEW i \in 2 .. Len(s) PROVE new[i] = s[i]
  <2>1. i - 1 \in 1 .. Len(t) /\ (i - 1) + 1 = i
    BY <1>1, <1>3
  <2> QED  BY <1>3, <1>5, <2>1
<1>7. ASSUME NEW i \in 1 .. Len(s)
      PROVE  new[i] = Module!Frame(new[i].in, new[i].from, new[i].of, new[i].rest)
  <2>1. CASE i = 1
    BY <1>5, <2>1 DEF Module!Frame
  <2>2. CASE i # 1
    <3>1. i \in 2 .. Len(s)
      BY <1>1, <2>2
    <3> QED  BY <1>6, <3>1 DEF Frames
  <2> QED  BY <2>1, <2>2
<1> QED  BY <1>1, <1>3, <1>5, <1>6, <1>7 DEF Frames

LEMMA PutOn ==
  ASSUME NEW s, Frames(s), NEW in, NEW from, NEW of, NEW rest, NEW new,
         NEW f, f = Module!Frame(in, from, of, rest), OnTop(f, s, new)
  PROVE  /\ Frames(new) /\ Len(new) = Len(s) + 1 /\ new[1] = f
         /\ \A i \in 2 .. Len(s) + 1 : new[i] = s[i - 1]
<1>1. IsList(s) /\ Len(s) \in Nat
  BY ListFacts DEF Frames
<1>2. /\ IsList(new) /\ Len(new) = Len(s) + 1 /\ new[1] = f
      /\ \A i \in 1 .. Len(s) : new[i + 1] = s[i]
  BY <1>1, PutFacts
<1>3. ASSUME NEW i \in 2 .. Len(s) + 1 PROVE new[i] = s[i - 1]
  <2>1. i - 1 \in 1 .. Len(s) /\ (i - 1) + 1 = i
    BY <1>1
  <2> QED  BY <1>2, <2>1
<1>4. ASSUME NEW i \in 1 .. Len(s) + 1
      PROVE  new[i] = Module!Frame(new[i].in, new[i].from, new[i].of, new[i].rest)
  <2>1. CASE i = 1
    BY <1>2, <2>1 DEF Module!Frame
  <2>2. CASE i # 1
    <3>1. i \in 2 .. Len(s) + 1 /\ i - 1 \in 1 .. Len(s)
      BY <1>1, <2>2
    <3> QED  BY <1>3, <3>1 DEF Frames
  <2> QED  BY <2>1, <2>2
<1> QED  BY <1>2, <1>3, <1>4 DEF Frames

LEMMA TakenOff ==
  ASSUME NEW s, Frames(s), s # <<>>, NEW new, new = Tail(s)
  PROVE  /\ Frames(new) /\ Len(new) = Len(s) - 1 /\ \A i \in 1 .. Len(s) - 1 : new[i] = s[i + 1]
<1>1. IsList(s) /\ Len(s) \in Nat \ {0}
  BY ListFacts DEF Frames
<1>2. IsList(new) /\ Len(new) = Len(s) - 1 /\ \A i \in 1 .. Len(s) - 1 : new[i] = s[i + 1]
  BY <1>1, TailFacts
<1>3. ASSUME NEW i \in 1 .. Len(s) - 1
      PROVE  new[i] = Module!Frame(new[i].in, new[i].from, new[i].of, new[i].rest)
  <2>1. i + 1 \in 1 .. Len(s)
    BY <1>1
  <2> QED  BY <1>2, <2>1 DEF Frames
<1> QED  BY <1>2, <1>3 DEF Frames

LEMMA LeftFacts ==
  ASSUME command \in {"rollback", "setup"}, NEW p, NEW rest \in Left(p), rest # <<>>
  PROVE  /\ Tail(rest) \in Left(p) /\ Head(rest) = rest[1]
         /\ rest[1].from = p /\ rest[1].do \in {"import", "call"}
         /\ rest[1].of \in {"deploy", "docker", "proxy"}
         /\ rest[1].do = "call" => CallsOnly(Tail(rest))
         /\ Tail(rest) = <<>> => rest[1].do = "call" /\ rest[1].of = Aim
         /\ rest[1].do = "import" /\ CallsOnly(Tail(rest)) => rest[1].of = Aim
<1>1. PICK i1, i2, i3, c1, c2, c3 :
        /\ i1 = Module!Import(p, "docker") /\ i2 = Module!Import(p, "proxy") /\ i3 = Module!Import(p, "deploy")
        /\ c1 = Module!Call(p, "docker") /\ c2 = Module!Call(p, "proxy") /\ c3 = Module!Call(p, "deploy")
  OBVIOUS
<1>2. /\ i1.do = "import" /\ i2.do = "import" /\ i3.do = "import"
      /\ c1.do = "call" /\ c2.do = "call" /\ c3.do = "call"
      /\ i1.of = "docker" /\ i2.of = "proxy" /\ i3.of = "deploy"
      /\ c1.of = "docker" /\ c2.of = "proxy" /\ c3.of = "deploy"
      /\ i1.from = p /\ i2.from = p /\ i3.from = p /\ c1.from = p /\ c2.from = p /\ c3.from = p
  BY <1>1 DEF Module!Import, Module!Call
<1>3. CASE command = "setup"
  <2>1. Left(p) = {<<i1, i2, c1, c2>>, <<i2, c1, c2>>, <<c1, c2>>, <<c2>>, <<>>} /\ Aim = "proxy"
    BY <1>1, <1>3 DEF Left, Aim
  <2>2. CASE rest = <<i1, i2, c1, c2>>
    <3>1. Tail(rest) = <<i2, c1, c2>> /\ Head(rest) = i1 /\ rest[1] = i1 /\ <<i2, c1, c2>> # <<>>
          /\ <<i2, c1, c2>>[1] = i2
      BY <2>2
    <3> QED  BY <1>2, <2>1, <3>1 DEF CallsOnly
  <2>3. CASE rest = <<i2, c1, c2>>
    <3>1. Tail(rest) = <<c1, c2>> /\ Head(rest) = i2 /\ rest[1] = i2 /\ <<c1, c2>> # <<>>
      BY <2>3
    <3> QED  BY <1>2, <2>1, <3>1 DEF CallsOnly
  <2>4. CASE rest = <<c1, c2>>
    <3>1. Tail(rest) = <<c2>> /\ Head(rest) = c1 /\ rest[1] = c1 /\ <<c2>> # <<>> /\ <<c2>>[1] = c2
      BY <2>4
    <3> QED  BY <1>2, <2>1, <3>1 DEF CallsOnly
  <2>5. CASE rest = <<c2>>
    <3>1. Tail(rest) = <<>> /\ Head(rest) = c2 /\ rest[1] = c2
      BY <2>5
    <3> QED  BY <1>2, <2>1, <3>1 DEF CallsOnly
  <2> QED  BY <2>1, <2>2, <2>3, <2>4, <2>5
<1>4. CASE command = "rollback"
  <2>1. Left(p) = {<<i3, c3>>, <<c3>>, <<>>} /\ Aim = "deploy"
    BY <1>1, <1>4 DEF Left, Aim
  <2>2. CASE rest = <<i3, c3>>
    <3>1. Tail(rest) = <<c3>> /\ Head(rest) = i3 /\ rest[1] = i3 /\ <<c3>> # <<>> /\ <<c3>>[1] = c3
      BY <2>2
    <3> QED  BY <1>2, <2>1, <3>1 DEF CallsOnly
  <2>3. CASE rest = <<c3>>
    <3>1. Tail(rest) = <<>> /\ Head(rest) = c3 /\ rest[1] = c3
      BY <2>3
    <3> QED  BY <1>2, <2>1, <3>1 DEF CallsOnly
  <2> QED  BY <2>1, <2>2, <2>3
<1> QED  BY <1>3, <1>4

LEMMA ActsOn ==
  ASSUME NEW rest, Acts(rest), Head(rest).do # "effect" PROVE Acts(Tail(rest))
<1>1. IsList(rest) /\ Len(rest) \in Nat
  BY ListFacts DEF Acts
<1>2. PICK i \in 1 .. Len(rest) : rest[i].do = "effect"
  BY DEF Acts
<1>3. rest # <<>> /\ Head(rest) = rest[1]
  BY <1>1, <1>2, ListFacts, TailFacts
<1>4. i - 1 \in 1 .. Len(rest) - 1 /\ (i - 1) + 1 = i
  BY <1>1, <1>2, <1>3
<1>5. Tail(rest)[i - 1] = rest[i] /\ Len(Tail(rest)) = Len(rest) - 1 /\ IsList(Tail(rest))
  BY <1>1, <1>3, <1>4, TailFacts
<1> QED  BY <1>2, <1>4, <1>5 DEF Acts

LEMMA NoCallsOn ==
  ASSUME NEW rest, NoCalls(rest), rest # <<>>
  PROVE  /\ NoCalls(Tail(rest)) /\ Head(rest).do # "call"
         /\ Head(rest).do = "import" => Head(rest).of \in Module!Names
<1>1. IsList(rest) /\ Len(rest) \in Nat \ {0}
  BY ListFacts DEF NoCalls
<1>2. PICK t : t = Tail(rest)
  OBVIOUS
<1>3. /\ IsList(t) /\ Len(t) = Len(rest) - 1 /\ Head(rest) = rest[1]
      /\ \A i \in 1 .. Len(rest) - 1 : t[i] = rest[i + 1]
  BY <1>1, <1>2, TailFacts
<1>4. ASSUME NEW i \in 1 .. Len(t)
      PROVE  t[i].do # "call" /\ (t[i].do = "import" => t[i].of \in Module!Names)
  <2>1. i \in 1 .. Len(rest) - 1 /\ i + 1 \in 1 .. Len(rest)
    BY <1>1, <1>3
  <2> QED  BY <1>3, <2>1 DEF NoCalls
<1>5. 1 \in 1 .. Len(rest)
  BY <1>1
<1> QED  BY <1>2, <1>3, <1>4, <1>5 DEF NoCalls

LEMMA TextFacts ==
  ASSUME NEW n, NEW words, Module!IsText(n, words)
  PROVE  NoCalls(words.top) /\ (n \in {"deploy", "proxy"} => Acts(words.body))
<1>1. PICK top, body : top = words.top /\ body = words.body
  OBVIOUS
<1>2. /\ top \in Seq({top[i] : i \in DOMAIN top} \cup {body[i] : i \in DOMAIN body})
      /\ body \in Seq({top[i] : i \in DOMAIN top} \cup {body[i] : i \in DOMAIN body})
      /\ \A i \in DOMAIN top : top[i].do # "call" /\ (top[i].do = "import" => top[i].of \in Module!Names)
      /\ n \in {"deploy", "proxy"} => \E i \in DOMAIN body : body[i].do = "effect"
  BY <1>1 DEF Module!IsText, Module!ToSet
<1>3. DOMAIN top = 1 .. Len(top) /\ DOMAIN body = 1 .. Len(body)
  BY <1>2
<1>4. IsList(top) /\ IsList(body)
  BY <1>2 DEF IsList
<1> QED  BY <1>1, <1>2, <1>3, <1>4 DEF NoCalls, Acts

LEMMA FrameFields ==
  ASSUME NEW in, NEW from, NEW of, NEW rest, NEW f, f = Module!Frame(in, from, of, rest)
  PROVE  f.in = in /\ f.from = from /\ f.of = of /\ f.rest = rest
  BY DEF Module!Frame

OnFrame(f) == Module!Frame(f.in, f.from, f.of, Tail(f.rest))
LEMMA OnFields ==
  ASSUME NEW f, NEW g, g = OnFrame(f)
  PROVE  g.in = f.in /\ g.from = f.from /\ g.of = f.of /\ g.rest = Tail(f.rest)
  BY DEF OnFrame, Module!Frame

LEMMA WhereOn ==
  ASSUME Frames(frames), frames # <<>>, GoesOn(frames, frames'), NEW m, m = Len(frames)
  PROVE  /\ m \in Nat \ {0} /\ Frames(frames') /\ Len(frames') = m /\ frames' # <<>>
         /\ frames'[1] = OnFrame(frames[1]) /\ \A i \in 2 .. m : frames'[i] = frames[i]
         /\ Bottom' = IF m = 1 THEN OnFrame(Bottom) ELSE Bottom
         /\ m > 1 => Below' = IF m = 2 THEN OnFrame(Below) ELSE Below
         /\ (m = 1 => Bottom = frames[1]) /\ (m = 2 => Below = frames[1])
<1>1. IsList(frames) /\ m \in Nat \ {0}
  BY ListFacts DEF Frames
<1>2. /\ Frames(frames') /\ Len(frames') = m /\ frames'[1] = OnFrame(frames[1])
      /\ \A i \in 2 .. m : frames'[i] = frames[i]
  BY Advanced DEF OnFrame
<1>3. frames' # <<>>
  BY <1>1, <1>2, ListFacts DEF Frames
<1>4. Bottom' = frames'[m] /\ Below' = frames'[m - 1]
  BY <1>2 DEF Bottom, Below
<1>5. m = 1 \/ m \in 2 .. m
  BY <1>1
<1>6. m = 1 \/ m = 2 \/ m - 1 \in 2 .. m
  BY <1>1
<1>7. /\ Bottom = frames[m] /\ Below = frames[m - 1]
      /\ m = 2 => m - 1 = 1
  BY DEF Bottom, Below
<1> QED  BY <1>1, <1>2, <1>3, <1>4, <1>5, <1>6, <1>7

IsFrame(f) == f = Module!Frame(f.in, f.from, f.of, f.rest)
LEMMA WherePut ==
  ASSUME Frames(frames), frames # <<>>, NEW on, GoesOn(frames, on), NEW m, m = Len(frames),
         NEW f, IsFrame(f), OnTop(f, on, frames')
  PROVE  /\ m \in Nat \ {0} /\ Frames(frames') /\ Len(frames') = m + 1 /\ frames' # <<>>
         /\ frames'[1] = f /\ frames'[2] = OnFrame(frames[1])
         /\ \A i \in 3 .. m + 1 : frames'[i] = frames[i - 1]
         /\ Bottom' = IF m = 1 THEN OnFrame(Bottom) ELSE Bottom
         /\ Below' = IF m = 1 THEN f ELSE IF m = 2 THEN OnFrame(Below) ELSE Below
         /\ (m = 1 => Bottom = frames[1]) /\ (m = 2 => Below = frames[1])
<1>1. IsList(frames) /\ m \in Nat \ {0}
  BY ListFacts DEF Frames
<1>2. /\ Frames(on) /\ Len(on) = m /\ on[1] = OnFrame(frames[1])
      /\ \A i \in 2 .. m : on[i] = frames[i]
  BY Advanced DEF OnFrame
<1>3. /\ Frames(frames') /\ Len(frames') = m + 1 /\ frames'[1] = f
      /\ \A i \in 2 .. m + 1 : frames'[i] = on[i - 1]
  <2>1. PICK in, from, of, rest : f = Module!Frame(in, from, of, rest)
    BY DEF IsFrame
  <2> QED  BY <1>2, <2>1, PutOn
<1>4. frames'[2] = on[1]
  <2>1. 2 \in 2 .. m + 1 /\ 2 - 1 = 1
    BY <1>1
  <2> QED  BY <1>3, <2>1
<1>5. ASSUME NEW i \in 3 .. m + 1 PROVE frames'[i] = frames[i - 1]
  <2>1. i \in 2 .. m + 1 /\ i - 1 \in 2 .. m
    BY <1>1
  <2> QED  BY <1>2, <1>3, <2>1
<1>6. frames' # <<>>
  BY <1>1, <1>3, ListFacts DEF Frames
<1>7. Bottom' = frames'[m + 1] /\ Below' = frames'[(m + 1) - 1]
  BY <1>3 DEF Bottom, Below
<1>8. /\ (m + 1) - 1 = m /\ (m = 1 \/ (m + 1 \in 3 .. m + 1))
      /\ m = 1 => m + 1 = 2
      /\ m = 1 \/ m = 2 \/ (m \in 3 .. m + 1)
      /\ m = 2 => m - 1 = 1
  BY <1>1
<1>9. Bottom = frames[m] /\ Below = frames[m - 1]
  BY DEF Bottom, Below
<1>10. Bottom' = IF m = 1 THEN OnFrame(Bottom) ELSE Bottom
  BY <1>2, <1>4, <1>5, <1>7, <1>8, <1>9
<1>11. Below' = IF m = 1 THEN f ELSE IF m = 2 THEN OnFrame(Below) ELSE Below
  BY <1>2, <1>3, <1>4, <1>5, <1>7, <1>8, <1>9
<1> QED  BY <1>1, <1>2, <1>3, <1>4, <1>5, <1>6, <1>8, <1>9, <1>10, <1>11

LEMMA WhereOff ==
  ASSUME Frames(frames), frames # <<>>, frames' = Tail(frames), NEW m, m = Len(frames)
  PROVE  /\ m \in Nat \ {0} /\ Frames(frames') /\ Len(frames') = m - 1
         /\ \A i \in 1 .. m - 1 : frames'[i] = frames[i + 1]
         /\ m > 1 => frames' # <<>> /\ Bottom' = Bottom
         /\ m > 2 => Below' = Below
         /\ (m = 1 => Bottom = frames[1]) /\ (m = 2 => Below = frames[1])
<1>1. IsList(frames) /\ m \in Nat \ {0}
  BY ListFacts DEF Frames
<1>2. Frames(frames') /\ Len(frames') = m - 1 /\ \A i \in 1 .. m - 1 : frames'[i] = frames[i + 1]
  BY TakenOff
<1>3. Bottom' = frames'[m - 1] /\ Below' = frames'[(m - 1) - 1]
  BY <1>2 DEF Bottom, Below
<1>4. /\ m > 1 => m - 1 \in 1 .. m - 1 /\ (m - 1) + 1 = m
      /\ m > 2 => (m - 1) - 1 \in 1 .. m - 1 /\ ((m - 1) - 1) + 1 = m - 1
      /\ m = 2 => m - 1 = 1
  BY <1>1
<1>5. Bottom = frames[m] /\ Below = frames[m - 1]
  BY DEF Bottom, Below
<1>6. m > 1 => frames' # <<>>
  BY <1>1, <1>2, ListFacts, SMTT(30) DEF Frames
<1> QED  BY <1>1, <1>2, <1>3, <1>4, <1>5, <1>6

(* What the next item of a run leaves of its frames.                         *)
LEMMA ScriptOn ==
  ASSUME command \in {"rollback", "setup"}, ScriptInv, Frames(frames),
         frames[1].rest # <<>>, Head(frames[1].rest).do \in {"import", "call"},
         UNCHANGED <<did, attempt, command>>,
         NEW m, m = Len(frames),
         Len(frames') > 0, frames' # <<>>,
         Bottom' = IF m = 1 THEN OnFrame(Bottom) ELSE Bottom,
         m = 1 => Bottom = frames[1], m = 2 => Below = frames[1], m \in Nat \ {0},
         m > 1 => Len(frames') > 1 /\ Below' = IF m = 2 THEN OnFrame(Below) ELSE Below,
         m = 1 /\ Tail(frames[1].rest) = <<>> =>
           Len(frames') > 1 /\ Below'.in = "body" /\ Below'.of = Aim /\ Acts(Below'.rest)
  PROVE  ScriptInv'
<1>1. /\ Aim' = Aim /\ (Acted(attempt) => Acted(attempt)') /\ Left(attempt)' = Left(attempt)
      /\ attempt' = attempt
  BY DEF Aim, Acted, Left
<1>2. CASE m = 1
  <2>1. Bottom'.from = "lib" /\ Bottom'.rest = Tail(Bottom.rest) /\ Bottom.rest # <<>>
    BY <1>2, OnFields DEF ScriptInv
  <2>2. Bottom'.rest \in Left(attempt)
    BY <2>1, LeftFacts DEF ScriptInv
  <2> QED  BY <1>1, <1>2, <2>1, <2>2 DEF ScriptInv
<1>3. CASE m > 1
  <2>1. m # 1
    BY <1>3, SMTT(30)
  <2>3. Bottom' = Bottom
    BY <2>1
  <2>2. ASSUME Below.in = "body", Below.of = Aim, Acts(Below.rest)
        PROVE  Below'.in = "body" /\ Below'.of = Aim /\ Acts(Below'.rest)
    <3>1. CASE m = 2
      <4>1. Below' = OnFrame(Below) /\ Below = frames[1]
        BY <1>3, <3>1
      <4>2. Head(Below.rest).do # "effect"
        BY <4>1
      <4> QED  BY <2>2, <4>1, <4>2, OnFields, ActsOn
    <3>2. CASE m # 2
      BY <1>3, <2>2, <3>2
    <3> QED  BY <3>1, <3>2
  <2>4. Len(frames') > 1 /\ (Len(frames) > 1 <=> TRUE)
    BY <1>3
  <2> QED  BY <1>1, <2>2, <2>3, <2>4 DEF ScriptInv
<1>4. m = 1 \/ m > 1
  OBVIOUS
<1> QED  BY <1>2, <1>3, <1>4

LEMMA VendorKeeps == ASSUME Module!ModulesAssumption, ModuleInv, Module!VendorWrites PROVE ModuleInv'
<1>1. /\ copying < Len(Embedded) /\ copying' = copying + 1
      /\ LET n == Embedded[copying + 1] IN
           files' = IF files[n] = NoFile \/ force THEN [files EXCEPT ![n] = StdText[n]] ELSE files
      /\ UNCHANGED <<command, attempt, loaded, frames, missing, ended, did>>
  BY DEF Module!VendorWrites, Module!call
<1>2. TextsInv
  BY DEF ModuleInv
<1>3. PICK n : n = Embedded[copying + 1]
  OBVIOUS
<1>4. n \in Module!ToSet(Embedded)
  <2>1. DOMAIN Embedded = 1 .. Len(Embedded) /\ Len(Embedded) \in Nat
    BY DEF Module!ModulesAssumption
  <2>2. copying + 1 \in 1 .. Len(Embedded)
    BY <1>1, <1>2, <2>1 DEF TextsInv
  <2> QED  BY <1>3, <2>1, <2>2 DEF Module!ToSet
<1>5. Module!IsText(n, StdText[n]) /\ n \in Module!Names
  BY <1>4 DEF Module!ModulesAssumption, Module!Names
<1>6. files' = [files EXCEPT ![n] = StdText[n]] \/ files' = files
  BY <1>1, <1>3
<1>7. /\ files' = [x \in Module!Names |-> files'[x]]
      /\ \A x \in Module!Names : files'[x] = files[x] \/ (x = n /\ files'[x] = StdText[n])
  BY <1>2, <1>5, <1>6 DEF TextsInv
<1>8. TextsInv'
  <2>1. \A x \in Module!Names : Told(x, files[x]) /\ Told(x, loaded[x])
    BY <1>2 DEF TextsInv
  <2>2. \A x \in Module!Names : Told(x, files'[x])
    BY <1>5, <1>7, <2>1 DEF Told
  <2>3. copying' \in Nat /\ loaded' = [x \in Module!Names |-> loaded'[x]]
    BY <1>1, <1>2 DEF TextsInv
  <2> QED  BY <1>1, <1>7, <2>1, <2>2, <2>3 DEF TextsInv
<1>9. EndsInv' /\ (AttemptInv => AttemptInv')
  BY <1>1 DEF ModuleInv, EndsInv, AttemptInv, ScriptInv, LibInv, StdInv, Quiet, Calling, Acted, Aim,
              Left, Bottom, Below
<1> QED  BY <1>1, <1>8, <1>9 DEF ModuleInv

LEMMA RefuseKeeps == ASSUME ModuleInv, Module!Refuse PROVE ModuleInv'
<1>1. /\ ended = "not started" /\ ended' = "refused"
      /\ UNCHANGED <<files, copying, command, attempt, loaded, frames, missing, did>>
  BY DEF Module!Refuse, Module!call, Module!vendor
<1>2. TextsInv' /\ EndsInv'
  BY <1>1 DEF ModuleInv, TextsInv, EndsInv
<1> QED  BY <1>1, <1>2 DEF ModuleInv

LEMMA BegunFrames == ASSUME NEW p, frames' = Module!Begin(p) PROVE Frames(frames')
<1>1. PICK rest : rest = Module!Script(p)
  OBVIOUS
<1>2. PICK f : f = Module!Frame("script", "lib", command, rest)
  OBVIOUS
<1>3. frames' = <<f>>
  BY <1>1, <1>2 DEF Module!Begin
<1>4. f = Module!Frame(f.in, f.from, f.of, f.rest)
  BY <1>2 DEF Module!Frame
<1>5. PICK one : one = <<f>>
  OBVIOUS
<1>7. one \in Seq({f}) /\ Len(one) = 1 /\ one[1] = f
  BY <1>5
<1>6. IsList(one) /\ 1 .. Len(one) = {1}
  BY <1>7, ListOf
<1> QED  BY <1>3, <1>4, <1>5, <1>6, <1>7 DEF Frames

LEMMA Begun ==
  ASSUME command \in {"rollback", "setup"}, NEW p, frames' = Module!Begin(p), attempt' = p,
         UNCHANGED command
  PROVE  /\ Frames(frames') /\ ScriptInv' /\ ~CallsOnly(Bottom'.rest) /\ Bottom'.in = "script"
         /\ Len(frames') = 1 /\ frames'[1] = Bottom'
<1>1. PICK rest : rest = Module!Script(p)
  OBVIOUS
<1>2. PICK f : f = Module!Frame("script", "lib", command, rest)
  OBVIOUS
<1>3. frames' = <<f>>
  BY <1>1, <1>2 DEF Module!Begin
<1>4. Len(<<f>>) = 1 /\ <<f>>[1] = f /\ <<f>> # <<>>
  OBVIOUS
<1>5. Bottom' = f /\ Len(frames') = 1 /\ frames' # <<>> /\ frames'[1] = f
  BY <1>3, <1>4 DEF Bottom
<1>6. rest \in Left(p) /\ rest # <<>> /\ rest[1].do = "import"
  <2>1. CASE command = "setup"
    <3>1. PICK i1, i2, c1, c2 :
            /\ i1 = Module!Import(p, "docker") /\ i2 = Module!Import(p, "proxy")
            /\ c1 = Module!Call(p, "docker") /\ c2 = Module!Call(p, "proxy")
      OBVIOUS
    <3>2. rest = <<i1, i2, c1, c2>> /\ i1.do = "import"
      BY <1>1, <2>1, <3>1 DEF Module!Script, Module!attempt_setup, Module!Import
    <3>3. rest \in Left(p)
      BY <2>1, <3>1, <3>2 DEF Left
    <3> QED  BY <3>2, <3>3
  <2>2. CASE command = "rollback"
    <3>1. PICK i1, c1 : i1 = Module!Import(p, "deploy") /\ c1 = Module!Call(p, "deploy")
      OBVIOUS
    <3>2. rest = <<i1, c1>> /\ i1.do = "import"
      BY <1>1, <2>2, <3>1 DEF Module!Script, Module!attempt_rollback, Module!Import
    <3>3. rest \in Left(p)
      BY <2>2, <3>1, <3>2 DEF Left
    <3> QED  BY <3>2, <3>3
  <2> QED  BY <2>1, <2>2
<1>7. f.from = "lib" /\ f.rest = rest /\ f.in = "script"
  BY <1>2, FrameFields
<1>8. Left(attempt)' = Left(p)
  BY DEF Left
<1> QED  BY <1>5, <1>6, <1>7, <1>8, BegunFrames DEF ScriptInv, CallsOnly

LEMMA BegunRuns ==
  ASSUME command \in {"rollback", "setup"}, NEW p \in {"lib", "std"}, frames' = Module!Begin(p),
         attempt' = p, UNCHANGED <<command, did>>, \A i \in 1 .. Len(did) : did[i].in # "body"
  PROVE  AttemptInv'
<1>1. /\ ScriptInv' /\ ~CallsOnly(Bottom'.rest) /\ Bottom'.in = "script"
      /\ Len(frames') = 1 /\ frames'[1] = Bottom'
  BY Begun
<1>2. 1 .. Len(frames') = {1} /\ 1 .. Len(frames') - 1 = {}
  BY <1>1
<1>3. Quiet' /\ StdInv'
  BY <1>1, <1>2 DEF Quiet, StdInv
<1>4. LibInv'
  BY <1>1, <1>3 DEF LibInv
<1> QED  BY <1>1, <1>3, <1>4 DEF AttemptInv

LEMMA StartKeeps == ASSUME ModuleInv, Module!Start PROVE ModuleInv'
<1>1. /\ ended = "not started" /\ ended' = "no" /\ frames' = Module!Begin(attempt')
      /\ attempt' = IF command \in {"exec", "run"} THEN "file"
                    ELSE IF files["deploy"] # NoFile THEN "lib" ELSE "std"
      /\ UNCHANGED <<files, copying, command, loaded, missing, did>>
  BY DEF Module!Start, Module!call, Module!vendor, Module!Begin, Module!Script, Module!run_file,
         Module!run_fn, Module!attempt_rollback, Module!attempt_setup
<1>2. did = <<>> /\ missing = "none" /\ OwnModule # missing /\ command \in Module!Commands
  BY <1>1 DEF ModuleInv, EndsInv
<1>3. TextsInv' /\ EndsInv'
  BY <1>1, <1>2 DEF ModuleInv, TextsInv, EndsInv
<1>4. 1 .. Len(did) = {}
  BY <1>2
<1>5. AttemptInv'
  <2>1. CASE command \in {"exec", "run"}
    BY <1>1, <2>1 DEF AttemptInv
  <2>2. CASE command \in {"rollback", "setup"}
    <3>1. attempt' \in {"lib", "std"}
      BY <1>1, <2>2
    <3> QED  BY <1>1, <1>4, <2>2, <3>1, BegunRuns
  <2> QED  BY <1>2, <2>1, <2>2 DEF Module!Commands
<1> QED  BY <1>1, <1>2, <1>3, <1>4, <1>5, BegunFrames DEF ModuleInv

LEMMA AtFacts ==
  ASSUME NEW do, Module!At(do), NEW item, item = Module!Item
  PROVE  /\ ended = "no" /\ frames # <<>> /\ frames[1].rest # <<>>
         /\ Head(frames[1].rest) = item /\ item.do = do
         /\ Module!From = IF frames[1].from = "std" THEN "std" ELSE item.from
  BY DEF Module!At, Module!Running, Module!Top, Module!Item, Module!From

(* Whose module an item of a rollback or a setup names.                      *)
LEMMA Sees ==
  ASSUME command \in {"rollback", "setup"}, ModuleInv, NEW do \in {"import", "call"}, Module!At(do)
  PROVE  /\ attempt = "std" => Module!From = "std"
         /\ Len(frames) = 1 => Module!From = attempt
<1>1. PICK item, m : item = Module!Item /\ m = Len(frames)
  OBVIOUS
<1>2. /\ ended = "no" /\ frames # <<>> /\ frames[1].rest # <<>> /\ Head(frames[1].rest) = item
      /\ Module!From = IF frames[1].from = "std" THEN "std" ELSE item.from
  BY <1>1, AtFacts
<1>3. m \in Nat \ {0} /\ ScriptInv /\ (attempt = "std" => StdInv)
  BY <1>1, <1>2, ListFacts DEF ModuleInv, AttemptInv, Frames
<1>4. CASE m = 1
  <2>1. Bottom = frames[1] /\ Bottom.rest \in Left(attempt) /\ Bottom.rest # <<>> /\ Bottom.from = "lib"
    BY <1>1, <1>2, <1>3, <1>4 DEF Bottom, ScriptInv
  <2>3. Head(Bottom.rest) = Bottom.rest[1] /\ Bottom.rest[1].from = attempt
    BY <2>1, LeftFacts
  <2>2. item.from = attempt
    BY <1>2, <2>1, <2>3
  <2> QED  BY <1>2, <2>1, <2>2
<1>5. CASE m # 1
  <2>1. 1 \in 1 .. m - 1
    BY <1>3, <1>5
  <2> QED  BY <1>1, <1>2, <1>3, <1>5, <2>1 DEF StdInv
<1> QED  BY <1>4, <1>5

LEMMA SameEnds ==
  ASSUME EndsInv, UNCHANGED <<ended, did, attempt, missing, command>> PROVE EndsInv'
  BY DEF EndsInv, Acted, Aim

(* A frame that goes on, and perhaps a new one on top of it, says as much of
   which half of the run this is.                                            *)
LEMMA HalfOn ==
  ASSUME ModuleInv, LibInv, command \in {"rollback", "setup"}, ended = "no", attempt = "lib",
         UNCHANGED <<did, attempt, command>>, frames # <<>>,
         GoesOn(frames, frames'), frames[1].rest # <<>>, Head(frames[1].rest).do = "import",
         loaded'[Aim] # NoFile \/ (loaded'[Aim] = loaded[Aim] /\ Len(frames) # 1)
           \/ (loaded'[Aim] = loaded[Aim] /\ Head(frames[1].rest).of # Aim)
  PROVE  LibInv'
<1>1. Frames(frames) /\ ScriptInv
  BY DEF ModuleInv, AttemptInv
<1>2. PICK m : m = Len(frames)
  OBVIOUS
<1>3. /\ m \in Nat \ {0} /\ Frames(frames') /\ Len(frames') = m /\ frames' # <<>>
      /\ frames'[1] = OnFrame(frames[1]) /\ \A i \in 2 .. m : frames'[i] = frames[i]
      /\ Bottom' = IF m = 1 THEN OnFrame(Bottom) ELSE Bottom
      /\ m > 1 => Below' = IF m = 2 THEN OnFrame(Below) ELSE Below
      /\ (m = 1 => Bottom = frames[1]) /\ (m = 2 => Below = frames[1])
  BY <1>1, <1>2, WhereOn
<1>4. frames'[1].in = frames[1].in /\ frames'[1].rest = Tail(frames[1].rest)
  BY <1>3, OnFields
<1>5. ASSUME Quiet PROVE Quiet'
  <2>1. \A i \in 1 .. m : frames'[i].in # "body"
    <3>1. ASSUME NEW i \in 1 .. m PROVE frames'[i].in # "body"
      <4>1. i = 1 \/ i \in 2 .. m
        BY <1>3
      <4> QED  BY <1>2, <1>3, <1>4, <1>5, <4>1 DEF Quiet
    <3> QED  BY <3>1
  <2>2. \A i \in 1 .. m - 1 : NoCalls(frames'[i].rest)
    <3>1. ASSUME NEW i \in 1 .. m - 1 PROVE NoCalls(frames'[i].rest)
      <4>1. (i = 1 \/ i \in 2 .. m) /\ NoCalls(frames[i].rest)
        BY <1>2, <1>3, <1>5 DEF Quiet
      <4> QED  BY <1>3, <1>4, <4>1, NoCallsOn
    <3> QED  BY <3>1
  <2> QED  BY <1>3, <1>5, <2>1, <2>2 DEF Quiet
<1>6. ASSUME Calling PROVE m # 1 /\ Calling'
  <2>1. m # 1
    <3>1. SUFFICES ASSUME m = 1 PROVE FALSE
      OBVIOUS
    <3>2. Bottom.rest = frames[1].rest /\ Bottom.rest \in Left(attempt)
      BY <1>1, <1>3, <3>1 DEF ScriptInv
    <3>3. Head(frames[1].rest) = frames[1].rest[1]
      BY <3>2, LeftFacts
    <3> QED  BY <1>6, <3>2, <3>3 DEF Calling, CallsOnly
  <2>2. m > 1
    BY <1>3, <2>1
  <2>3. Bottom' = Bottom /\ Below'.in = Below.in
    BY <1>3, <2>1, <2>2, OnFields
  <2> QED  BY <1>2, <1>6, <2>1, <2>2, <2>3 DEF Calling
<1>7. Quiet' \/ Calling'
  BY <1>5, <1>6 DEF LibInv
<1>8. ASSUME CallsOnly(Bottom'.rest) PROVE loaded'[Aim] # NoFile
  <2>1. CASE m = 1
    <3>1. Bottom.rest = frames[1].rest /\ Bottom.rest \in Left(attempt) /\ Bottom'.rest = Tail(Bottom.rest)
      BY <1>1, <1>3, <1>4, <2>1, OnFields DEF ScriptInv
    <3>2. Head(frames[1].rest).of = Aim
      BY <1>8, <3>1, LeftFacts
    <3> QED  BY <1>2, <2>1, <3>2
  <2>2. CASE m # 1
    <3>1. Bottom' = Bottom
      BY <1>3, <2>2
    <3>2. loaded[Aim] # NoFile
      BY <1>8, <3>1 DEF LibInv
    <3> QED  BY <3>2
  <2> QED  BY <2>1, <2>2
<1>9. Aim' = Aim
  BY DEF Aim
<1> QED  BY <1>7, <1>8, <1>9 DEF LibInv

Opens(f, of) == f = Module!Frame("top", "lib", of, files[of].top)
LEMMA OpensFrame == ASSUME NEW f, NEW of, Opens(f, of) PROVE IsFrame(f) /\ f.in = "top" /\ f.rest = files[of].top
<1>1. PICK in, from, rest : in = "top" /\ from = "lib" /\ rest = files[of].top
  OBVIOUS
<1>2. f = Module!Frame(in, from, of, rest)
  BY <1>1 DEF Opens
<1>3. f.in = in /\ f.from = from /\ f.of = of /\ f.rest = rest
  BY <1>2, FrameFields
<1> QED  BY <1>1, <1>2, <1>3 DEF IsFrame

LEMMA HalfPut ==
  ASSUME Module!ModulesAssumption,
         ModuleInv, LibInv, command \in {"rollback", "setup"}, ended = "no", attempt = "lib",
         UNCHANGED <<did, attempt, command>>, frames # <<>>,
         frames[1].rest # <<>>, Head(frames[1].rest).do = "import",
         NEW of, of = Head(frames[1].rest).of, files[of] # NoFile,
         NEW on, GoesOn(frames, on), NEW f, Opens(f, of), OnTop(f, on, frames'),
         loaded'[Aim] # NoFile \/ (loaded'[Aim] = loaded[Aim] /\ of # Aim)
  PROVE  LibInv'
<1>1. Frames(frames) /\ ScriptInv
  BY DEF ModuleInv, AttemptInv
<1>2. PICK m : m = Len(frames) 
  OBVIOUS
<1>3. /\ m \in Nat \ {0} /\ Frames(frames') /\ Len(frames') = m + 1 /\ frames' # <<>>
      /\ frames'[1] = f /\ frames'[2] = OnFrame(frames[1])
      /\ \A i \in 3 .. m + 1 : frames'[i] = frames[i - 1]
      /\ Bottom' = IF m = 1 THEN OnFrame(Bottom) ELSE Bottom
      /\ Below' = IF m = 1 THEN f ELSE IF m = 2 THEN OnFrame(Below) ELSE Below
      /\ (m = 1 => Bottom = frames[1]) /\ (m = 2 => Below = frames[1])
  <2>1. IsFrame(f)
    BY OpensFrame
  <2> QED  BY <1>1, <1>2, <2>1, WherePut
<1>4. /\ frames'[2].in = frames[1].in /\ frames'[2].rest = Tail(frames[1].rest)
      /\ f.in = "top" /\ f.rest = files[of].top
  BY <1>3, OnFields, OpensFrame
<1>5. ASSUME m = 1
      PROVE  Bottom.rest = frames[1].rest /\ Head(frames[1].rest) = frames[1].rest[1]
             /\ Bottom'.rest = Tail(Bottom.rest) /\ of \in {"deploy", "docker", "proxy"}
             /\ (CallsOnly(Bottom'.rest) => of = Aim)
  <2>1. Bottom.rest = frames[1].rest /\ Bottom.rest \in Left(attempt) /\ Bottom'.rest = Tail(Bottom.rest)
    BY <1>1, <1>3, <1>5, OnFields DEF ScriptInv
  <2>2. /\ Head(Bottom.rest) = Bottom.rest[1] /\ Bottom.rest[1].of \in {"deploy", "docker", "proxy"}
        /\ (Bottom.rest[1].do = "import" /\ CallsOnly(Tail(Bottom.rest)) => Bottom.rest[1].of = Aim)
    BY <2>1, LeftFacts
  <2> QED  BY <2>1, <2>2
<1>6. ASSUME Quiet PROVE Quiet'
  <2>1. of \in Module!Names
    <3>1. CASE m = 1
      BY <1>5, <3>1 DEF Module!ModulesAssumption, Module!Names
    <3>2. CASE m # 1
      <4>1. 1 \in 1 .. m - 1
        BY <1>3, <3>2
      <4>2. NoCalls(frames[1].rest)
        BY <1>2, <1>6, <4>1 DEF Quiet
      <4> QED  BY <4>2, NoCallsOn
    <3> QED  BY <3>1, <3>2
  <2>2. NoCalls(files[of].top)
    <3>1. Module!IsText(of, files[of])
      BY <2>1 DEF ModuleInv, TextsInv, Told
    <3> QED  BY <3>1, TextFacts
  <2>3. \A i \in 1 .. m + 1 : frames'[i].in # "body"
    <3>1. ASSUME NEW i \in 1 .. m + 1 PROVE frames'[i].in # "body"
      <4>1. i = 1 \/ i = 2 \/ (i \in 3 .. m + 1 /\ i - 1 \in 1 .. m)
        BY <1>3
      <4>2. 1 \in 1 .. m
        BY <1>3
      <4> QED  BY <1>2, <1>3, <1>4, <1>6, <4>1, <4>2 DEF Quiet
    <3> QED  BY <3>1
  <2>4. \A i \in 1 .. m : NoCalls(frames'[i].rest)
    <3>1. ASSUME NEW i \in 1 .. m PROVE NoCalls(frames'[i].rest)
      <4>1. i = 1 \/ (i = 2 /\ 1 \in 1 .. m - 1) \/ (i \in 3 .. m + 1 /\ i - 1 \in 1 .. m - 1)
        BY <1>3
      <4>2. \A j \in 1 .. m - 1 : NoCalls(frames[j].rest)
        BY <1>2, <1>6 DEF Quiet
      <4>3. CASE i = 1
        BY <1>3, <1>4, <2>2, <4>3
      <4>4. CASE i = 2 /\ 1 \in 1 .. m - 1
        BY <1>4, <4>2, <4>4, NoCallsOn
      <4>5. CASE i \in 3 .. m + 1 /\ i - 1 \in 1 .. m - 1
        BY <1>3, <4>2, <4>5
      <4> QED  BY <4>1, <4>3, <4>4, <4>5
    <3> QED  BY <3>1
  <2>5. (m + 1) - 1 = m
    BY <1>3
  <2> QED  BY <1>3, <1>6, <2>3, <2>4, <2>5 DEF Quiet
<1>7. ASSUME Calling PROVE Calling'
  <2>1. m # 1
    BY <1>5, <1>7 DEF Calling, CallsOnly
  <2>2. m > 1
    BY <1>3, <2>1
  <2>3. Bottom' = Bottom /\ Below'.in = Below.in
    BY <1>3, <2>1, OnFields
  <2> QED  BY <1>2, <1>7, <2>2, <2>3 DEF Calling
<1>8. ASSUME CallsOnly(Bottom'.rest) PROVE loaded'[Aim] # NoFile
  <2>1. CASE m = 1
    BY <1>5, <1>8, <2>1
  <2>2. CASE m # 1
    <3>1. Bottom' = Bottom
      BY <1>3, <2>2
    <3>2. loaded[Aim] # NoFile
      BY <1>8, <3>1 DEF LibInv
    <3> QED  BY <3>2
  <2> QED  BY <2>1, <2>2
<1>9. Aim' = Aim
  BY DEF Aim
<1> QED  BY <1>6, <1>7, <1>8, <1>9 DEF LibInv

(* One frame goes on, and the library's own modules see no others.           *)
LEMMA StdOn ==
  ASSUME ModuleInv, StdInv, frames # <<>>, GoesOn(frames, frames')
  PROVE  StdInv'
<1>1. Frames(frames)
  BY DEF ModuleInv
<1>2. PICK m : m = Len(frames)
  OBVIOUS
<1>3. /\ m \in Nat \ {0} /\ Len(frames') = m
      /\ frames'[1] = OnFrame(frames[1]) /\ \A i \in 2 .. m : frames'[i] = frames[i]
  BY <1>1, <1>2, WhereOn
<1>4. ASSUME NEW i \in 1 .. m - 1 PROVE frames'[i].from = "std"
  <2>1. (i = 1 \/ i \in 2 .. m) /\ frames[i].from = "std"
    BY <1>2, <1>3 DEF StdInv
  <2> QED  BY <1>3, <2>1, OnFields
<1> QED  BY <1>3, <1>4 DEF StdInv

LEMMA ImportIsNotLast ==
  ASSUME command \in {"rollback", "setup"}, NEW p, NEW rest \in Left(p), rest # <<>>, Tail(rest) = <<>>
  PROVE  Head(rest).do = "call"
<1>1. rest[1].do = "call" /\ Head(rest) = rest[1]
  BY LeftFacts
<1> QED  BY <1>1

LEMMA ResolveKeeps == ASSUME Module!ModulesAssumption, ModuleInv, Module!Resolve PROVE ModuleInv'
<1>1. PICK item, m, of : item = Module!Item /\ m = Len(frames) /\ of = item.of
  OBVIOUS
<1>2. /\ ended = "no" /\ frames # <<>> /\ frames[1].rest # <<>>
      /\ Head(frames[1].rest) = item /\ item.do = "import"
  BY <1>1, AtFacts DEF Module!Resolve
<1>3. /\ UNCHANGED <<files, copying, command, attempt, missing, ended, did>>
      /\ Module!From = "std" \/ files[of] # NoFile \/ loaded[of] # NoFile
  BY <1>1 DEF Module!Resolve, Module!call, Module!vendor
<1>4. PICK on : on = <<[frames[1] EXCEPT !.rest = Tail(@)]>> \o Tail(frames)
  OBVIOUS
<1>5. GoesOn(frames, on) /\ Module!Rest = on
  BY <1>4 DEF GoesOn, Module!Rest, Module!Top
<1>6. Frames(frames) /\ m \in Nat \ {0}
  BY <1>1, <1>2, ListFacts DEF ModuleInv, Frames
<1>7. EndsInv' /\ \A i \in 1 .. Len(did') : did'[i].in = "body" => did'[i].attempt = attempt'
  BY <1>3, SameEnds DEF ModuleInv
<1>8. command \in {"rollback", "setup"} => AttemptInv /\ ScriptInv /\ attempt \in {"lib", "std"}
  BY <1>2 DEF ModuleInv, AttemptInv
<1>9. Aim \in Module!Names
  BY DEF Aim, Module!ModulesAssumption, Module!Names
<1>10. CASE (Module!From = "std" \/ loaded[of] # NoFile) /\ frames' = on /\ UNCHANGED loaded
  <2>1. TextsInv'
    BY <1>3, <1>10 DEF ModuleInv, TextsInv
  <2>2. GoesOn(frames, frames')
    BY <1>5, <1>10
  <2>3. Frames(frames')
    BY <1>2, <1>6, <2>2, WhereOn
  <2>4. AttemptInv'
    <3>1. CASE command \in {"exec", "run"}
      BY <1>2, <1>3, <3>1 DEF ModuleInv, AttemptInv
    <3>2. CASE command \in {"rollback", "setup"}
      <4>1. ScriptInv'
        <5>1. /\ Frames(frames') /\ Len(frames') = m /\ frames' # <<>>
              /\ Bottom' = IF m = 1 THEN OnFrame(Bottom) ELSE Bottom
              /\ m > 1 => Below' = IF m = 2 THEN OnFrame(Below) ELSE Below
              /\ (m = 1 => Bottom = frames[1]) /\ (m = 2 => Below = frames[1])
          BY <1>1, <1>2, <1>6, <2>2, WhereOn
        <5>2. ASSUME m = 1, Tail(frames[1].rest) = <<>> PROVE FALSE
          <6>1. Bottom.rest = frames[1].rest /\ Bottom.rest \in Left(attempt) /\ Bottom.rest # <<>>
            BY <1>2, <1>8, <3>2, <5>1, <5>2 DEF ScriptInv
          <6>2. Tail(Bottom.rest) = <<>>
            BY <5>2, <6>1
          <6>3. Head(Bottom.rest).do = "call"
            BY <3>2, <6>1, <6>2, ImportIsNotLast
          <6> QED  BY <1>2, <6>1, <6>3
        <5>3. Len(frames') > 0 /\ (m > 1 => Len(frames') > 1)
          BY <1>6, <5>1
        <5> QED  BY <1>1, <1>2, <1>3, <1>6, <1>8, <3>2, <5>1, <5>2, <5>3, ScriptOn
      <4>2. ASSUME attempt = "lib" PROVE LibInv'
        <5>1. LibInv
          BY <1>8, <3>2, <4>2 DEF AttemptInv
        <5>2. loaded'[Aim] # NoFile \/ m # 1 \/ of # Aim
          <6>1. m = 1 => Module!From = "lib"
            BY <1>1, <3>2, <4>2, Sees DEF Module!Resolve
          <6> QED  BY <1>10, <6>1
        <5> QED  BY <1>1, <1>2, <1>3, <1>10, <2>2, <3>2, <4>2, <5>1, <5>2, HalfOn
      <4>3. ASSUME attempt = "std" PROVE StdInv'
        BY <1>2, <1>8, <2>2, <3>2, <4>3, StdOn DEF AttemptInv
      <4> QED  BY <1>3, <1>8, <3>2, <4>1, <4>2, <4>3 DEF AttemptInv
    <3> QED  BY <3>1, <3>2 DEF ModuleInv, Module!Commands
  <2> QED  BY <1>3, <1>7, <2>1, <2>3, <2>4 DEF ModuleInv
<1>11. CASE /\ Module!From # "std" /\ loaded[of] = NoFile /\ files[of] # NoFile
            /\ frames' = <<Module!Frame("top", "lib", of, files[of].top)>> \o on
            /\ loaded' = [loaded EXCEPT ![of] = files[of]]
  <2>1. PICK f : Opens(f, of)
    BY DEF Opens
  <2>2. OnTop(f, on, frames')
    BY <1>11, <2>1 DEF OnTop, Opens
  <2>3. /\ Frames(frames') /\ Len(frames') = m + 1 /\ frames' # <<>>
        /\ Bottom' = IF m = 1 THEN OnFrame(Bottom) ELSE Bottom
        /\ Below' = IF m = 1 THEN f ELSE IF m = 2 THEN OnFrame(Below) ELSE Below
        /\ (m = 1 => Bottom = frames[1]) /\ (m = 2 => Below = frames[1])
    <3>1. IsFrame(f)
      BY <2>1, OpensFrame
    <3>2. m = Len(frames) /\ frames # <<>> /\ Frames(frames) /\ GoesOn(frames, on)
      BY <1>1, <1>2, <1>5, <1>6
    <3> QED  BY <2>2, <3>1, <3>2, WherePut
  <2>4. /\ loaded' = [n \in Module!Names |-> loaded'[n]]
        /\ \A n \in Module!Names : loaded'[n] = IF n = of THEN files[of] ELSE loaded[n]
    BY <1>11 DEF ModuleInv, TextsInv
  <2>5. TextsInv'
    BY <1>3, <2>4 DEF ModuleInv, TextsInv, Told
  <2>6. AttemptInv'
    <3>1. CASE command \in {"exec", "run"}
      BY <1>2, <1>3, <3>1 DEF ModuleInv, AttemptInv
    <3>2. CASE command \in {"rollback", "setup"}
      <4>1. ScriptInv'
        <5>1. ASSUME m = 1, Tail(frames[1].rest) = <<>> PROVE FALSE
          <6>1. Bottom.rest = frames[1].rest /\ Bottom.rest \in Left(attempt) /\ Bottom.rest # <<>>
            BY <1>2, <1>8, <2>3, <3>2, <5>1 DEF ScriptInv
          <6>2. Tail(Bottom.rest) = <<>>
            BY <5>1, <6>1
          <6>3. Head(Bottom.rest).do = "call"
            BY <3>2, <6>1, <6>2, ImportIsNotLast
          <6> QED  BY <1>2, <6>1, <6>3
        <5>2. Len(frames') > 0 /\ (m > 1 => Len(frames') > 1)
          BY <1>6, <2>3
        <5>3. m > 1 => Below' = IF m = 2 THEN OnFrame(Below) ELSE Below
          BY <1>6, <2>3
        <5> QED  BY <1>1, <1>2, <1>3, <1>6, <1>8, <2>3, <3>2, <5>1, <5>2, <5>3, ScriptOn
      <4>2. attempt = "lib"
        BY <1>8, <1>11, <3>2, Sees DEF Module!Resolve
      <4>3. LibInv'
        <5>1. LibInv
          BY <1>8, <3>2, <4>2 DEF AttemptInv
        <5>2. loaded'[Aim] # NoFile \/ (loaded'[Aim] = loaded[Aim] /\ of # Aim)
          BY <1>9, <1>11, <2>4
        <5> QED  BY <1>1, <1>2, <1>3, <1>5, <1>11, <2>1, <2>2, <3>2, <4>2, <5>1, <5>2, HalfPut
      <4> QED  BY <1>3, <1>8, <3>2, <4>1, <4>2, <4>3 DEF AttemptInv
    <3> QED  BY <3>1, <3>2 DEF ModuleInv, Module!Commands
  <2> QED  BY <1>3, <1>7, <2>3, <2>5, <2>6 DEF ModuleInv
<1>12. /\ Module!From = "std" \/ files[of] # NoFile \/ loaded[of] # NoFile
       /\ IF Module!From = "std" \/ loaded[of] # NoFile THEN frames' = on /\ UNCHANGED loaded
          ELSE /\ frames' = <<Module!Frame("top", "lib", of, files[of].top)>> \o on
               /\ loaded' = [loaded EXCEPT ![of] = files[of]]
  BY <1>1, <1>5 DEF Module!Resolve
<1> QED  BY <1>10, <1>11, <1>12

LEMMA NoFrames == Frames(<<>>)
  BY DEF Frames, IsList

LEMMA NotFoundKeeps == ASSUME Module!ModulesAssumption, ModuleInv, Module!NotFound PROVE ModuleInv'
<1>1. PICK item, of : item = Module!Item /\ of = item.of
  OBVIOUS
<1>2. /\ ended = "no" /\ frames # <<>> /\ frames[1].rest # <<>>
      /\ Head(frames[1].rest) = item /\ item.do = "import"
  BY <1>1, AtFacts DEF Module!NotFound
<1>3. /\ UNCHANGED <<files, copying, command, loaded, did>> /\ missing' = of /\ Module!From = "lib"
      /\ \/ /\ attempt = "lib" /\ Module!is_module_not_found(of)
            /\ attempt' = "std" /\ frames' = Module!Begin("std") /\ UNCHANGED ended
         \/ ended' = "failed" /\ frames' = <<>> /\ UNCHANGED attempt
  BY <1>1 DEF Module!NotFound, Module!call, Module!vendor
<1>4. /\ TextsInv' /\ command' \in Module!Commands /\ IsList(did')
      /\ \A i \in 1 .. Len(did) : did[i].in = "body" => did[i].attempt = attempt
  BY <1>3 DEF ModuleInv, TextsInv
<1>5. CASE /\ attempt = "lib" /\ Module!is_module_not_found(of)
           /\ attempt' = "std" /\ frames' = Module!Begin("std") /\ UNCHANGED ended
  <2>1. command \in {"rollback", "setup"} /\ ScriptInv /\ LibInv
    BY <1>2, <1>5 DEF ModuleInv, AttemptInv, Module!Commands
  <2>2. PICK m : m = Len(frames)
    OBVIOUS
  <2>3. m \in Nat \ {0} /\ DOMAIN frames = 1 .. m
    BY <1>2, <2>2, ListFacts DEF ModuleInv, Frames
  <2>4. of \in Module!ToSet(Embedded) /\ \A i \in 1 .. m : frames[i].in # "body"
    BY <1>5, <2>3 DEF Module!is_module_not_found
  <2>5. ~Calling
    <3>1. SUFFICES ASSUME Calling PROVE FALSE
      OBVIOUS
    <3>2. m = 1
      <4>1. m - 1 \in 1 .. m \/ m = 1
        BY <2>3
      <4>2. m > 1 => frames[m - 1].in = "body"
        BY <2>2, <3>1 DEF Calling, Below
      <4> QED  BY <2>3, <2>4, <4>1, <4>2
    <3>3. Bottom.rest = frames[1].rest /\ Bottom.rest \in Left(attempt) /\ Bottom.rest # <<>>
      BY <1>2, <2>1, <2>2, <3>2 DEF Bottom, ScriptInv
    <3>4. Head(Bottom.rest) = Bottom.rest[1]
      BY <2>1, <3>3, LeftFacts
    <3> QED  BY <1>2, <3>1, <3>3, <3>4 DEF Calling, CallsOnly
  <2>6. \A i \in 1 .. Len(did) : did[i].in # "body"
    BY <2>1, <2>5 DEF LibInv, Quiet
  <2>7. AttemptInv' /\ Frames(frames')
    BY <1>3, <1>5, <2>1, <2>6, BegunRuns, BegunFrames
  <2>8. EndsInv'
    <3>1. of # OwnModule
      BY <2>4 DEF Module!ModulesAssumption
    <3> QED  BY <1>2, <1>3, <1>5, <2>4, <3>1 DEF EndsInv
  <2> QED  BY <1>3, <1>4, <2>6, <2>7, <2>8 DEF ModuleInv
<1>6. CASE ended' = "failed" /\ frames' = <<>> /\ UNCHANGED attempt
  <2>1. attempt # "std"
    <3>1. CASE command \in {"exec", "run"}
      BY <1>2, <3>1 DEF ModuleInv, AttemptInv
    <3>2. CASE command \in {"rollback", "setup"}
      BY <1>3, <3>2, Sees DEF Module!NotFound
    <3> QED  BY <3>1, <3>2 DEF ModuleInv, Module!Commands
  <2>2. EndsInv'
    BY <1>6, <2>1 DEF EndsInv
  <2> QED  BY <1>3, <1>4, <1>6, <2>2, NoFrames DEF ModuleInv
<1> QED  BY <1>3, <1>5, <1>6

AddedTo(s, x, new) == new = Append(s, x)
LEMMA AppendFacts ==
  ASSUME NEW s, IsList(s), NEW x, NEW new, AddedTo(s, x, new), NEW n, n = Len(s)
  PROVE  /\ IsList(new) /\ n \in Nat /\ Len(new) = n + 1 /\ new[n + 1] = x
         /\ \A i \in 1 .. n : new[i] = s[i]
<1>1. n \in Nat
  BY ListFacts
<1>2. PICK S : S = {s[i] : i \in DOMAIN s} \cup {x}
  OBVIOUS
<1>3. s \in Seq(S) /\ x \in S
  BY <1>2 DEF IsList
<1>4. new \in Seq(S) /\ Len(new) = n + 1 /\ new[n + 1] = x /\ \A i \in 1 .. n : new[i] = s[i]
  BY <1>3 DEF AddedTo
<1> QED  BY <1>1, <1>4, ListOf

LEMMA EffectKeeps == ASSUME ModuleInv, Module!Effect PROVE ModuleInv'
<1>1. PICK item, m, n, top :
        item = Module!Item /\ m = Len(frames) /\ n = Len(did) /\ top = frames[1]
  OBVIOUS
<1>2. /\ ended = "no" /\ frames # <<>> /\ top.rest # <<>>
      /\ Head(top.rest) = item /\ item.do = "effect"
  BY <1>1, AtFacts DEF Module!Effect
<1>3. PICK act : act = [attempt |-> attempt, in |-> top.in, of |-> top.of]
  OBVIOUS
<1>4. /\ UNCHANGED <<files, copying, command, attempt, loaded, missing>> /\ did' = Append(did, act)
      /\ \/ frames' = Module!Rest /\ UNCHANGED ended
         \/ frames' = <<>> /\ ended' = "failed"
  BY <1>1, <1>3 DEF Module!Effect, Module!call, Module!vendor, Module!Top
<1>5. /\ IsList(did') /\ n \in Nat /\ Len(did') = n + 1 /\ did'[n + 1] = act
      /\ \A i \in 1 .. n : did'[i] = did[i]
  <2>1. PICK s, new : s = did /\ new = did' /\ IsList(s) /\ AddedTo(s, act, new) /\ n = Len(s)
    BY <1>1, <1>4 DEF ModuleInv, AddedTo
  <2>2. /\ IsList(new) /\ n \in Nat /\ Len(new) = n + 1 /\ new[n + 1] = act
        /\ \A i \in 1 .. n : new[i] = s[i]
    BY <2>1, AppendFacts
  <2> QED  BY <2>1, <2>2
<1>6. \A i \in 1 .. n + 1 : i \in 1 .. n \/ i = n + 1
  BY <1>5
<1>7. \A i \in 1 .. n : i \in 1 .. n + 1
  BY <1>5
<1>8. n + 1 \in 1 .. n + 1
  BY <1>5
<1>9. act.attempt = attempt /\ act.in = top.in /\ act.of = top.of
  BY <1>3
<1>10. \A i \in 1 .. Len(did') : did'[i].in = "body" => did'[i].attempt = attempt'
  <2>1. \A i \in 1 .. n : did[i].in = "body" => did[i].attempt = attempt
    BY <1>1 DEF ModuleInv
  <2> QED  BY <1>4, <1>5, <1>6, <1>9, <2>1
<1>11. TextsInv' /\ command' \in Module!Commands
  BY <1>4 DEF ModuleInv, TextsInv
<1>12. EndsInv'
  BY <1>2, <1>4 DEF ModuleInv, EndsInv
<1>13. Frames(frames) /\ m \in Nat \ {0}
  BY <1>1, <1>2, ListFacts DEF ModuleInv, Frames
<1>14. CASE frames' = Module!Rest /\ UNCHANGED ended
  <2>1. GoesOn(frames, frames')
    BY <1>14 DEF GoesOn, Module!Rest, Module!Top
  <2>2. /\ Frames(frames') /\ Len(frames') = m /\ frames' # <<>>
        /\ frames'[1] = OnFrame(top) /\ \A i \in 2 .. m : frames'[i] = frames[i]
        /\ Bottom' = IF m = 1 THEN OnFrame(Bottom) ELSE Bottom
        /\ m > 1 => Below' = IF m = 2 THEN OnFrame(Below) ELSE Below
        /\ (m = 1 => Bottom = top) /\ (m = 2 => Below = top)
    BY <1>1, <1>2, <1>13, <2>1, WhereOn
  <2>3. AttemptInv'
    <3>1. CASE command \in {"exec", "run"}
      BY <1>2, <1>4, <3>1 DEF ModuleInv, AttemptInv
    <3>2. CASE command \in {"rollback", "setup"}
      <4>1. ScriptInv /\ attempt \in {"lib", "std"}
        BY <1>2, <3>2 DEF ModuleInv, AttemptInv
      <4>2. m # 1
        <5>1. SUFFICES ASSUME m = 1 PROVE FALSE
          OBVIOUS
        <5>2. Bottom.rest = top.rest /\ Bottom.rest \in Left(attempt) /\ Bottom.rest # <<>>
          BY <1>2, <2>2, <4>1, <5>1 DEF ScriptInv
        <5>3. Head(Bottom.rest) = Bottom.rest[1] /\ Bottom.rest[1].do \in {"import", "call"}
          BY <3>2, <5>2, LeftFacts
        <5> QED  BY <1>2, <5>2, <5>3
      <4>3. m > 1 /\ Bottom' = Bottom /\ (m = 2 => Below' = OnFrame(top)) /\ (m # 2 => Below' = Below)
        BY <1>13, <2>2, <4>2
      <4>4. Below'.in = Below.in
        BY <2>2, <4>3, OnFields
      <4>5. ScriptInv'
        <5>1. Acted(attempt) => Acted(attempt)'
          BY <1>1, <1>4, <1>5, <1>7 DEF Acted, Aim
        <5>2. Below.in = "body" /\ Below.of = Aim /\ m = 2 => Acted(attempt)'
          <6>1. SUFFICES ASSUME Below.in = "body", Below.of = Aim, m = 2 PROVE Acted(attempt)'
            OBVIOUS
          <6>2. act = [attempt |-> attempt, in |-> "body", of |-> Aim]
            BY <1>3, <2>2, <6>1
          <6> QED  BY <1>4, <1>5, <1>8, <6>2 DEF Acted, Aim
        <5>3. Left(attempt)' = Left(attempt) /\ Aim' = Aim
          BY <1>4 DEF Left, Aim
        <5> QED  BY <1>1, <2>2, <4>1, <4>3, <5>1, <5>2, <5>3 DEF ScriptInv
      <4>6. ASSUME attempt = "lib" PROVE LibInv'
        <5>1. LibInv
          BY <1>2, <3>2, <4>6 DEF ModuleInv, AttemptInv
        <5>2. Calling => Calling'
          BY <1>1, <2>2, <4>3, <4>4 DEF Calling
        <5>3. Quiet => Quiet'
          <6>1. SUFFICES ASSUME Quiet PROVE Quiet'
            OBVIOUS
          <6>2. top.in # "body" /\ NoCalls(top.rest)
            <7>1. 1 \in 1 .. m /\ 1 \in 1 .. m - 1
              BY <1>13, <4>3
            <7> QED  BY <1>1, <6>1, <7>1 DEF Quiet
          <6>3. frames'[1].in # "body" /\ NoCalls(frames'[1].rest)
            BY <1>2, <2>2, <6>2, OnFields, NoCallsOn
          <6>4. \A i \in 1 .. m : frames'[i].in # "body"
            <7>1. \A i \in 1 .. m : i = 1 \/ i \in 2 .. m
              BY <1>13
            <7> QED  BY <1>1, <2>2, <6>1, <6>3, <7>1 DEF Quiet
          <6>5. \A i \in 1 .. m - 1 : NoCalls(frames'[i].rest)
            <7>1. \A i \in 1 .. m - 1 : i = 1 \/ i \in 2 .. m
              BY <1>13
            <7> QED  BY <1>1, <2>2, <6>1, <6>3, <7>1 DEF Quiet
          <6>6. \A i \in 1 .. Len(did') : did'[i].in # "body"
            BY <1>1, <1>5, <1>6, <1>9, <6>1, <6>2 DEF Quiet
          <6> QED  BY <2>2, <6>4, <6>5, <6>6 DEF Quiet
        <5> QED  BY <1>4, <4>3, <5>1, <5>2, <5>3 DEF LibInv, Aim
      <4>7. ASSUME attempt = "std" PROVE StdInv'
        BY <1>2, <2>1, <3>2, <4>7, StdOn DEF ModuleInv, AttemptInv
      <4> QED  BY <1>4, <3>2, <4>1, <4>5, <4>6, <4>7 DEF AttemptInv
    <3> QED  BY <3>1, <3>2 DEF ModuleInv, Module!Commands
  <2> QED  BY <1>5, <1>10, <1>11, <1>12, <2>2, <2>3 DEF ModuleInv
<1>15. CASE frames' = <<>> /\ ended' = "failed"
  BY <1>5, <1>10, <1>11, <1>12, <1>15, NoFrames DEF ModuleInv
<1> QED  BY <1>4, <1>14, <1>15

LEMMA LeaveKeeps == ASSUME ModuleInv, Module!Leave PROVE ModuleInv'
<1>1. PICK m : m = Len(frames)
  OBVIOUS
<1>2. /\ ended = "no" /\ frames # <<>> /\ frames[1].rest = <<>> /\ frames' = Tail(frames)
      /\ ended' = IF m = 1 THEN "done" ELSE ended
      /\ UNCHANGED <<files, copying, command, attempt, loaded, missing, did>>
  BY <1>1 DEF Module!Leave, Module!Running, Module!Top, Module!call, Module!vendor
<1>3. /\ TextsInv' /\ command' \in Module!Commands /\ IsList(did') /\ Frames(frames)
      /\ \A i \in 1 .. Len(did') : did'[i].in = "body" => did'[i].attempt = attempt'
  BY <1>2 DEF ModuleInv, TextsInv
<1>4. /\ m \in Nat \ {0} /\ Frames(frames') /\ Len(frames') = m - 1
      /\ \A i \in 1 .. m - 1 : frames'[i] = frames[i + 1]
      /\ m > 1 => frames' # <<>> /\ Bottom' = Bottom
      /\ m > 2 => Below' = Below
      /\ (m = 1 => Bottom = frames[1]) /\ (m = 2 => Below = frames[1])
  BY <1>1, <1>2, <1>3, WhereOff
<1>5. Acted(attempt)' <=> Acted(attempt)
  BY <1>2 DEF Acted, Aim
<1>6. command \in {"rollback", "setup"} => ScriptInv /\ attempt \in {"lib", "std"}
  BY <1>2 DEF ModuleInv, AttemptInv
<1>7. CASE m = 1
  <2>1. command \in {"exec", "run"} \/ Acted(attempt)
    <3>1. ~(Len(frames) > 1)
      BY <1>1, <1>7
    <3> QED  BY <1>2, <1>3, <1>4, <1>6, <1>7, <3>1 DEF ScriptInv, Module!Commands
  <2>2. EndsInv'
    BY <1>2, <1>5, <1>7, <2>1 DEF ModuleInv, EndsInv
  <2> QED  BY <1>2, <1>3, <1>4, <1>7, <2>2 DEF ModuleInv
<1>8. CASE m # 1
  <2>1. m > 1 /\ ended' = "no"
    BY <1>2, <1>4, <1>8
  <2>2. EndsInv'
    BY <1>2, <2>1, SameEnds DEF ModuleInv
  <2>3. AttemptInv'
    <3>1. CASE command \in {"exec", "run"}
      BY <1>2, <3>1 DEF ModuleInv, AttemptInv
    <3>2. CASE command \in {"rollback", "setup"}
      <4>1. ScriptInv'
        <5>1. Left(attempt)' = Left(attempt) /\ Aim' = Aim
          BY <1>2 DEF Left, Aim
        <5>2. ~(m = 2 /\ Acts(Below.rest))
          <6>1. ~Acts(<<>>)
            <7>1. Len(<<>>) = 0 /\ 1 .. 0 = {}
              OBVIOUS
            <7> QED  BY <7>1 DEF Acts
          <6> QED  BY <1>2, <1>4, <6>1
        <5>3. m = 2 \/ (m > 2 /\ m - 1 > 1 /\ Below' = Below)
          BY <1>4, <2>1
        <5> QED  BY <1>2, <1>4, <1>5, <1>6, <2>1, <3>2, <5>1, <5>2, <5>3 DEF ScriptInv
      <4>2. ASSUME attempt = "lib" PROVE LibInv'
        <5>1. LibInv
          BY <1>2, <3>2, <4>2 DEF ModuleInv, AttemptInv
        <5>2. Calling => Calling'
          <6>1. m - 1 > 1 => m > 2
            BY <1>4
          <6> QED  BY <1>1, <1>4, <2>1, <6>1 DEF Calling
        <5>3. Quiet => Quiet'
          <6>1. SUFFICES ASSUME Quiet PROVE Quiet'
            OBVIOUS
          <6>2. /\ \A i \in 1 .. m - 1 : i + 1 \in 1 .. m
                /\ \A i \in 1 .. (m - 1) - 1 : i + 1 \in 1 .. m - 1 /\ i \in 1 .. m - 1
            BY <1>4
          <6> QED  BY <1>1, <1>2, <1>4, <6>1, <6>2 DEF Quiet
        <5> QED  BY <1>2, <1>4, <2>1, <5>1, <5>2, <5>3 DEF LibInv, Aim
      <4>3. ASSUME attempt = "std" PROVE StdInv'
        <5>1. StdInv
          BY <1>2, <3>2, <4>3 DEF ModuleInv, AttemptInv
        <5>2. \A i \in 1 .. (m - 1) - 1 : i + 1 \in 1 .. m - 1 /\ i \in 1 .. m - 1
          BY <1>4
        <5> QED  BY <1>1, <1>4, <5>1, <5>2 DEF StdInv
      <4> QED  BY <1>2, <1>6, <3>2, <4>1, <4>2, <4>3 DEF AttemptInv
    <3> QED  BY <1>2, <1>3, <3>1, <3>2 DEF Module!Commands
  <2> QED  BY <1>3, <1>4, <2>2, <2>3 DEF ModuleInv
<1> QED  BY <1>7, <1>8

LEMMA CallKeeps == ASSUME Module!ModulesAssumption, ModuleInv, Module!CallFn PROVE ModuleInv'
<1>1. PICK item, m, of, from : item = Module!Item /\ m = Len(frames) /\ of = item.of /\ from = Module!From
  OBVIOUS
<1>2. /\ ended = "no" /\ frames # <<>> /\ frames[1].rest # <<>>
      /\ Head(frames[1].rest) = item /\ item.do = "call"
  BY <1>1, AtFacts DEF Module!CallFn
<1>3. PICK body, f :
        /\ body = (IF from = "std" THEN StdText[of] ELSE loaded[of]).body
        /\ f = Module!Frame("body", from, of, body)
  OBVIOUS
<1>4. PICK on : on = <<[frames[1] EXCEPT !.rest = Tail(@)]>> \o Tail(frames)
  OBVIOUS
<1>5. /\ UNCHANGED <<files, copying, command, attempt, loaded, missing, ended, did>>
      /\ GoesOn(frames, on) /\ OnTop(f, on, frames')
  BY <1>1, <1>3, <1>4 DEF Module!CallFn, Module!call, Module!vendor, Module!Rest, Module!Top, GoesOn, OnTop
<1>6. f.in = "body" /\ f.from = from /\ f.of = of /\ f.rest = body /\ IsFrame(f)
  <2>1. PICK in : in = "body"
    OBVIOUS
  <2>2. f = Module!Frame(in, from, of, body)
    BY <1>3, <2>1
  <2>3. f.in = in /\ f.from = from /\ f.of = of /\ f.rest = body
    BY <2>2, FrameFields
  <2> QED  BY <2>1, <2>2, <2>3 DEF IsFrame
<1>7. Frames(frames)
  BY DEF ModuleInv
<1>8. /\ m \in Nat \ {0} /\ Frames(frames') /\ Len(frames') = m + 1 /\ frames' # <<>>
      /\ frames'[1] = f /\ frames'[2] = OnFrame(frames[1])
      /\ \A i \in 3 .. m + 1 : frames'[i] = frames[i - 1]
      /\ Bottom' = IF m = 1 THEN OnFrame(Bottom) ELSE Bottom
      /\ Below' = IF m = 1 THEN f ELSE IF m = 2 THEN OnFrame(Below) ELSE Below
      /\ (m = 1 => Bottom = frames[1]) /\ (m = 2 => Below = frames[1])
  BY <1>1, <1>2, <1>5, <1>6, <1>7, WherePut, ZenonT(40)
<1>9. /\ EndsInv' /\ TextsInv'
      /\ \A i \in 1 .. Len(did') : did'[i].in = "body" => did'[i].attempt = attempt'
  BY <1>5, SameEnds DEF ModuleInv, TextsInv
<1>10. AttemptInv'
  <2>1. CASE command \in {"exec", "run"}
    BY <1>2, <1>5, <2>1 DEF ModuleInv, AttemptInv
  <2>2. CASE command \in {"rollback", "setup"}
    <3>1. ScriptInv /\ attempt \in {"lib", "std"}
      BY <1>2, <2>2 DEF ModuleInv, AttemptInv
    <3>2. (attempt = "std" => from = "std") /\ (m = 1 => from = attempt)
      BY <1>1, <2>2, Sees DEF Module!CallFn
    <3>3. ASSUME m = 1
          PROVE  /\ Bottom.rest = frames[1].rest /\ CallsOnly(Bottom.rest) /\ CallsOnly(Bottom'.rest)
                 /\ Tail(frames[1].rest) = <<>> => of = Aim
      <4>1. PICK rest, next : rest = frames[1].rest /\ next = Tail(rest)
        OBVIOUS
      <4>2. Bottom.rest = rest /\ rest \in Left(attempt) /\ rest # <<>> /\ Bottom'.rest = next
        BY <1>2, <1>8, <3>1, <3>3, <4>1, OnFields DEF ScriptInv
      <4>3. /\ Head(rest) = rest[1] /\ (rest[1].do = "call" => CallsOnly(Tail(rest)))
            /\ Tail(rest) = <<>> => rest[1].of = Aim
        BY <2>2, <4>2, LeftFacts
      <4> QED  BY <1>1, <1>2, <4>1, <4>2, <4>3 DEF CallsOnly
    <3>4. ASSUME m = 1, Tail(frames[1].rest) = <<>> PROVE of = Aim /\ Acts(body)
      <4>1. of = Aim
        BY <3>3, <3>4
      <4>2. Aim \in {"deploy", "proxy"} /\ Aim \in Module!ToSet(Embedded) /\ Aim \in Module!Names
        BY DEF Aim, Module!ModulesAssumption, Module!Names
      <4>3. CASE attempt = "std"
        <5>1. Module!IsText(Aim, StdText[Aim])
          BY <4>2 DEF Module!ModulesAssumption
        <5>2. Acts(StdText[Aim].body)
          BY <4>2, <5>1, TextFacts
        <5> QED  BY <1>3, <3>2, <4>1, <4>3, <5>2
      <4>4. CASE attempt = "lib"
        <5>1. loaded[Aim] # NoFile
          BY <1>2, <2>2, <3>3, <3>4, <4>4 DEF ModuleInv, AttemptInv, LibInv
        <5>2. Module!IsText(Aim, loaded[Aim])
          BY <4>2, <5>1 DEF ModuleInv, TextsInv, Told
        <5>3. Acts(loaded[Aim].body)
          BY <4>2, <5>2, TextFacts
        <5>4. body = loaded[Aim].body
          BY <1>3, <3>2, <3>4, <4>1, <4>4
        <5> QED  BY <4>1, <5>3, <5>4
      <4> QED  BY <3>1, <4>3, <4>4
    <3>5. ScriptInv'
      <4>1. Len(frames') > 0 /\ Len(frames') > 1 /\ (m > 1 => m # 1)
        BY <1>8
      <4>2. m > 1 => Below' = IF m = 2 THEN OnFrame(Below) ELSE Below
        BY <1>8, <4>1
      <4>3. m = 1 /\ Tail(frames[1].rest) = <<>> =>
              Below'.in = "body" /\ Below'.of = Aim /\ Acts(Below'.rest)
        BY <1>6, <1>8, <3>4
      <4> QED  BY <1>1, <1>2, <1>5, <1>7, <1>8, <2>2, <3>1, <4>1, <4>2, <4>3, ScriptOn
    <3>6. ASSUME attempt = "lib" PROVE LibInv'
      <4>1. LibInv
        BY <1>2, <2>2, <3>6 DEF ModuleInv, AttemptInv
      <4>2. ASSUME m # 1 PROVE Calling
        <5>1. 1 \in 1 .. m - 1
          BY <1>8, <4>2
        <5>2. Quiet => NoCalls(frames[1].rest)
          BY <1>1, <5>1 DEF Quiet
        <5>3. ~Quiet
          BY <1>2, <5>2, NoCallsOn
        <5> QED  BY <4>1, <5>3 DEF LibInv
      <4>3. Calling'
        <5>1. CASE m = 1
          BY <1>6, <1>8, <3>3, <5>1 DEF Calling
        <5>2. CASE m # 1
          <6>1. m > 1 /\ Bottom' = Bottom /\ Below'.in = Below.in
            BY <1>8, <5>2, OnFields
          <6> QED  BY <1>1, <4>2, <5>2, <6>1 DEF Calling
        <5> QED  BY <5>1, <5>2
      <4>4. CallsOnly(Bottom.rest)
        BY <3>3, <4>2 DEF Calling
      <4>5. loaded'[Aim'] # NoFile
        BY <1>5, <4>1, <4>4 DEF LibInv, Aim
      <4> QED  BY <4>3, <4>5 DEF LibInv
    <3>7. ASSUME attempt = "std" PROVE StdInv'
      <4>1. StdInv
        BY <1>2, <2>2, <3>7 DEF ModuleInv, AttemptInv
      <4>2. ASSUME NEW i \in 1 .. m PROVE frames'[i].from = "std"
        <5>1. i = 1 \/ (i = 2 /\ 1 \in 1 .. m - 1) \/ (i \in 3 .. m + 1 /\ i - 1 \in 1 .. m - 1)
          BY <1>8
        <5>2. CASE i = 1
          BY <1>6, <1>8, <3>2, <3>7, <5>2
        <5>3. CASE i = 2 /\ 1 \in 1 .. m - 1
          BY <1>1, <1>8, <4>1, <5>3, OnFields DEF StdInv
        <5>4. CASE i \in 3 .. m + 1 /\ i - 1 \in 1 .. m - 1
          BY <1>1, <1>8, <4>1, <5>4 DEF StdInv
        <5> QED  BY <5>1, <5>2, <5>3, <5>4
      <4>3. (m + 1) - 1 = m
        BY <1>8
      <4> QED  BY <1>8, <4>2, <4>3 DEF StdInv
    <3> QED  BY <1>5, <2>2, <3>1, <3>5, <3>6, <3>7 DEF AttemptInv
  <2> QED  BY <2>1, <2>2 DEF ModuleInv, Module!Commands
<1> QED  BY <1>5, <1>8, <1>9, <1>10 DEF ModuleInv

LEMMA ModuleInit == ASSUME Module!ModulesAssumption, Module!Init PROVE ModuleInv
<1>1. /\ files \in [Module!Names -> UNION {Customs[n] : n \in Module!Names}]
      /\ \A n \in Module!Names : files[n] \in Customs[n]
      /\ copying = 0 /\ command \in Module!Commands /\ attempt = "file"
      /\ loaded = [n \in Module!Names |-> NoFile] /\ frames = <<>> /\ missing = "none"
      /\ ended = "not started" /\ did = <<>>
  BY DEF Module!Init
<1>2. ASSUME NEW n \in Module!Names PROVE Told(n, files[n]) /\ Told(n, loaded[n])
  BY <1>1 DEF Told, Module!ModulesAssumption
<1>3. TextsInv
  BY <1>1, <1>2 DEF TextsInv
<1>4. EndsInv
  BY <1>1 DEF EndsInv, Module!ModulesAssumption
<1>5. IsList(<<>>) /\ 1 .. Len(<<>>) = {}
  BY DEF IsList
<1> QED  BY <1>1, <1>3, <1>4, <1>5, NoFrames DEF ModuleInv

LEMMA ModuleStep == ASSUME Module!ModulesAssumption, ModuleInv, [Module!Next]_(Module!vars) PROVE ModuleInv'
<1>1. CASE UNCHANGED Module!vars
  <2>1. UNCHANGED <<files, copying, command, attempt, loaded, frames, missing, ended, did>>
    BY <1>1 DEF Module!vars, Module!vendor, Module!call
  <2> QED  BY <2>1 DEF ModuleInv, TextsInv, EndsInv, AttemptInv, ScriptInv, LibInv, StdInv, Quiet, Calling,
                       Acted, Aim, Left, Bottom, Below
<1> QED  BY <1>1, VendorKeeps, RefuseKeeps, StartKeeps, ResolveKeeps, NotFoundKeeps, CallKeeps,
            EffectKeeps, LeaveKeeps DEF Module!Next

LEMMA ModulePromise == ASSUME Module!ModulesAssumption, ModuleInv PROVE Module!RunsAtMostOnce
<1>1. PICK n : n = Len(did) /\ DOMAIN did = 1 .. n
  BY ListFacts DEF ModuleInv
<1>2. \A i, j \in DOMAIN did : did[i].in = "body" /\ did[j].in = "body" => did[i].attempt = did[j].attempt
  BY <1>1 DEF ModuleInv
<1>3. EndsInv
  BY DEF ModuleInv
<1>4. ended = "done" /\ command \in {"rollback", "setup"} =>
        \E i \in DOMAIN did :
          did[i] = [attempt |-> attempt, in |-> "body", of |-> IF command = "setup" THEN "proxy" ELSE "deploy"]
  BY <1>1, <1>3 DEF EndsInv, Acted, Aim
<1> QED  BY <1>2, <1>3, <1>4 DEF EndsInv, Module!RunsAtMostOnce

(* eval.rs run_fn, run_rollback, run_setup, is_module_not_found: whatever the
   modules of lib/ and of the embedded library hold, however `nrg vendor` rewrites
   lib/ under the run, a refused call did nothing, the embedded copy stands in only
   for a missing module of the library and never after a function of the vendored
   copy did anything, and a rollback or a setup that ended did what it is for.  *)
LEMMA ModuleHolds == ASSUME Module!ModulesAssumption PROVE Module!Spec => []Module!RunsAtMostOnce
<1>1. Module!Init => ModuleInv
  BY ModuleInit
<1>2. ModuleInv /\ [Module!Next]_(Module!vars) => ModuleInv'
  BY ModuleStep
<1>3. ModuleInv => Module!RunsAtMostOnce
  BY ModulePromise
<1> QED  BY <1>1, <1>2, <1>3, PTL DEF Module!Spec
-----------------------------------------------------------------------------
(* ------------------------------ Redaction ------------------------------- *)
(* s begins w, byte by byte.                                                 *)
Begins(s, w) == Len(s) <= Len(w) /\ \A i \in 1 .. Len(s) : s[i] = w[i]

LEMMA PrefixIs == ASSUME NEW S, NEW s \in Seq(S), NEW w \in Seq(S)
                  PROVE  Redact!IsPrefix(s, w) <=> Begins(s, w)
<1>1. PICK m, n : m = Len(s) /\ n = Len(w) /\ m \in Nat /\ n \in Nat
  BY LenProperties
<1>2. /\ \A i \in 1 .. m : s[i] \in S
      /\ \A i \in 1 .. n : w[i] \in S
  BY <1>1
<1>3. ASSUME m <= n
      PROVE  SubSeq(s, 1, m) = SubSeq(w, 1, m) <=> \A i \in 1 .. m : s[i] = w[i]
  <2>1. PICK a : a = SubSeq(s, 1, m)
    OBVIOUS
  <2>2. PICK b : b = SubSeq(w, 1, m)
    OBVIOUS
  <2>3. a \in Seq(S) /\ Len(a) = m /\ \A i \in 1 .. m : a[i] = s[i]
    BY <1>1, <1>2, <2>1
  <2>4. b \in Seq(S) /\ Len(b) = m /\ \A i \in 1 .. m : b[i] = w[i]
    BY <1>1, <1>2, <1>3, <2>2
  <2>5. (\A i \in 1 .. m : a[i] = b[i]) => a = b
    BY <2>3, <2>4, SeqEqual
  <2> QED  BY <2>1, <2>2, <2>3, <2>4, <2>5
<1> QED  BY <1>1, <1>3 DEF Redact!IsPrefix, Begins

LEMMA MatchesAre ==
  ASSUME Redact!RedactorAssumption, NEW w \in Seq(Bytes), NEW s
  PROVE  s \in Redact!Matches(w) <=> s \in Secrets /\ Begins(s, w)
<1>1. s \in Secrets => s \in Seq(Bytes)
  BY DEF Redact!RedactorAssumption
<1> QED  BY <1>1, PrefixIs DEF Redact!Matches

LEMMA HeldIs ==
  ASSUME Redact!RedactorAssumption, NEW w \in Seq(Bytes)
  PROVE  Redact!Held(w) <=> \E s \in Secrets : Begins(w, s) /\ Len(w) < Len(s)
<1>1. ASSUME NEW s \in Secrets
      PROVE  Redact!IsStrictPrefix(w, s) <=> Begins(w, s) /\ Len(w) < Len(s)
  <2>1. s \in Seq(Bytes)
    BY DEF Redact!RedactorAssumption
  <2>2. Redact!IsPrefix(w, s) <=> Begins(w, s)
    BY <2>1, PrefixIs
  <2>3. PICK m, n : m = Len(w) /\ n = Len(s) /\ m \in Nat /\ n \in Nat
    BY <2>1, LenProperties
  <2>4. ASSUME Begins(w, s), m = n PROVE w = s
    BY <2>1, <2>3, <2>4, SeqEqual DEF Begins
  <2>5. Begins(w, s) => m <= n
    BY <2>3 DEF Begins
  <2>6. w = s => m = n
    BY <2>3
  <2> QED  BY <2>2, <2>3, <2>4, <2>5, <2>6 DEF Redact!IsStrictPrefix
<1> QED  BY <1>1 DEF Redact!Held

(* Where no secret is pending, what follows changes nothing.                 *)
LEMMA SettledGrows ==
  ASSUME Redact!RedactorAssumption, NEW w \in Seq(Bytes), NEW z \in Seq(Bytes), ~Redact!Held(w)
  PROVE  Redact!Matches(w \o z) = Redact!Matches(w) /\ ~Redact!Held(w \o z)
<1>0. PICK m, n, wz : m = Len(w) /\ n = Len(z) /\ wz = w \o z
  OBVIOUS
<1>1. /\ m = Len(w) /\ n = Len(z) /\ m \in Nat /\ n \in Nat /\ wz = w \o z
      /\ wz \in Seq(Bytes) /\ Len(wz) = m + n
      /\ \A i \in 1 .. m : wz[i] = w[i]
  <2>1. /\ m \in Nat /\ n \in Nat /\ wz \in Seq(Bytes) /\ Len(wz) = m + n
        /\ \A i \in 1 .. m + n : wz[i] = IF i <= m THEN w[i] ELSE z[i - m]
    BY <1>0, ConcatProperties, LenProperties
  <2>2. \A i \in 1 .. m : wz[i] = w[i]
    BY <2>1
  <2> QED  BY <1>0, <2>1, <2>2
<1>2. ASSUME NEW s \in Secrets PROVE ~(Begins(w, s) /\ m < Len(s)) /\ Len(s) \in Nat
  BY <1>1, HeldIs DEF Redact!RedactorAssumption
<1>3. ASSUME NEW s \in Secrets PROVE Begins(s, wz) <=> Begins(s, w)
  <2>1. ASSUME Begins(s, wz), m < Len(s) PROVE FALSE
    <3>1. \A i \in 1 .. m : i \in 1 .. Len(s)
      BY <1>1, <1>2, <2>1
    <3>2. \A i \in 1 .. m : w[i] = s[i]
      BY <1>1, <2>1, <3>1 DEF Begins
    <3>3. m <= Len(s)
      BY <1>1, <1>2, <2>1
    <3> QED  BY <1>1, <1>2, <2>1, <3>2, <3>3 DEF Begins
  <2>2. ASSUME Len(s) <= m PROVE Begins(s, wz) <=> Begins(s, w)
    <3>1. \A i \in 1 .. Len(s) : i \in 1 .. m
      BY <1>1, <1>2, <2>2
    <3>2. Len(s) <= m + n
      BY <1>1, <1>2, <2>2
    <3> QED  BY <1>1, <2>2, <3>1, <3>2 DEF Begins
  <2>3. Begins(s, w) => Len(s) <= m
    BY <1>1 DEF Begins
  <2>4. Len(s) <= m \/ m < Len(s)
    BY <1>1, <1>2
  <2> QED  BY <2>1, <2>2, <2>3, <2>4
<1>4. ASSUME NEW s \in Secrets, Begins(wz, s), Len(wz) < Len(s) PROVE FALSE
  <2>1. \A i \in 1 .. m : i \in 1 .. m + n
    BY <1>1
  <2>2. m <= m + n /\ m < Len(s) /\ m <= Len(s)
    BY <1>1, <1>2, <1>4
  <2> QED  BY <1>1, <1>2, <1>4, <2>1, <2>2 DEF Begins
<1>5. \A s : s \in Redact!Matches(wz) <=> s \in Redact!Matches(w)
  BY <1>1, <1>3, MatchesAre
<1>6. ~Redact!Held(wz)
  BY <1>1, <1>4, HeldIs
<1>7. Redact!Matches(wz) = Redact!Matches(w)
  BY <1>5
<1> QED  BY <1>1, <1>6, <1>7

(* The longest match is one, and Max finds its length.                       *)
LEMMA LongestIs ==
  ASSUME Redact!RedactorAssumption, NEW w \in Seq(Bytes), Redact!Matches(w) # {}
  PROVE  /\ Redact!LongestFirst(w) \in Redact!Matches(w)
         /\ Len(Redact!LongestFirst(w)) \in 1 .. Len(w)
         /\ Redact!Max({Len(s) : s \in Redact!Matches(w)}) = Len(Redact!LongestFirst(w))
<1>1. PICK n, M : n = Len(w) /\ n \in Nat /\ M = Redact!Matches(w)
  OBVIOUS
<1>2. ASSUME NEW s \in M PROVE Len(s) \in 1 .. n
  <2>1. s \in Seq(Bytes) /\ s # <<>> /\ Len(s) <= n
    BY <1>1, MatchesAre DEF Begins, Redact!RedactorAssumption
  <2> QED  BY <1>1, <2>1
<1>3. PICK T : T = {n - Len(s) : s \in M}
  OBVIOUS
<1>4. T \in SUBSET Nat /\ T # {}
  <2>1. \A s \in M : n - Len(s) \in Nat
    BY <1>1, <1>2
  <2> QED  BY <1>1, <1>3, <2>1
<1>5. PICK x \in T : \A y \in T : x <= y
  BY <1>4, Least
<1>6. PICK top \in M : x = n - Len(top)
  BY <1>3
<1>7. ASSUME NEW t \in M PROVE Len(t) <= Len(top)
  <2>1. n - Len(top) <= n - Len(t)
    BY <1>3, <1>5, <1>6
  <2>2. Len(t) \in Nat /\ Len(top) \in Nat
    BY <1>1, <1>2
  <2> QED  BY <1>1, <2>1, <2>2
<1>8. PICK best : best = Redact!LongestFirst(w) /\ best \in M /\ \A t \in M : Len(t) <= Len(best)
  BY <1>1, <1>6, <1>7 DEF Redact!LongestFirst
<1>9. PICK L : L = {Len(s) : s \in M}
  OBVIOUS
<1>10. Len(best) \in L /\ \A y \in L : Len(best) >= y /\ y \in Nat
  BY <1>1, <1>2, <1>8, <1>9
<1>11. PICK c : c = Redact!Max(L) /\ c \in L /\ \A y \in L : c >= y
  BY <1>10 DEF Redact!Max
<1>12. c = Len(best)
  BY <1>10, <1>11
<1> QED  BY <1>1, <1>2, <1>8, <1>9, <1>11, <1>12

(* What Redacted computes, from the right.                                   *)
Suffix(w, i) == SubSeq(w, i, Len(w))
Jump(w, i)   == Redact!Max({Len(s) : s \in Redact!Matches(Suffix(w, i))})
Shown(w, g, i) ==
  IF i > Len(w) THEN <<>>
  ELSE IF Redact!Matches(Suffix(w, i)) = {} THEN <<w[i]>> \o g[i + 1]
  ELSE <<Mask>> \o g[i + Jump(w, i)]
Shows(w, g, first) == g = [i \in first .. Len(w) + 1 |-> Shown(w, g, i)]

LEMMA SuffixFacts ==
  ASSUME NEW w \in Seq(Bytes), NEW i \in 1 .. Len(w) + 1
  PROVE  /\ Suffix(w, i) \in Seq(Bytes) /\ Len(Suffix(w, i)) = Len(w) + 1 - i
         /\ \A j \in 1 .. Len(w) + 1 - i : Suffix(w, i)[j] = w[i + j - 1]
<1>1. PICK n, v : n = Len(w) /\ n \in Nat /\ v = SubSeq(w, i, n) /\ \A k \in 1 .. n : w[k] \in Bytes
  BY LenProperties, ElementOfSeq
<1>2. i \in Int /\ n \in Int /\ \A k \in i .. n : w[k] \in Bytes
  BY <1>1
<1>3. /\ v \in Seq(Bytes) /\ Len(v) = IF i <= n THEN n - i + 1 ELSE 0
      /\ \A k \in 1 .. n - i + 1 : v[k] = w[i + k - 1]
  BY <1>1, <1>2, SubSeqProperties
<1>4. Len(v) = n + 1 - i
  BY <1>1, <1>3
<1>5. \A j \in 1 .. n + 1 - i : j \in 1 .. n - i + 1
  BY <1>1
<1> QED  BY <1>1, <1>3, <1>4, <1>5 DEF Suffix

LEMMA SuffixOfSuffix ==
  ASSUME NEW w \in Seq(Bytes), NEW i \in 1 .. Len(w) + 1, NEW j \in 1 .. Len(Suffix(w, i)) + 1
  PROVE  /\ i + j - 1 \in 1 .. Len(w) + 1
         /\ Suffix(Suffix(w, i), j) = Suffix(w, i + j - 1)
<1>1. PICK n, v, m, k : n = Len(w) /\ n \in Nat /\ v = Suffix(w, i) /\ m = Len(v) /\ k = i + j - 1
  BY LenProperties
<1>2. v \in Seq(Bytes) /\ m = n + 1 - i /\ \A p \in 1 .. m : v[p] = w[i + p - 1]
  BY <1>1, SuffixFacts
<1>3. k \in 1 .. n + 1 /\ m + 1 - j = n + 1 - k /\ m + 1 - j \in Nat
  BY <1>1, <1>2
<1>4. PICK a, b : a = Suffix(v, j) /\ b = Suffix(w, k)
  OBVIOUS
<1>5. a \in Seq(Bytes) /\ Len(a) = m + 1 - j /\ \A p \in 1 .. m + 1 - j : a[p] = v[j + p - 1]
  BY <1>1, <1>2, <1>4, SuffixFacts, ZenonT(40)
<1>6. b \in Seq(Bytes) /\ Len(b) = n + 1 - k /\ \A p \in 1 .. n + 1 - k : b[p] = w[k + p - 1]
  BY <1>1, <1>3, <1>4, SuffixFacts
<1>7. ASSUME NEW p \in 1 .. m + 1 - j PROVE a[p] = b[p]
  <2>1. j + p - 1 \in 1 .. m /\ i + (j + p - 1) - 1 = k + p - 1
    <3>1. i \in Nat \ {0} /\ j \in Nat \ {0} /\ m \in Nat /\ k = i + j - 1 /\ p \in 1 .. m + 1 - j
      BY <1>1, <1>2
    <3> QED  BY <3>1
  <2>2. a[p] = w[i + (j + p - 1) - 1]
    BY <1>2, <1>5, <2>1
  <2> QED  BY <1>3, <1>6, <2>1, <2>2
<1>8. a = b
  BY <1>3, <1>5, <1>6, <1>7, SeqEqual
<1> QED  BY <1>1, <1>3, <1>4, <1>8

LEMMA JumpFacts ==
  ASSUME Redact!RedactorAssumption, NEW w \in Seq(Bytes), NEW i \in 1 .. Len(w) + 1,
         Redact!Matches(Suffix(w, i)) # {}
  PROVE  Jump(w, i) \in 1 .. Len(w) + 1 - i /\ Jump(w, i) = Len(Redact!LongestFirst(Suffix(w, i)))
<1>1. PICK v : v = Suffix(w, i) /\ v \in Seq(Bytes) /\ Len(v) = Len(w) + 1 - i
  BY SuffixFacts
<1>2. /\ Len(Redact!LongestFirst(v)) \in 1 .. Len(v)
      /\ Redact!Max({Len(s) : s \in Redact!Matches(v)}) = Len(Redact!LongestFirst(v))
  BY <1>1, LongestIs
<1> QED  BY <1>1, <1>2 DEF Jump

LEMMA ShowsExists ==
  ASSUME Redact!RedactorAssumption, NEW w \in Seq(Bytes)
  PROVE  \E g : Shows(w, g, 1)
<1>1. PICK n : n = Len(w) /\ n \in Nat
  BY LenProperties
<1> DEFINE bad == {k \in 0 .. n : ~ \E g : Shows(w, g, n + 1 - k)}
<1>2. SUFFICES bad = {}
  <2>1. n \in 0 .. n /\ n + 1 - n = 1
    BY <1>1
  <2>2. ASSUME bad = {} PROVE \E g : Shows(w, g, n + 1 - n)
    BY <2>1, <2>2
  <2> QED  BY <2>1, <2>2
<1>3. SUFFICES ASSUME bad # {} PROVE FALSE
  OBVIOUS
<1>4. PICK k \in bad : \A y \in bad : k <= y
  <2>1. bad \in SUBSET Nat
    BY <1>1
  <2> QED  BY <1>3, <2>1, Least
<1>5. k \in 0 .. n /\ ~ \E g : Shows(w, g, n + 1 - k)
  OBVIOUS
<1>6. PICK f : f = n + 1 - k /\ f \in 1 .. n + 1
  BY <1>1, <1>5
<1>7. PICK old : f # n + 1 => Shows(w, old, f + 1)
  <2>1. ASSUME f # n + 1 PROVE \E g : Shows(w, g, f + 1)
    <3>1. k - 1 \in 0 .. n /\ ~(k <= k - 1) /\ n + 1 - (k - 1) = f + 1
      BY <1>1, <1>5, <1>6, <2>1
    <3>2. k - 1 \notin bad
      BY <1>4, <3>1
    <3>3. \E g : Shows(w, g, n + 1 - (k - 1))
      BY <3>1, <3>2
    <3> QED  BY <3>1, <3>3
  <2> QED  BY <2>1
<1> HIDE DEF bad
<1>8. PICK top : top = Shown(w, old, f)
  OBVIOUS
<1>9. PICK h : h = [i \in f .. n + 1 |-> IF i = f THEN top ELSE old[i]]
  OBVIOUS
<1>10. ASSUME NEW i \in f .. n + 1, NEW q \in i + 1 .. n + 1 PROVE h[q] = old[q]
  BY <1>1, <1>6, <1>9
<1>11. ASSUME NEW i \in f .. n + 1 PROVE Shown(w, h, i) = Shown(w, old, i)
  <2>1. CASE i > n
    BY <1>1, <2>1 DEF Shown
  <2>2. CASE i <= n
    <3>1. i + 1 \in i + 1 .. n + 1
      BY <1>1, <1>6, <2>2
    <3>2. Redact!Matches(Suffix(w, i)) # {} => i + Jump(w, i) \in i + 1 .. n + 1
      <4>1. ASSUME Redact!Matches(Suffix(w, i)) # {} PROVE Jump(w, i) \in 1 .. n + 1 - i
        <5>1. i \in 1 .. Len(w) + 1
          BY <1>1, <1>6
        <5> QED  BY <1>1, <4>1, <5>1, JumpFacts
      <4> QED  BY <1>1, <1>6, <4>1
    <3>3. h[i + 1] = old[i + 1]
      BY <1>10, <3>1
    <3>4. Redact!Matches(Suffix(w, i)) # {} => h[i + Jump(w, i)] = old[i + Jump(w, i)]
      BY <1>10, <3>2
    <3> QED  BY <3>3, <3>4 DEF Shown
  <2> QED  BY <1>1, <1>6, <2>1, <2>2
<1>12. ASSUME NEW i \in f .. n + 1 PROVE (IF i = f THEN top ELSE old[i]) = Shown(w, h, i)
  <2>1. ASSUME i # f PROVE old[i] = Shown(w, old, i)
    <3>1. i \in f + 1 .. Len(w) + 1 /\ f # n + 1
      BY <1>1, <1>6, <2>1
    <3> QED  BY <1>7, <3>1 DEF Shows
  <2> QED  BY <1>8, <1>11, <2>1
<1>13. h = [i \in f .. n + 1 |-> Shown(w, h, i)]
  BY <1>9, <1>12
<1> QED  BY <1>1, <1>5, <1>6, <1>13 DEF Shows

LEMMA RedactedIs ==
  ASSUME Redact!RedactorAssumption, NEW w \in Seq(Bytes)
  PROVE  \E g : Shows(w, g, 1) /\ Redact!Redacted(w) = g[1]
<1> DEFINE f == CHOOSE g : g = [i \in 1 .. Len(w) + 1 |->
                  IF i > Len(w) THEN <<>>
                  ELSE IF Redact!Matches(SubSeq(w, i, Len(w))) = {} THEN <<w[i]>> \o g[i + 1]
                  ELSE <<Mask>> \o g[i + Redact!Max({Len(s) : s \in Redact!Matches(SubSeq(w, i, Len(w)))})]]
<1>1. \E g : g = [i \in 1 .. Len(w) + 1 |->
                  IF i > Len(w) THEN <<>>
                  ELSE IF Redact!Matches(SubSeq(w, i, Len(w))) = {} THEN <<w[i]>> \o g[i + 1]
                  ELSE <<Mask>> \o g[i + Redact!Max({Len(s) : s \in Redact!Matches(SubSeq(w, i, Len(w)))})]]
  BY ShowsExists DEF Shows, Shown, Suffix, Jump
<1>2. Shows(w, f, 1)
  BY <1>1 DEF Shows, Shown, Suffix, Jump
<1>3. Redact!Redacted(w) = f[1]
  BY DEF Redact!Redacted
<1> QED  BY <1>2, <1>3

LEMMA ShownIs ==
  ASSUME NEW w, NEW g, Shows(w, g, 1), NEW i \in 1 .. Len(w) + 1
  PROVE  g[i] = Shown(w, g, i)
  BY DEF Shows

(* What a suffix shows is what the whole shows from there on.                *)
LEMMA ShowsShift ==
  ASSUME Redact!RedactorAssumption, NEW w \in Seq(Bytes), NEW i \in 1 .. Len(w) + 1,
         NEW g, Shows(w, g, 1), NEW h, Shows(Suffix(w, i), h, 1)
  PROVE  \A j \in 1 .. Len(w) + 2 - i : h[j] = g[i + j - 1]
<1>1. PICK n, v, m : n = Len(w) /\ n \in Nat /\ v = Suffix(w, i) /\ m = Len(v)
  BY LenProperties
<1>2. /\ v \in Seq(Bytes) /\ m = n + 1 - i /\ m \in Nat
      /\ \A j \in 1 .. m : v[j] = w[i + j - 1]
  <2>1. v \in Seq(Bytes) /\ m = n + 1 - i /\ \A j \in 1 .. n + 1 - i : v[j] = w[i + j - 1]
    BY <1>1, SuffixFacts
  <2>2. n + 1 - i \in Nat
    BY <1>1
  <2> QED  BY <2>1, <2>2
<1> DEFINE bad == {k \in 0 .. m : h[m + 1 - k] # g[i + (m + 1 - k) - 1]}
<1>3. SUFFICES bad = {}
  <2>1. ASSUME bad = {}, NEW j \in 1 .. n + 2 - i PROVE h[j] = g[i + j - 1]
    <3>1. m + 1 - j \in 0 .. m /\ m + 1 - (m + 1 - j) = j
      BY <1>1, <1>2
    <3>2. m + 1 - j \notin bad
      BY <2>1
    <3>3. h[m + 1 - (m + 1 - j)] = g[i + (m + 1 - (m + 1 - j)) - 1]
      BY <3>1, <3>2
    <3> QED  BY <3>1, <3>3
  <2> QED  BY <1>1, <2>1
<1>4. SUFFICES ASSUME bad # {} PROVE FALSE
  OBVIOUS
<1>5. PICK k \in bad : \A y \in bad : k <= y
  <2>1. bad \in SUBSET Nat
    BY <1>2
  <2> QED  BY <1>4, <2>1, Least
<1>6. PICK j : j = m + 1 - k /\ k \in 0 .. m /\ j \in 1 .. m + 1 /\ h[j] # g[i + j - 1]
  BY <1>2, <1>5
<1>6a. /\ n \in Nat /\ m \in Nat /\ m = n + 1 - i /\ i \in 1 .. n + 1
      /\ k \in 0 .. m /\ j \in 1 .. m + 1 /\ j = m + 1 - k
  BY <1>1, <1>2, <1>6
<1>7. ASSUME NEW q \in j + 1 .. m + 1 PROVE h[q] = g[i + q - 1]
  <2>1. PICK y : y = m + 1 - q /\ y \in 0 .. m /\ ~(k <= y) /\ m + 1 - y = q
    BY <1>6a
  <2>2. y \notin bad
    BY <1>5, <2>1
  <2>3. h[m + 1 - y] = g[i + (m + 1 - y) - 1]
    BY <2>1, <2>2
  <2> QED  BY <2>1, <2>3
<1> HIDE DEF bad
<1>8. PICK p : p = i + j - 1 /\ p \in 1 .. n + 1 /\ Suffix(v, j) = Suffix(w, p)
  <2>1. j \in 1 .. Len(Suffix(w, i)) + 1
    BY <1>1, <1>6
  <2>2. i + j - 1 \in 1 .. Len(w) + 1 /\ Suffix(Suffix(w, i), j) = Suffix(w, i + j - 1)
    BY <2>1, SuffixOfSuffix
  <2> QED  BY <1>1, <2>2
<1>9. h[j] = Shown(v, h, j) /\ g[p] = Shown(w, g, p)
  <2>1. Shows(v, h, 1) /\ j \in 1 .. Len(v) + 1
    BY <1>1, <1>6
  <2>2. p \in 1 .. Len(w) + 1
    BY <1>1, <1>8
  <2> QED  BY <2>1, <2>2, ShownIs
<1>10. j > m <=> p > n
  BY <1>1, <1>2, <1>6, <1>8
<1>11. CASE j > m
  BY <1>1, <1>6, <1>8, <1>9, <1>10, <1>11 DEF Shown
<1>12. CASE ~(j > m)
  <2>1. j \in 1 .. m /\ j + 1 \in j + 1 .. m + 1
    BY <1>6a, <1>12
  <2>2. v[j] = w[p]
    BY <1>2, <1>8, <2>1
  <2>3. h[j + 1] = g[p + 1]
    <3>1. i + (j + 1) - 1 = p + 1
      BY <1>1, <1>6, <1>8
    <3> QED  BY <1>7, <2>1, <3>1
  <2>4. Redact!Matches(Suffix(v, j)) = Redact!Matches(Suffix(w, p)) /\ Jump(v, j) = Jump(w, p)
    BY <1>8 DEF Jump
  <2>5. ASSUME Redact!Matches(Suffix(v, j)) # {} PROVE h[j + Jump(v, j)] = g[p + Jump(w, p)]
    <3>1. Jump(v, j) \in 1 .. m + 1 - j
      <4>1. j \in 1 .. Len(v) + 1
        BY <1>1, <1>6
      <4> QED  BY <1>1, <1>2, <2>5, <4>1, JumpFacts
    <3>2. PICK d : d = Jump(v, j) /\ d \in 1 .. m + 1 - j
      BY <3>1
    <3>3. j + d \in j + 1 .. m + 1 /\ i + (j + d) - 1 = p + d
      BY <1>6a, <1>8, <3>2
    <3> QED  BY <1>7, <2>4, <3>2, <3>3
  <2>6. Shown(v, h, j) = Shown(w, g, p)
    BY <1>1, <1>10, <1>12, <2>2, <2>3, <2>4, <2>5 DEF Shown
  <2> QED  BY <1>6, <1>8, <1>9, <2>6
<1> QED  BY <1>11, <1>12

Texts == Seq(Bytes \cup {Mask})

LEMMA ShownType ==
  ASSUME Redact!RedactorAssumption, NEW w \in Seq(Bytes), NEW g, Shows(w, g, 1)
  PROVE  \A i \in 1 .. Len(w) + 1 : g[i] \in Texts
<1>1. PICK n : n = Len(w) /\ n \in Nat /\ \A i \in 1 .. n : w[i] \in Bytes
  BY LenProperties, ElementOfSeq
<1> DEFINE bad == {k \in 0 .. n : g[n + 1 - k] \notin Texts}
<1>2. SUFFICES bad = {}
  <2>1. ASSUME bad = {}, NEW j \in 1 .. n + 1 PROVE g[j] \in Texts
    <3>1. n + 1 - j \in 0 .. n /\ n + 1 - (n + 1 - j) = j
      BY <1>1
    <3>2. n + 1 - j \notin bad
      BY <2>1
    <3> QED  BY <3>1, <3>2
  <2> QED  BY <1>1, <2>1
<1>3. SUFFICES ASSUME bad # {} PROVE FALSE
  OBVIOUS
<1>4. PICK k \in bad : \A y \in bad : k <= y
  <2>1. bad \in SUBSET Nat
    BY <1>1
  <2> QED  BY <1>3, <2>1, Least
<1>5. PICK i : i = n + 1 - k /\ i \in 1 .. n + 1 /\ g[i] \notin Texts
  BY <1>1, <1>4
<1>6. ASSUME NEW q \in i + 1 .. n + 1 PROVE g[q] \in Texts
  <2>1. PICK y : y = n + 1 - q /\ y \in 0 .. n /\ ~(k <= y) /\ n + 1 - y = q
    BY <1>1, <1>4, <1>5
  <2>2. y \notin bad
    BY <1>4, <2>1
  <2> QED  BY <2>1, <2>2
<1> HIDE DEF bad
<1>7. g[i] = Shown(w, g, i)
  BY <1>1, <1>5, ShownIs
<1>8. CASE i > n
  <2>1. <<>> \in Texts
    BY EmptySeq DEF Texts
  <2> QED  BY <1>1, <1>5, <1>7, <1>8, <2>1 DEF Shown
<1>9. CASE ~(i > n)
  <2>1. i \in 1 .. n /\ i + 1 \in i + 1 .. n + 1
    BY <1>1, <1>5, <1>9
  <2>2. <<w[i]>> \in Texts /\ <<Mask>> \in Texts
    BY <1>1, <2>1 DEF Texts
  <2>3. ASSUME NEW a \in Texts, NEW b \in Texts PROVE a \o b \in Texts
    BY ConcatProperties DEF Texts
  <2>4. CASE Redact!Matches(Suffix(w, i)) = {}
    <3>1. <<w[i]>> \o g[i + 1] \in Texts
      BY <1>6, <2>1, <2>2, <2>3
    <3> QED  BY <1>1, <1>5, <1>7, <1>9, <2>4, <3>1 DEF Shown
  <2>5. CASE Redact!Matches(Suffix(w, i)) # {}
    <3>1. i + Jump(w, i) \in i + 1 .. n + 1
      <4>1. Jump(w, i) \in 1 .. n + 1 - i
        BY <1>1, <1>5, <2>5, JumpFacts
      <4> QED  BY <1>1, <1>5, <4>1
    <3>2. <<Mask>> \o g[i + Jump(w, i)] \in Texts
      BY <1>6, <2>2, <2>3, <3>1
    <3> QED  BY <1>1, <1>5, <1>7, <1>9, <2>5, <3>2 DEF Shown
  <2> QED  BY <2>4, <2>5
<1> QED  BY <1>8, <1>9

(* The redaction of a text, byte by byte.                                    *)
LEMMA Unfolds ==
  ASSUME Redact!RedactorAssumption, NEW w \in Seq(Bytes), w # <<>>
  PROVE  /\ Redact!Redacted(w) \in Texts
         /\ Redact!Matches(w) = {} =>
              Redact!Redacted(w) = <<w[1]>> \o Redact!Redacted(Suffix(w, 2))
         /\ Redact!Matches(w) # {} =>
              Redact!Redacted(w) =
                <<Mask>> \o Redact!Redacted(Suffix(w, Len(Redact!LongestFirst(w)) + 1))
<1>1. PICK n : n = Len(w) /\ n \in Nat /\ n # 0
  BY EmptySeq
<1>2. PICK g : Shows(w, g, 1) /\ Redact!Redacted(w) = g[1]
  BY RedactedIs
<1>3. 1 \in 1 .. Len(w) + 1
  BY <1>1
<1>4. Suffix(w, 1) = w
  BY SubSeqFull DEF Suffix
<1>5. g[1] \in Texts /\ g[1] = Shown(w, g, 1)
  BY <1>2, <1>3, ShownType, ShownIs
<1>6. ASSUME NEW i \in 1 .. n + 1 PROVE g[i] = Redact!Redacted(Suffix(w, i))
  <2>1. PICK v : v = Suffix(w, i) /\ v \in Seq(Bytes)
    BY <1>1, SuffixFacts
  <2>2. PICK h : Shows(v, h, 1) /\ Redact!Redacted(v) = h[1]
    BY <2>1, RedactedIs
  <2>3. 1 \in 1 .. n + 2 - i /\ i + 1 - 1 = i
    BY <1>1
  <2>4. h[1] = g[i + 1 - 1]
    BY <1>1, <1>2, <2>1, <2>2, <2>3, ShowsShift
  <2> QED  BY <2>1, <2>2, <2>3, <2>4
<1>7. ASSUME Redact!Matches(w) = {} PROVE g[1] = <<w[1]>> \o Redact!Redacted(Suffix(w, 2))
  <2>1. g[1] = <<w[1]>> \o g[1 + 1]
    BY <1>1, <1>4, <1>5, <1>7 DEF Shown
  <2>2. 2 \in 1 .. n + 1 /\ 1 + 1 = 2
    BY <1>1
  <2> QED  BY <1>6, <2>1, <2>2
<1>8. ASSUME Redact!Matches(w) # {}
      PROVE  g[1] = <<Mask>> \o Redact!Redacted(Suffix(w, Len(Redact!LongestFirst(w)) + 1))
  <2>1. PICK m : m = Len(Redact!LongestFirst(w)) /\ Jump(w, 1) = m /\ m \in 1 .. n
    BY <1>1, <1>3, <1>4, <1>8, JumpFacts
  <2>2. g[1] = <<Mask>> \o g[1 + Jump(w, 1)]
    BY <1>1, <1>4, <1>5, <1>8 DEF Shown
  <2>3. m + 1 \in 1 .. n + 1 /\ 1 + m = m + 1
    BY <1>1, <2>1
  <2> QED  BY <1>6, <2>1, <2>2, <2>3
<1> QED  BY <1>2, <1>5, <1>7, <1>8

LEMMA RedactedType ==
  ASSUME Redact!RedactorAssumption, NEW w \in Seq(Bytes)
  PROVE  Redact!Redacted(w) \in Texts
<1>1. 1 \in 1 .. Len(w) + 1
  BY LenProperties
<1> QED  BY <1>1, RedactedIs, ShownType

LEMMA SuffixOfBoth ==
  ASSUME NEW w \in Seq(Bytes), NEW z \in Seq(Bytes), NEW i \in 1 .. Len(w) + 1
  PROVE  Suffix(w \o z, i) = Suffix(w, i) \o z
<1>1. PICK m, n, wz : m = Len(w) /\ n = Len(z) /\ m \in Nat /\ n \in Nat /\ wz = w \o z
  BY LenProperties
<1>2. /\ wz \in Seq(Bytes) /\ Len(wz) = m + n
      /\ \A j \in 1 .. m + n : wz[j] = IF j <= m THEN w[j] ELSE z[j - m]
  BY <1>1, ConcatProperties
<1>3. PICK v, a, b : v = Suffix(w, i) /\ a = Suffix(wz, i) /\ b = v \o z
  OBVIOUS
<1>4. v \in Seq(Bytes) /\ Len(v) = m + 1 - i /\ \A j \in 1 .. m + 1 - i : v[j] = w[i + j - 1]
  BY <1>1, <1>3, SuffixFacts
<1>5. i \in 1 .. Len(wz) + 1
  BY <1>1, <1>2
<1>6. a \in Seq(Bytes) /\ Len(a) = m + n + 1 - i /\ \A j \in 1 .. m + n + 1 - i : a[j] = wz[i + j - 1]
  BY <1>2, <1>3, <1>5, SuffixFacts
<1>7. /\ b \in Seq(Bytes) /\ Len(b) = m + 1 - i + n
      /\ \A j \in 1 .. m + 1 - i + n : b[j] = IF j <= m + 1 - i THEN v[j] ELSE z[j - (m + 1 - i)]
  <2>1. PICK k : k = Len(v) /\ k = m + 1 - i
    BY <1>4
  <2>2. /\ b \in Seq(Bytes) /\ Len(b) = k + n
        /\ \A j \in 1 .. k + n : b[j] = IF j <= k THEN v[j] ELSE z[j - k]
    <3>1. v \in Seq(Bytes) /\ z \in Seq(Bytes)
      BY <1>4
    <3>2. /\ v \o z \in Seq(Bytes) /\ Len(v \o z) = Len(v) + Len(z)
          /\ \A j \in 1 .. Len(v) + Len(z) : (v \o z)[j] = IF j <= Len(v) THEN v[j] ELSE z[j - Len(v)]
      BY <3>1, ConcatProperties
    <3> QED  BY <1>1, <1>3, <2>1, <3>2
  <2> QED  BY <2>1, <2>2
<1>8. i \in 1 .. m + 1
  BY <1>1
<1>9. ASSUME NEW j \in 1 .. m + n + 1 - i PROVE a[j] = b[j]
  <2>1. PICK p, q : /\ p = i + j - 1 /\ p \in 1 .. m + n
                    /\ q = m + 1 - i /\ j \in 1 .. q + n /\ q + n = m + 1 - i + n
                    /\ j <= q <=> p <= m
                    /\ p - m = j - q
                    /\ j <= q => j \in 1 .. m + 1 - i
    <3>1. m \in Nat /\ n \in Nat /\ i \in 1 .. m + 1
      BY <1>1, <1>8
    <3>2. PICK p, q : p = i + j - 1 /\ q = m + 1 - i
      OBVIOUS
    <3>3. p \in 1 .. m + n /\ j \in 1 .. q + n /\ q + n = m + 1 - i + n
      BY <3>1, <3>2
    <3>4. (j <= q <=> p <= m) /\ p - m = j - q
      BY <3>1, <3>2
    <3>5. j <= q => j \in 1 .. m + 1 - i
      BY <3>1, <3>2
    <3> QED  BY <3>2, <3>3, <3>4, <3>5
  <2>2. a[j] = wz[p]
    BY <1>6, <2>1
  <2>3. wz[p] = IF p <= m THEN w[p] ELSE z[p - m]
    BY <1>2, <2>1
  <2>4. b[j] = IF j <= q THEN v[j] ELSE z[j - q]
    BY <1>7, <2>1
  <2>5. j <= q => v[j] = w[p]
    BY <1>4, <2>1
  <2> QED  BY <2>1, <2>2, <2>3, <2>4, <2>5
<1>10. Len(a) = Len(b)
  BY <1>1, <1>6, <1>7, <1>8
<1>11. a = b
  BY <1>6, <1>7, <1>9, <1>10, SeqEqual
<1> QED  BY <1>1, <1>3, <1>11

(* A byte that begins no secret is shown, a match hidden, whatever follows.  *)
LEMMA ShowsByte ==
  ASSUME Redact!RedactorAssumption, NEW o \in Texts, NEW w \in Seq(Bytes), w # <<>>,
         NEW z \in Seq(Bytes), z = <<>> \/ ~Redact!Held(w), Redact!Matches(w) = {}
  PROVE  o \o Redact!Redacted(w \o z) = Append(o, Head(w)) \o Redact!Redacted(Tail(w) \o z)
<1>1. PICK m, wz, v, b : m = Len(w) /\ m \in Nat \ {0} /\ wz = w \o z /\ v = Tail(w) /\ b = Head(w)
  BY EmptySeq
<1>2. /\ wz \in Seq(Bytes) /\ wz # <<>> /\ Redact!Matches(wz) = {}
      /\ wz[1] = b /\ b \in Bytes /\ v = Suffix(w, 2) /\ v \in Seq(Bytes)
  <2>1. wz \in Seq(Bytes) /\ wz # <<>>
    BY <1>1, ConcatProperties, ConcatEqualIffEmpty
  <2>2. Redact!Matches(wz) = {}
    BY <1>1, SettledGrows, ConcatEmptySeq
  <2>3. wz[1] = w[1] /\ w[1] = b
    BY <1>1, ConcatProperties
  <2> QED  BY <1>1, <2>1, <2>2, <2>3, HeadTailProperties, TailIsSubSeq DEF Suffix
<1>3. Suffix(wz, 2) = v \o z
  <2>1. 2 \in 1 .. Len(w) + 1
    BY <1>1
  <2>2. Suffix(w \o z, 2) = Suffix(w, 2) \o z
    BY <2>1, SuffixOfBoth
  <2> QED  BY <1>1, <1>2, <2>2
<1>4. PICK rest : rest = Redact!Redacted(v \o z) /\ rest \in Texts
  BY <1>2, ConcatProperties, RedactedType
<1>5. Redact!Redacted(wz) = <<b>> \o rest
  BY <1>2, <1>3, <1>4, Unfolds
<1>6. Append(o, b) = o \o <<b>> /\ <<b>> \in Texts
  BY <1>2, AppendIsConcat DEF Texts
<1>7. (o \o <<b>>) \o rest = o \o (<<b>> \o rest)
  BY <1>4, <1>6, ConcatAssociative DEF Texts
<1> QED  BY <1>1, <1>4, <1>5, <1>6, <1>7

LEMMA HidesMatch ==
  ASSUME Redact!RedactorAssumption, NEW o \in Texts, NEW w \in Seq(Bytes),
         NEW z \in Seq(Bytes), z = <<>> \/ ~Redact!Held(w), Redact!Matches(w) # {}
  PROVE  o \o Redact!Redacted(w \o z)
           = Append(o, Mask)
               \o Redact!Redacted(SubSeq(w, Len(Redact!LongestFirst(w)) + 1, Len(w)) \o z)
<1>1. PICK m, wz, d : m = Len(w) /\ m \in Nat /\ wz = w \o z /\ d = Len(Redact!LongestFirst(w)) + 1
                      /\ d \in 2 .. m + 1
  <2>1. Len(w) \in Nat
    BY LenProperties
  <2>2. PICK k : k = Len(Redact!LongestFirst(w)) /\ k \in 1 .. Len(w)
    BY LongestIs
  <2>3. k + 1 \in 2 .. Len(w) + 1
    BY <2>1, <2>2
  <2> QED  BY <2>1, <2>2, <2>3
<1>2. PICK v : v = Suffix(w, d) /\ v \in Seq(Bytes) /\ d \in 1 .. Len(w) + 1
  <2>1. d \in 1 .. Len(w) + 1
    BY <1>1
  <2> QED  BY <2>1, SuffixFacts
<1>3. wz \in Seq(Bytes) /\ wz # <<>> /\ Redact!Matches(wz) = Redact!Matches(w)
  <2>1. wz \in Seq(Bytes)
    BY <1>1, ConcatProperties
  <2>2. Redact!Matches(wz) = Redact!Matches(w)
    BY <1>1, SettledGrows, ConcatEmptySeq
  <2>3. w # <<>>
    BY <1>1, EmptySeq
  <2> QED  BY <1>1, <2>1, <2>2, <2>3, ConcatEqualIffEmpty
<1>4. Redact!LongestFirst(wz) = Redact!LongestFirst(w)
  BY <1>3 DEF Redact!LongestFirst
<1>5. Suffix(wz, d) = v \o z
  BY <1>1, <1>2, SuffixOfBoth
<1>6. PICK rest : rest = Redact!Redacted(v \o z) /\ rest \in Texts
  BY <1>2, ConcatProperties, RedactedType
<1>7. Redact!Redacted(wz) = <<Mask>> \o rest
  BY <1>1, <1>3, <1>4, <1>5, <1>6, Unfolds
<1>8. Append(o, Mask) = o \o <<Mask>> /\ <<Mask>> \in Texts
  BY AppendIsConcat DEF Texts
<1>9. (o \o <<Mask>>) \o rest = o \o (<<Mask>> \o rest)
  BY <1>6, <1>8, ConcatAssociative DEF Texts
<1> QED  BY <1>1, <1>2, <1>6, <1>7, <1>8, <1>9 DEF Suffix

Plain(o, i)     == \A j \in i .. Len(o) : o[j] \in Bytes
Joined(o, w, i) == SubSeq(o, i, Len(o)) \o w
Spent(o, w, e)  == \A i \in 1 .. Len(o) : Plain(o, i) =>
                     Redact!Matches(Joined(o, w, i)) = {} /\ (e \/ ~Redact!Held(Joined(o, w, i)))
Hidden(o) == \A s \in Secrets : ~ \E i \in 1 .. Len(o) :
               i + Len(s) - 1 <= Len(o) /\ SubSeq(o, i, i + Len(s) - 1) = s
Cut(o, w, t, e) == \A z \in Seq(Bytes) : (e => z = <<>>) =>
                     Redact!Redacted(t \o z) = o \o Redact!Redacted(w \o z)

(* Whatever comes, what is shown and what waits redact as the whole would; and
   from any byte that was shown on, no secret begins any more.               *)
RedactorInv ==
  /\ pending \in Seq(Bytes) /\ text \in Seq(Bytes) /\ out \in Texts
  /\ scanning \in BOOLEAN /\ eof \in BOOLEAN
  /\ Cut(out, pending, text, eof)
  /\ Spent(out, pending, eof)
  /\ Hidden(out)
  /\ ~scanning => pending = <<>> \/ (~eof /\ \E s \in Secrets : Len(pending) < Len(s))

LEMMA PlainIs ==
  ASSUME NEW o \in Texts, NEW i \in 1 .. Len(o) + 1, Plain(o, i), NEW w \in Seq(Bytes)
  PROVE  /\ SubSeq(o, i, Len(o)) \in Seq(Bytes) /\ Len(SubSeq(o, i, Len(o))) = Len(o) + 1 - i
         /\ \A j \in 1 .. Len(o) + 1 - i : SubSeq(o, i, Len(o))[j] = o[i + j - 1]
         /\ Joined(o, w, i) \in Seq(Bytes)
<1>1. PICK n, v : n = Len(o) /\ n \in Nat /\ v = SubSeq(o, i, n)
  BY LenProperties DEF Texts
<1>2. i \in Int /\ n \in Int /\ \A k \in i .. n : o[k] \in Bytes
  BY <1>1 DEF Plain
<1>3. /\ v \in Seq(Bytes) /\ Len(v) = IF i <= n THEN n - i + 1 ELSE 0
      /\ \A k \in 1 .. n - i + 1 : v[k] = o[i + k - 1]
  BY <1>1, <1>2, SubSeqProperties
<1>4. Len(v) = n + 1 - i
  BY <1>1, <1>3
<1>5. \A j \in 1 .. n + 1 - i : j \in 1 .. n - i + 1
  BY <1>1
<1>6. v \o w \in Seq(Bytes)
  BY <1>3, ConcatProperties
<1> QED  BY <1>1, <1>3, <1>4, <1>5, <1>6 DEF Joined

(* A piece of a text, given a name.                                          *)
Piece(c, o, m, n)  == c = SubSeq(o, m, n)
Within(o, m, n, S) == \A i \in m .. n : o[i] \in S

LEMMA PieceIs ==
  ASSUME NEW S, NEW o, NEW m \in Int, NEW n \in Int, Within(o, m, n, S), NEW c, Piece(c, o, m, n)
  PROVE  /\ c \in Seq(S) /\ Len(c) = IF m <= n THEN n - m + 1 ELSE 0
         /\ \A i \in 1 .. n - m + 1 : c[i] = o[m + i - 1]
<1>1. \A i \in m .. n : o[i] \in S
  BY DEF Within
<1>2. /\ SubSeq(o, m, n) \in Seq(S) /\ Len(SubSeq(o, m, n)) = IF m <= n THEN n - m + 1 ELSE 0
      /\ \A i \in 1 .. n - m + 1 : SubSeq(o, m, n)[i] = o[m + i - 1]
  BY <1>1, SubSeqProperties
<1> QED  BY <1>2 DEF Piece

LEMMA JoinedGrows ==
  ASSUME NEW o \in Texts, NEW i \in 1 .. Len(o) + 1, Plain(o, i),
         NEW w \in Seq(Bytes), NEW z \in Seq(Bytes)
  PROVE  Joined(o, w \o z, i) = Joined(o, w, i) \o z
<1>1. SubSeq(o, i, Len(o)) \in Seq(Bytes)
  BY PlainIs
<1>2. PICK a : a = SubSeq(o, i, Len(o)) /\ a \in Seq(Bytes)
  BY <1>1
<1>3. (a \o w) \o z = a \o (w \o z)
  <2>1. a \in Seq(Bytes) /\ w \in Seq(Bytes) /\ z \in Seq(Bytes)
    BY <1>2
  <2> QED  BY <2>1, ConcatAssociative
<1> QED  BY <1>2, <1>3 DEF Joined

Extends(p, o, x) == p = Append(o, x)

(* A byte that is shown goes from what waits to what is out.                 *)
LEMMA JoinedMoves ==
  ASSUME NEW o \in Texts, NEW w \in Seq(Bytes), w # <<>>, NEW p, Extends(p, o, Head(w)),
         NEW i \in 1 .. Len(o) + 1, Plain(p, i)
  PROVE  Plain(o, i) /\ Joined(p, Tail(w), i) = Joined(o, w, i)
<1>1. PICK n, x, v : n = Len(o) /\ n \in Nat /\ x = Head(w) /\ v = Tail(w)
  BY LenProperties DEF Texts
<1>2. /\ x \in Bytes /\ v \in Seq(Bytes) /\ w = <<x>> \o v
  <2>1. x \in Bytes /\ v \in Seq(Bytes)
    BY <1>1, HeadTailProperties
  <2>2. <<x>> \in Seq(Bytes)
    BY <2>1
  <2>3. 1 \in 1 .. Len(w) /\ Len(w) \in 1 .. Len(w)
    BY EmptySeq
  <2>4. SubSeq(w, 1, Len(w)) = <<w[1]>> \o SubSeq(w, 1 + 1, Len(w))
    BY <2>3, SubSeqRecursiveFirst
  <2>5. SubSeq(w, 1, Len(w)) = w /\ v = SubSeq(w, 2, Len(w)) /\ x = w[1]
    BY <1>1, SubSeqFull, TailIsSubSeq
  <2> QED  BY <2>1, <2>4, <2>5
<1>3. /\ p \in Texts /\ Len(p) = n + 1 /\ p[n + 1] = x
      /\ \A j \in 1 .. n : p[j] = o[j]
  BY <1>1, <1>2, AppendProperties DEF Texts, Extends
<1>4. i \in 1 .. n + 1
  BY <1>1
<1>5. \A j \in i .. n : j \in 1 .. n /\ j \in i .. n + 1
  BY <1>1, <1>4
<1>6. Plain(o, i)
  BY <1>1, <1>3, <1>5 DEF Plain
<1>7. i \in 1 .. Len(p) /\ Len(p) \in i .. Len(p)
  BY <1>1, <1>3, <1>4
<1>8. PICK a, b : a = SubSeq(p, i, n + 1) /\ b = SubSeq(o, i, n)
  OBVIOUS
<1>9. a = SubSeq(p, i, n) \o <<x>>
  <2>1. SubSeq(p, i, Len(p)) = SubSeq(p, i, Len(p) - 1) \o <<p[Len(p)]>>
    BY <1>3, <1>7, SubSeqRecursiveSecond DEF Texts
  <2>2. Len(p) - 1 = n
    BY <1>1, <1>3
  <2> QED  BY <1>3, <1>8, <2>1, <2>2
<1>10. SubSeq(p, i, n) = b /\ b \in Seq(Bytes)
  <2>1. b \in Seq(Bytes) /\ Len(b) = n + 1 - i /\ \A j \in 1 .. n + 1 - i : b[j] = o[i + j - 1]
    BY <1>1, <1>6, <1>8, PlainIs
  <2>2. PICK c : c = SubSeq(p, i, n)
    OBVIOUS
  <2>3. i \in Int /\ n \in Int /\ \A k \in i .. n : p[k] \in Bytes
    BY <1>1, <1>3, <1>4, <1>5, <1>6 DEF Plain
  <2>4. /\ c \in Seq(Bytes) /\ Len(c) = IF i <= n THEN n - i + 1 ELSE 0
        /\ \A k \in 1 .. n - i + 1 : c[k] = p[i + k - 1]
    <3>1. Piece(c, p, i, n) /\ Within(p, i, n, Bytes) /\ i \in Int /\ n \in Int
      BY <2>2, <2>3 DEF Piece, Within
    <3> QED  BY <3>1, PieceIs, SMTT(30)
  <2>5. Len(c) = n + 1 - i
    BY <1>1, <1>4, <2>4
  <2>6. ASSUME NEW j \in 1 .. n + 1 - i PROVE c[j] = b[j]
    <3>1. j \in 1 .. n - i + 1 /\ i + j - 1 \in 1 .. n
      BY <1>1, <1>4
    <3>2. p[i + j - 1] = o[i + j - 1]
      BY <1>3, <3>1
    <3> QED  BY <2>1, <2>4, <3>1, <3>2
  <2> QED  BY <2>1, <2>2, <2>4, <2>5, <2>6, SeqEqual
<1>11. (b \o <<x>>) \o v = b \o (<<x>> \o v)
  <2>1. <<x>> \in Seq(Bytes)
    BY <1>2
  <2> QED  BY <1>2, <1>10, <2>1, ConcatAssociative
<1> QED  BY <1>1, <1>2, <1>3, <1>6, <1>8, <1>9, <1>10, <1>11 DEF Joined

(* What is appended completes no secret.                                     *)
LEMMA AppendHides ==
  ASSUME Redact!RedactorAssumption, NEW o \in Texts, Hidden(o), NEW x \in Bytes \cup {Mask},
         NEW p, Extends(p, o, x), NEW w \in Seq(Bytes),
         \A i \in 1 .. Len(p) : Plain(p, i) => Redact!Matches(Joined(p, w, i)) = {}
  PROVE  Hidden(p)
<1>1. PICK n : n = Len(o) /\ n \in Nat
  BY LenProperties DEF Texts
<1>2. /\ p \in Texts /\ Len(p) = n + 1 /\ p[n + 1] = x
      /\ \A j \in 1 .. n : p[j] = o[j]
  BY <1>1, AppendProperties DEF Texts, Extends
<1>3. SUFFICES ASSUME NEW s \in Secrets, NEW i \in 1 .. Len(p),
                      i + Len(s) - 1 <= Len(p), SubSeq(p, i, i + Len(s) - 1) = s
               PROVE  FALSE
  BY DEF Hidden
<1>4. PICK k, e : k = Len(s) /\ k \in Nat \ {0} /\ e = i + k - 1 /\ s \in Seq(Bytes)
  BY EmptySeq DEF Redact!RedactorAssumption
<1>5. i \in 1 .. n + 1 /\ e \in i .. n + 1 /\ s = SubSeq(p, i, e)
  BY <1>1, <1>2, <1>3, <1>4
<1>6. CASE e <= n
  <2>1. PICK c : c = SubSeq(o, i, e)
    OBVIOUS
  <2>2. i \in Int /\ e \in Int /\ \A j \in i .. e : j \in 1 .. n
    BY <1>1, <1>5, <1>6
  <2>3. \A j \in i .. e : o[j] \in Bytes \cup {Mask} /\ p[j] \in Bytes \cup {Mask} /\ p[j] = o[j]
    <3>1. \A j \in 1 .. n : o[j] \in Bytes \cup {Mask}
      BY <1>1, ElementOfSeq DEF Texts
    <3> QED  BY <1>2, <2>2, <3>1
  <2>4. /\ c \in Texts /\ Len(c) = IF i <= e THEN e - i + 1 ELSE 0
        /\ \A j \in 1 .. e - i + 1 : c[j] = o[i + j - 1]
    BY <2>1, <2>2, <2>3, SubSeqProperties DEF Texts
  <2>5. /\ s \in Texts /\ Len(s) = IF i <= e THEN e - i + 1 ELSE 0
        /\ \A j \in 1 .. e - i + 1 : s[j] = p[i + j - 1]
    <3>1. Piece(s, p, i, e) /\ Within(p, i, e, Bytes \cup {Mask}) /\ i \in Int /\ e \in Int
      BY <1>5, <2>2, <2>3 DEF Piece, Within
    <3> QED  BY <3>1, PieceIs DEF Texts
  <2>6. ASSUME NEW j \in 1 .. e - i + 1 PROVE c[j] = s[j]
    <3>1. i + j - 1 \in i .. e
      BY <1>5, <1>1
    <3> QED  BY <2>3, <2>4, <2>5, <3>1
  <2>7. Len(c) = e - i + 1 /\ Len(s) = e - i + 1
    BY <1>1, <1>5, <2>4, <2>5
  <2>8. c = s
    BY <2>4, <2>5, <2>6, <2>7, SeqEqual DEF Texts
  <2>9. i \in 1 .. Len(o) /\ i + Len(s) - 1 <= Len(o) /\ SubSeq(o, i, i + Len(s) - 1) = s
    BY <1>1, <1>4, <1>5, <1>6, <2>1, <2>8
  <2> QED  BY <2>9 DEF Hidden
<1>7. CASE ~(e <= n)
  <2>1. e = n + 1 /\ e = Len(p)
    BY <1>1, <1>2, <1>5, <1>7
  <2>2. PICK q : q = SubSeq(p, i, n + 1) /\ q = s
    BY <1>5, <2>1
  <2>3. \A j \in 1 .. n + 1 : p[j] \in Bytes \cup {Mask}
    BY <1>2, ElementOfSeq DEF Texts
  <2>4. \A j \in 1 .. (n + 1) - i + 1 : q[j] = p[i + j - 1]
    <3>1. i \in Int /\ n + 1 \in Int /\ \A j \in i .. n + 1 : p[j] \in Bytes \cup {Mask}
      BY <1>1, <1>5, <2>3
    <3>2. Piece(q, p, i, n + 1) /\ Within(p, i, n + 1, Bytes \cup {Mask})
      BY <2>2, <3>1 DEF Piece, Within
    <3> QED  BY <3>1, <3>2, PieceIs
  <2>5. Plain(p, i)
    <3>1. ASSUME NEW j \in i .. n + 1 PROVE p[j] \in Bytes
      <4>1. j - i + 1 \in 1 .. (n + 1) - i + 1 /\ i + (j - i + 1) - 1 = j /\ j - i + 1 \in 1 .. k
        BY <1>1, <1>4, <1>5, <2>1
      <4>2. q[j - i + 1] = p[j]
        BY <2>4, <4>1
      <4>3. s[j - i + 1] \in Bytes
        BY <1>4, <4>1, ElementOfSeq
      <4> QED  BY <2>2, <4>2, <4>3
    <3> QED  BY <1>2, <3>1 DEF Plain
  <2>6. PICK both : both = Joined(p, w, i) /\ both = s \o w /\ both \in Seq(Bytes)
    BY <1>2, <1>4, <2>2, ConcatProperties DEF Joined
  <2>7. Begins(s, both)
    <3>1. PICK m : m = Len(w) /\ m \in Nat
      BY LenProperties
    <3>2. Len(both) = k + m /\ \A j \in 1 .. k + m : both[j] = IF j <= k THEN s[j] ELSE w[j - k]
      BY <1>4, <2>6, <3>1, ConcatProperties
    <3>3. k <= k + m /\ \A j \in 1 .. k : j \in 1 .. k + m /\ j <= k
      BY <1>4, <3>1
    <3> QED  BY <1>4, <3>2, <3>3 DEF Begins
  <2>8. s \in Redact!Matches(both)
    BY <2>6, <2>7, MatchesAre
  <2> QED  BY <1>3, <2>5, <2>6, <2>8
<1> QED  BY <1>6, <1>7

LEMMA RedactorInit == ASSUME Redact!RedactorAssumption, Redact!Init PROVE RedactorInv
<1>1. /\ pending = <<>> /\ out = <<>> /\ scanning = FALSE /\ eof = FALSE /\ text = <<>>
      /\ Len(out) = 0 /\ 1 .. 0 = {}
  BY DEF Redact!Init
<1>2. pending \in Seq(Bytes) /\ text \in Seq(Bytes) /\ out \in Texts
  BY <1>1, EmptySeq DEF Texts
<1>3. ASSUME NEW z \in Seq(Bytes) PROVE Redact!Redacted(text \o z) = out \o Redact!Redacted(pending \o z)
  <2>1. <<>> \o z = z
    BY ConcatEmptySeq
  <2>2. PICK r : r = Redact!Redacted(z) /\ r \in Seq(Bytes \cup {Mask})
    BY RedactedType DEF Texts
  <2>3. <<>> \o r = r
    BY <2>2, ConcatEmptySeq
  <2> QED  BY <1>1, <2>1, <2>2, <2>3
<1>4. Cut(out, pending, text, eof)
  BY <1>3 DEF Cut
<1>5. Spent(out, pending, eof) /\ Hidden(out)
  BY <1>1 DEF Spent, Hidden
<1> QED  BY <1>1, <1>2, <1>4, <1>5 DEF RedactorInv

LEMMA PushKeeps ==
  ASSUME Redact!RedactorAssumption, RedactorInv, NEW bytes \in Redact!Chunks, NEW final \in BOOLEAN,
         Redact!push(bytes, final)
  PROVE  RedactorInv'
<1>1. /\ eof = FALSE /\ scanning' = TRUE /\ eof' = final /\ out' = out
      /\ pending' = pending \o bytes /\ text' = text \o bytes
  BY DEF Redact!push, RedactorInv
<1>2. bytes \in Seq(Bytes)
  BY DEF Redact!Chunks, Redact!RedactorAssumption
<1>3. /\ pending \in Seq(Bytes) /\ text \in Seq(Bytes) /\ out \in Texts
      /\ Cut(out, pending, text, FALSE) /\ Spent(out, pending, FALSE) /\ Hidden(out)
  BY <1>1 DEF RedactorInv
<1>4. pending \o bytes \in Seq(Bytes) /\ text \o bytes \in Seq(Bytes)
  BY <1>2, <1>3, ConcatProperties
<1>5. Cut(out, pending \o bytes, text \o bytes, final)
  <2>1. ASSUME NEW z \in Seq(Bytes)
        PROVE  Redact!Redacted((text \o bytes) \o z) = out \o Redact!Redacted((pending \o bytes) \o z)
    <3>1. PICK b : b = bytes \o z /\ b \in Seq(Bytes)
      BY <1>2, ConcatProperties
    <3>2. (text \o bytes) \o z = text \o b /\ (pending \o bytes) \o z = pending \o b
      <4>1. bytes \in Seq(Bytes) /\ text \in Seq(Bytes) /\ pending \in Seq(Bytes) /\ z \in Seq(Bytes)
        BY <1>2, <1>3
      <4>2. (text \o bytes) \o z = text \o (bytes \o z)
        BY <4>1, ConcatAssociative
      <4>3. (pending \o bytes) \o z = pending \o (bytes \o z)
        BY <4>1, ConcatAssociative, SMTT(30)
      <4> QED  BY <3>1, <4>2, <4>3
    <3>3. Redact!Redacted(text \o b) = out \o Redact!Redacted(pending \o b)
      BY <1>3, <3>1 DEF Cut
    <3> QED  BY <3>2, <3>3
  <2> QED  BY <2>1 DEF Cut
<1>6. Spent(out, pending \o bytes, final)
  <2>1. ASSUME NEW i \in 1 .. Len(out), Plain(out, i)
        PROVE  /\ Redact!Matches(Joined(out, pending \o bytes, i)) = {}
               /\ ~Redact!Held(Joined(out, pending \o bytes, i))
    <3>1. i \in 1 .. Len(out) + 1
      BY <1>3, LenProperties DEF Texts
    <3>2. PICK w : w = Joined(out, pending, i) /\ w \in Seq(Bytes)
      BY <1>3, <2>1, <3>1, PlainIs
    <3>3. Joined(out, pending \o bytes, i) = w \o bytes
      BY <1>2, <1>3, <2>1, <3>1, <3>2, JoinedGrows
    <3>4. Redact!Matches(w) = {} /\ ~Redact!Held(w)
      BY <1>3, <2>1, <3>2 DEF Spent
    <3>5. Redact!Matches(w \o bytes) = {} /\ ~Redact!Held(w \o bytes)
      BY <1>2, <3>2, <3>4, SettledGrows
    <3> QED  BY <3>3, <3>5
  <2> QED  BY <2>1 DEF Spent
<1> QED  BY <1>1, <1>3, <1>4, <1>5, <1>6 DEF RedactorInv

(* What both ways of a byte out of the buffer have in common.                *)
LEMMA EmitKeeps ==
  ASSUME Redact!RedactorAssumption, RedactorInv, NEW x \in Bytes \cup {Mask}, NEW v \in Seq(Bytes),
         NEW p, Extends(p, out, x), NEW e \in BOOLEAN, e = eof, Spent(p, v, e),
         \A z \in Seq(Bytes) : (e => z = <<>>) =>
           out \o Redact!Redacted(pending \o z) = p \o Redact!Redacted(v \o z)
  PROVE  p \in Texts /\ Hidden(p) /\ Cut(p, v, text, e)
<1>1. out \in Texts /\ Hidden(out) /\ Cut(out, pending, text, e)
  BY DEF RedactorInv
<1>2. p \in Texts
  BY <1>1, AppendProperties DEF Texts, Extends
<1>3. Cut(p, v, text, e)
  BY <1>1 DEF Cut
<1>4. \A i \in 1 .. Len(p) : Plain(p, i) => Redact!Matches(Joined(p, v, i)) = {}
  BY DEF Spent
<1>5. Hidden(p)
  BY <1>1, <1>4, AppendHides
<1> QED  BY <1>2, <1>3, <1>5

LEMMA HideKeeps == ASSUME Redact!RedactorAssumption, RedactorInv, Redact!Hide PROVE RedactorInv'
<1>1. PICK w, v, p, e :
        /\ w = pending /\ v = SubSeq(w, Len(Redact!LongestFirst(w)) + 1, Len(w)) /\ Extends(p, out, Mask)
        /\ e = eof /\ e \in BOOLEAN /\ scanning' = TRUE /\ eof' = e /\ text' = text
        /\ out' = p /\ pending' = v
        /\ Redact!Matches(w) # {} /\ (e \/ ~Redact!Held(w)) /\ w \in Seq(Bytes)
  BY DEF Redact!Hide, Redact!Waits, RedactorInv, Extends
<1>2. out \in Texts /\ text \in Seq(Bytes)
  BY DEF RedactorInv
<1>3. v \in Seq(Bytes)
  <2>1. PICK k : k = Len(Redact!LongestFirst(w)) /\ k \in 1 .. Len(w) /\ Len(w) \in Nat
    BY <1>1, LongestIs, LenProperties
  <2>2. k + 1 \in 1 .. Len(w) + 1
    BY <2>1
  <2>3. Suffix(w, k + 1) \in Seq(Bytes)
    BY <1>1, <2>2, SuffixFacts
  <2> QED  BY <1>1, <2>1, <2>3 DEF Suffix
<1>4. ASSUME NEW z \in Seq(Bytes), e => z = <<>>
      PROVE  out \o Redact!Redacted(pending \o z) = p \o Redact!Redacted(v \o z)
  <2>1. z = <<>> \/ ~Redact!Held(w)
    BY <1>1, <1>4
  <2>2. out \o Redact!Redacted(w \o z)
          = Append(out, Mask)
              \o Redact!Redacted(SubSeq(w, Len(Redact!LongestFirst(w)) + 1, Len(w)) \o z)
    BY <1>1, <1>2, <2>1, HidesMatch
  <2> QED  BY <1>1, <2>2 DEF Extends
<1>5. Spent(p, v, e)
  <2>1. PICK n : n = Len(p) /\ n \in Nat /\ p[n] = Mask
    BY <1>1, <1>2, AppendProperties, LenProperties DEF Texts, Extends
  <2>2. \A i \in 1 .. n : n \in i .. n
    BY <2>1
  <2>3. Mask \notin Bytes
    BY DEF Redact!RedactorAssumption
  <2> QED  BY <2>1, <2>2, <2>3 DEF Spent, Plain
<1>6. p \in Texts /\ Hidden(p) /\ Cut(p, v, text, e)
  BY <1>1, <1>3, <1>4, <1>5, EmitKeeps
<1> QED  BY <1>1, <1>2, <1>3, <1>5, <1>6 DEF RedactorInv

LEMMA ShowKeeps == ASSUME Redact!RedactorAssumption, RedactorInv, Redact!Show PROVE RedactorInv'
<1>1. PICK w, v, p, e :
        /\ w = pending /\ v = Tail(w) /\ Extends(p, out, Head(w))
        /\ e = eof /\ e \in BOOLEAN /\ scanning' = TRUE /\ eof' = e /\ text' = text
        /\ out' = p /\ pending' = v
        /\ Redact!Matches(w) = {} /\ (e \/ ~Redact!Held(w)) /\ w \in Seq(Bytes) /\ w # <<>>
  BY DEF Redact!Show, Redact!Waits, RedactorInv, Extends
<1>2. out \in Texts /\ text \in Seq(Bytes) /\ Spent(out, w, e)
  BY <1>1 DEF RedactorInv
<1>3. v \in Seq(Bytes) /\ Head(w) \in Bytes
  BY <1>1, HeadTailProperties
<1>4. ASSUME NEW z \in Seq(Bytes), e => z = <<>>
      PROVE  out \o Redact!Redacted(pending \o z) = p \o Redact!Redacted(v \o z)
  <2>1. z = <<>> \/ ~Redact!Held(w)
    BY <1>1, <1>4
  <2>2. out \o Redact!Redacted(w \o z) = Append(out, Head(w)) \o Redact!Redacted(Tail(w) \o z)
    BY <1>1, <1>2, <2>1, ShowsByte
  <2> QED  BY <1>1, <2>2 DEF Extends
<1>5. Spent(p, v, e)
  <2>1. PICK n : n = Len(out) /\ n \in Nat /\ Len(p) = n + 1
    <3>1. PICK x : x = Head(w) /\ x \in Bytes \cup {Mask} /\ out \in Seq(Bytes \cup {Mask})
      BY <1>2, <1>3 DEF Texts
    <3>2. Len(out) \in Nat
      BY <3>1, LenProperties
    <3>3. Len(Append(out, x)) = Len(out) + 1
      BY <3>1, AppendProperties
    <3> QED  BY <1>1, <3>1, <3>2, <3>3 DEF Extends
  <2>2. ASSUME NEW i \in 1 .. n + 1, Plain(p, i)
        PROVE  Redact!Matches(Joined(p, v, i)) = {} /\ (e \/ ~Redact!Held(Joined(p, v, i)))
    <3>1. Plain(out, i) /\ Joined(p, v, i) = Joined(out, w, i)
      BY <1>1, <1>2, <2>1, <2>2, JoinedMoves
    <3>2. CASE i \in 1 .. n
      BY <1>2, <2>1, <3>1, <3>2 DEF Spent
    <3>3. CASE i = n + 1
      <4>1. SubSeq(out, i, Len(out)) = <<>>
        BY <2>1, <3>3, SubSeqEmpty
      <4>2. Joined(out, w, i) = w
        BY <1>1, <4>1, ConcatEmptySeq DEF Joined
      <4> QED  BY <1>1, <3>1, <4>2
    <3> QED  BY <2>1, <3>2, <3>3
  <2> QED  BY <2>1, <2>2 DEF Spent
<1>6. p \in Texts /\ Hidden(p) /\ Cut(p, v, text, e)
  BY <1>1, <1>3, <1>4, <1>5, EmitKeeps
<1> QED  BY <1>1, <1>2, <1>3, <1>5, <1>6 DEF RedactorInv

LEMMA ReturnKeeps == ASSUME Redact!RedactorAssumption, RedactorInv, Redact!Return PROVE RedactorInv'
<1>1. /\ scanning' = FALSE /\ UNCHANGED <<pending, out, eof, text>>
      /\ pending = <<>> \/ (~eof /\ Redact!Held(pending))
  BY DEF Redact!Return, Redact!Waits
<1>2. pending \in Seq(Bytes)
  BY DEF RedactorInv
<1>3. Redact!Held(pending) => \E s \in Secrets : Len(pending) < Len(s)
  BY <1>2, HeldIs
<1> QED  BY <1>1, <1>3 DEF RedactorInv

(* diagnostics.rs: for any bytes and secrets, and however a stream is cut into
   chunks, what it has shown is the redaction of all of it up to what waits; no
   secret is in it; and between two pushes less waits than the longest secret.  *)
LEMMA RedactorHolds ==
  ASSUME Redact!RedactorAssumption PROVE Redact!Spec => []Redact!Redaction
<1>1. ASSUME RedactorInv, [Redact!Next]_(Redact!vars) PROVE RedactorInv'
  <2>1. CASE UNCHANGED Redact!vars
    BY <1>1, <2>1 DEF RedactorInv, Redact!vars
  <2>2. ASSUME NEW bytes \in Redact!Chunks, NEW final \in BOOLEAN, Redact!push(bytes, final)
        PROVE  RedactorInv'
    BY <1>1, <2>2, PushKeeps
  <2> QED  BY <1>1, <2>1, <2>2, HideKeeps, ShowKeeps, ReturnKeeps DEF Redact!Next
<1>2. RedactorInv => Redact!Redaction
  <2>1. ASSUME RedactorInv PROVE out \o Redact!Redacted(pending) = Redact!Redacted(text)
    <3>1. pending \in Seq(Bytes) /\ text \in Seq(Bytes) /\ <<>> \in Seq(Bytes)
      BY <2>1, EmptySeq DEF RedactorInv
    <3>2. Redact!Redacted(text \o <<>>) = out \o Redact!Redacted(pending \o <<>>)
      BY <2>1, <3>1 DEF RedactorInv, Cut
    <3> QED  BY <3>1, <3>2, ConcatEmptySeq
  <2> QED  BY <2>1 DEF RedactorInv, Redact!Redaction, Hidden
<1> QED  BY <1>1, <1>2, RedactorInit, PTL DEF Redact!Spec
-----------------------------------------------------------------------------
(* ---------------------------- All the parts ----------------------------- *)
(* A behaviour of LocalTools is about one part, and is one of that part.      *)
LEMMA LocalStart ==
  LocalInit =>
    /\ part = "sim" => Sim!Init
    /\ part = "ports" => Ports!Init
    /\ part = "redactor" => Redact!Init
    /\ part = "secrets" => Secret!Init
    /\ part = "search" => Upward!Init
    /\ part = "keys" => Seal!Init
    /\ part = "modules" => Module!Init
  BY DEF LocalInit

LEMMA LocalStep ==
  [LocalNext]_local_vars =>
    /\ part = "sim" => (part = "sim")' /\ [Sim!Next]_(Sim!vars)
    /\ part = "ports" => (part = "ports")' /\ [Ports!Next]_(Ports!vars)
    /\ part = "redactor" => (part = "redactor")' /\ [Redact!Next]_(Redact!vars)
    /\ part = "secrets" => (part = "secrets")' /\ [Secret!Next]_(Secret!vars)
    /\ part = "search" => (part = "search")' /\ [Upward!Next]_(Upward!vars)
    /\ part = "keys" => (part = "keys")' /\ [Seal!Next]_(Seal!vars)
    /\ part = "modules" => (part = "modules")' /\ [Module!Next]_(Module!vars)
    /\ ~(part = "sim") => ~(part = "sim")'
    /\ ~(part = "ports") => ~(part = "ports")'
    /\ ~(part = "redactor") => ~(part = "redactor")'
    /\ ~(part = "secrets") => ~(part = "secrets")'
    /\ ~(part = "search") => ~(part = "search")'
    /\ ~(part = "keys") => ~(part = "keys")'
    /\ ~(part = "modules") => ~(part = "modules")'
<1>1. CASE LocalNext
  BY <1>1 DEF LocalNext
<1>2. CASE UNCHANGED local_vars
  BY <1>2 DEF local_vars, SimVars, PortsVars, RedactVars, SecretVars, UpwardVars, SealVars, ModuleVars,
         Sim!vars, Sim!world, Sim!containers, Ports!vars, Redact!vars, Secret!vars, Upward!vars,
         Upward!world, Seal!vars, Seal!files, Module!vars, Module!vendor, Module!call
<1> QED  BY <1>1, <1>2

(* engine/sim.rs, builtins/sim.rs: whatever a host was like, whatever a script does
   and whichever ports are in use, a dry run answers as the host would in a live
   run, but of a name that was renamed away, a failed probe, and health it did
   not make; and it names no port twice for a base.                          *)
THEOREM PlansAgree == LocalSpec => []DryRunAgrees
<1>1. LocalSpec => [](part = "sim" => Sim!PlanAgrees)
  BY LocalAssumption, SimHolds, LocalStart, LocalStep, PTL DEF LocalSpec, Sim!Spec
<1>2. LocalSpec => [](part = "ports" => Ports!PicksAreSound)
  BY LocalAssumption, PortsHold, LocalStart, LocalStep, PTL DEF LocalSpec, Ports!Spec
<1> QED  BY <1>1, <1>2, PTL DEF DryRunAgrees

(* engine/secret.rs, diagnostics.rs, builtins/util.rs: for any keys, places, secrets
   and streams, any program over the builtins and however its output is cut into
   chunks: no sink shows a resolved value or an encoding made since, no marker
   reaches a command, and what is used comes from the first place that defines
   the key, which only the user can write.                                   *)
THEOREM SecretsStay == LocalSpec => []SecretsStayInside
<1>1. LocalSpec => [](part = "secrets" => Secret!SecretsStayInside)
  BY SecretHolds, LocalStart, LocalStep, PTL DEF LocalSpec, Secret!Spec
<1>2. LocalSpec => [](part = "redactor" => Redact!Redaction)
  BY LocalAssumption, RedactorHolds, LocalStart, LocalStep, PTL DEF LocalSpec, Redact!Spec
<1> QED  BY <1>1, <1>2, PTL DEF SecretsStayInside

(* secrets/mod.rs, cli/secrets.rs, trust.rs, state.rs: for any commands, killed
   anywhere, and at any depth: what was sealed or encrypted here opens here, and
   the nearest candidate is taken or refused, never passed over.             *)
THEOREM WhatIsSealedOpens == LocalSpec => []SealedOpens
<1>1. LocalSpec => [](part = "keys" => Seal!SealedOpens)
  BY LocalAssumption, SealHolds, LocalStart, LocalStep, PTL DEF LocalSpec, Seal!Spec
<1>2. LocalSpec => [](part = "search" => Upward!NearestIsTaken)
  BY LocalAssumption, UpwardHolds, LocalStart, LocalStep, PTL DEF LocalSpec, Upward!Spec
<1> QED  BY <1>1, <1>2, PTL DEF SealedOpens

(* secrets/mod.rs unseal_file: whatever other processes do, a .env that is there is
   only ever replaced by its user or by an unseal that was given --force.    *)
THEOREM EditsStay == LocalSpec => EditsSurvive
<1>1. [LocalNext]_local_vars /\ ~(part = "keys") => UNCHANGED Seal!vars
  BY DEF LocalNext, local_vars, SealVars, Seal!vars, Seal!files
<1>2. LocalSpec /\ part = "keys" => Seal!EditsSurvive
  BY LocalAssumption, EditsHold, LocalStart, LocalStep, PTL DEF LocalSpec, Seal!Spec
<1>3. LocalSpec /\ ~(part = "keys") => Seal!EditsSurvive
  BY <1>1, LocalStep, PTL DEF LocalSpec, Seal!EditsSurvive
<1> QED  BY <1>2, <1>3, PTL DEF EditsSurvive

(* engine/eval.rs: whatever the modules of lib/ and of the embedded library hold,
   and however `nrg vendor` rewrites lib/ under the run, the fallback never runs
   a script's effects again, nor hides a module of the project that is missing. *)
THEOREM ModulesRunOnce == LocalSpec => []RunsAtMostOnce
<1>1. LocalSpec => [](part = "modules" => Module!RunsAtMostOnce)
  BY LocalAssumption, ModuleHolds, LocalStart, LocalStep, PTL DEF LocalSpec, Module!Spec
<1> QED  BY <1>1, PTL DEF RunsAtMostOnce
=============================================================================
