------------------------- MODULE StateStoreProofs -------------------------
(* What holds of the state file of any project, for any number of runs,
   destinations, keys and edits.

   Memory and file: what a run reads back was on disk, and a power cut leaves a
   whole version, though nested runs outlive their hooks.  Owners: as long as
   none does, at most one run at a time writes.  Purges: so purged keys do not
   come back.  Isolation: so every change of the file is one whole edit of one
   destination's map, which is what DestStores promises.                     *)
EXTENDS StateStore, SequenceTheorems, WellFoundedInduction, TLAPS

States == Flushing \cup {"new", "locking", "probing", "probed", "refused",
                         "loading", "idle", "waiting", "purging", "ended"}
OnDisk(map) == \E f \in versions : map = f.data

(* A run that reads has loaded, published or been given back a version; one
   that writes has reloaded one, and the file was readable then.            *)
MemoryInv(r) ==
  /\ r \notin dry \cup stale /\ pc[r] \in {"idle", "waiting"} => OnDisk(mem[r])
  /\ r \notin dry /\ pc[r] = "purging" => OnDisk(mem[r])
  /\ pc[r] \in Flushing => OnDisk(prev[r]) /\ file \notin Foreign

StoreInv ==
  /\ pc \in [Runs -> States]
  /\ mem = [r \in Runs |-> mem[r]] /\ prev = [r \in Runs |-> prev[r]]
  /\ file \in versions /\ Torn \notin versions
  /\ \A r \in Runs : MemoryInv(r)
-----------------------------------------------------------------------------
LEMMA StoreInit == Init => StoreInv
  BY DEF Init, StoreInv, MemoryInv, States, Flushing, Foreign, Whole, Missing,
         Corrupt, Newer, Torn

(* A step that leaves the files alone moves runs from place to place; memory
   follows only where a run ends.                                            *)
LEMMA Exits ==
  ASSUME StoreInv, NEW gone \in SUBSET Runs, Exit(gone),
         NEW end \in States, end \notin Flushing \cup {"idle", "waiting", "purging"},
         pc' = [q \in Runs |-> IF q \in gone THEN end ELSE pc[q]]
  PROVE  StoreInv'
  BY DEF StoreInv, MemoryInv, OnDisk, Exit, Cleared, files, Foreign

LEMMA StartStep == StoreInv /\ (\E r \in Runs : Start(r)) => StoreInv'
  BY DEF StoreInv, MemoryInv, OnDisk, Start, States, Flushing, files, Foreign

LEMMA SpawnStep == StoreInv /\ (\E p, r \in Runs : Spawn(p, r)) => StoreInv'
  BY DEF StoreInv, MemoryInv, OnDisk, Spawn, States, Flushing, files, Foreign

LEMMA LockStep ==
  StoreInv /\ (\E r \in Runs : Inherit(r) \/ Probe(r) \/ Probed(r) \/ Acquire(r)) => StoreInv'
  BY DEF StoreInv, MemoryInv, OnDisk, Inherit, Probe, Probed, Acquire, States,
         Flushing, files, who, Foreign

LEMMA RefusedStep == StoreInv /\ (\E r \in Runs : Refused(r)) => StoreInv'
<1> SUFFICES ASSUME StoreInv, NEW r \in Runs, Refused(r) PROVE StoreInv'
  OBVIOUS
<1>1. pc' = [q \in Runs |-> IF q \in {r} THEN "refused" ELSE pc[q]]
  BY DEF Refused, StoreInv
<1> QED  BY <1>1, Exits, ZenonT(40) DEF Refused, States, Flushing

LEMMA LoadStep == StoreInv /\ (\E r \in Runs : LoadStore(r)) => StoreInv'
<1> SUFFICES ASSUME StoreInv, NEW r \in Runs, LoadStore(r) PROVE StoreInv'
  OBVIOUS
<1>1. CASE Loads
  BY <1>1 DEF LoadStore, Load, StoreInv, MemoryInv, OnDisk, States, Flushing, files, who, Foreign
<1>2. CASE ~Loads
  <2>1. pc' = [q \in Runs |-> IF q \in {r} THEN "ended" ELSE pc[q]]
    BY <1>2 DEF LoadStore, StoreInv
  <2> QED  BY <1>2, <2>1, Exits DEF LoadStore, States, Flushing
<1> QED  BY <1>1, <1>2

LEMMA MutateStep == StoreInv /\ (\E r \in Runs : Mutate(r)) => StoreInv'
<1> SUFFICES ASSUME StoreInv, NEW r \in Runs, Mutate(r) PROVE StoreInv'
  OBVIOUS
<1>1. PICK e \in Edits :
        IF r \in dry
        THEN /\ mem' = [mem EXCEPT ![r] = Put(dest[r], @, e)]
             /\ UNCHANGED <<pc, edit, prev, stale>>
        ELSE /\ Loads
             /\ prev' = [prev EXCEPT ![r] = Reloaded(r)]
             /\ mem' = [mem EXCEPT ![r] = Put(dest[r], Reloaded(r), e)]
             /\ edit' = [edit EXCEPT ![r] = e]
             /\ stale' = stale \ {r}
             /\ pc' = [pc EXCEPT ![r] = "flushing"]
  BY DEF Mutate
<1>2. pc[r] = "idle" /\ UNCHANGED <<files, dry, versions>>
  BY DEF Mutate, who
<1>3. CASE r \in dry
  BY <1>1, <1>2, <1>3 DEF StoreInv, MemoryInv, OnDisk, Flushing, files, Foreign
<1>4. CASE r \notin dry
  BY <1>1, <1>2, <1>4 DEF Loads, Reloaded, Load, StoreInv, MemoryInv, OnDisk, States,
                          Flushing, files, Foreign
<1> QED  BY <1>3, <1>4

LEMMA FlushStep ==
  StoreInv /\ (\E r \in Runs : BackUp(r) \/ WriteTemp(r) \/ SyncTemp(r)) => StoreInv'
  BY DEF StoreInv, MemoryInv, OnDisk, BackUp, WriteTemp, SyncTemp, States, Flushing,
         files, who, Foreign

(* The rename follows the fsync, so what a power cut leaves is what was
   written; a foreign file is not there, since the run has read it.          *)
LEMMA PublishStep == StoreInv /\ (\E r \in Runs : Publish(r)) => StoreInv'
<1> SUFFICES ASSUME StoreInv, NEW r \in Runs, Publish(r) PROVE StoreInv'
  OBVIOUS
<1>1. pc[r] = "synced" /\ file' = Whole(mem[r]) /\ versions' = versions \cup {Whole(mem[r])}
  BY DEF Publish, ReadyToRename, AfterPowerCut
<1>2. /\ Whole(mem[r]).data = mem[r] /\ Whole(mem[r]) # Torn /\ Whole(mem[r]) \notin Foreign
  BY DEF Whole, Torn, Foreign, Corrupt, Newer
<1>3. /\ \/ pc' = [pc EXCEPT ![r] = "purging"]
         \/ pc' = [pc EXCEPT ![r] = "idle"]
      /\ prev' = [prev EXCEPT ![r] = Empty] /\ UNCHANGED <<dry, mem, stale>>
  BY DEF Publish, who
<1> QED  BY <1>1, <1>2, <1>3, ZenonT(40) DEF StoreInv, MemoryInv, OnDisk, States, Flushing

LEMMA FailStep == StoreInv /\ (\E r \in Runs : FailFlush(r)) => StoreInv'
<1> SUFFICES ASSUME StoreInv, NEW r \in Runs, FailFlush(r) PROVE StoreInv'
  OBVIOUS
<1>1. /\ pc[r] \in Flushing /\ pc' = [pc EXCEPT ![r] = "idle"]
      /\ mem' = [mem EXCEPT ![r] = Restored(r)] /\ prev' = [prev EXCEPT ![r] = Empty]
      /\ UNCHANGED <<files, dry, versions>>
  BY DEF FailFlush, who
<1>2. CASE edit[r].kind \in {"update", "purge"}
  <2>1. Restored(r) = prev[r] /\ stale' = stale \ {r}
    BY <1>2 DEF FailFlush, Restored
  <2> QED  BY <1>1, <2>1, ZenonT(40) DEF StoreInv, MemoryInv, OnDisk, States, Flushing, files, Foreign
<1>3. CASE edit[r].kind \notin {"update", "purge"}
  <2>1. stale' = stale \cup {r}
    BY <1>3 DEF FailFlush
  <2> QED  BY <1>1, <2>1 DEF StoreInv, MemoryInv, OnDisk, States, Flushing, files, Foreign
<1> QED  BY <1>2, <1>3

LEMMA PurgeStep ==
  StoreInv /\ (\E r \in Runs : Sanitize(r) \/ FailSanitize(r)) => StoreInv'
  BY DEF StoreInv, MemoryInv, OnDisk, Sanitize, FailSanitize, States, Flushing,
         files, who, Foreign

LEMMA EndStep == StoreInv /\ (\E r \in Runs : End(r)) => StoreInv'
<1> SUFFICES ASSUME StoreInv, NEW r \in Runs, End(r) PROVE StoreInv'
  OBVIOUS
<1>1. pc' = [q \in Runs |-> IF q \in {r} THEN "ended" ELSE pc[q]]
  BY DEF End, StoreInv
<1> QED  BY <1>1, Exits, ZenonT(40) DEF End, States, Flushing

LEMMA HookStep == StoreInv /\ (\E r \in Runs : HookOver(r)) => StoreInv'
  BY DEF StoreInv, MemoryInv, OnDisk, HookOver, States, Flushing, files, who, Foreign

LEMMA KillStep == StoreInv /\ (\E gone \in SUBSET Runs : Kill(gone)) => StoreInv'
  BY Exits DEF Kill, Cleared, States, Flushing

LEMMA StoreStep == StoreInv /\ [Next]_vars => StoreInv'
<1>1. StoreInv /\ UNCHANGED vars => StoreInv'
  BY DEF StoreInv, MemoryInv, OnDisk, vars, files, who
<1> QED
  BY <1>1, StartStep, SpawnStep, LockStep, RefusedStep, LoadStep, MutateStep, FlushStep,
     PublishStep, FailStep, PurgeStep, EndStep, HookStep, KillStep
  DEF Next, Begin, Store

LEMMA StoreInvariance == Spec => []StoreInv
  BY StoreInit, StoreStep, PTL DEF Spec
-----------------------------------------------------------------------------
(* flush: fsync before rename.  Whenever the power goes, state.json is a whole
   map that some run published, or what was there before the first run.      *)
THEOREM PowerCutSafe == Spec => []WholeAfterPowerCut
<1>1. StoreInv => WholeAfterPowerCut
  BY DEF StoreInv, WholeAfterPowerCut
<1> QED  BY <1>1, StoreInvariance, PTL

(* load, reload: a state file that nrg cannot read is never overwritten.     *)
THEOREM ForeignKept == Spec => ForeignFileKept
<1>1. StoreInv /\ [Next]_vars => [file' = file \/ file \notin Foreign]_vars
  <2> SUFFICES ASSUME StoreInv, Next, file' # file PROVE file \notin Foreign
    BY DEF vars, files
  <2>1. PICK r \in Runs : Publish(r)
    BY ZenonT(40) DEF Next, Begin, Store, Start, Spawn, Inherit, Probe, Probed, Acquire, Refused,
           LoadStore, Mutate, BackUp, WriteTemp, SyncTemp, FailFlush, Sanitize,
           FailSanitize, End, HookOver, Kill, Exit, files
  <2> QED  BY <2>1 DEF Publish, ReadyToRename, StoreInv, MemoryInv, Flushing
<1> QED  BY <1>1, StoreInvariance, PTL DEF Spec, ForeignFileKept

(* set, del, update, purge: after a failed write a script reads what was on
   disk at some time, except where set and del keep what they tried.         *)
THEOREM MemoryIsOnDisk == Spec => []ReadsWhatWasOnDisk
<1>1. StoreInv => ReadsWhatWasOnDisk
  BY DEF StoreInv, MemoryInv, OnDisk, ReadsWhatWasOnDisk
<1> QED  BY <1>1, StoreInvariance, PTL
-----------------------------------------------------------------------------
(* Who may write the state file: at most one run at any time, of any number of
   runs, as long as no nested run outlives the hook that started it.

   The runs that own the project lock are a chain: the one that took it, the
   run nested in it, the run nested in that.  All but the last wait for their
   hook.                                                                     *)
Owned == {r \in Runs \ dry : \/ pc[r] \in {"loading", "idle", "waiting"} \cup Mutating
                             \/ pc[r] = "locking" /\ parent[r] # None}
Dead  == {"ended", "refused"}

Chain(n, s) ==
  /\ Owned = {s[i] : i \in 1 .. n}
  /\ \A i, j \in 1 .. n : s[i] = s[j] => i = j
  /\ n > 0 => flock = s[1] /\ parent[s[1]] = None
  /\ \A i \in 1 .. n : env[s[i]] = s[1]
  /\ \A i \in 1 .. n : i < n => pc[s[i]] = "waiting" /\ parent[s[i + 1]] = s[i]

OthersInv(r) ==
  /\ parent[r] # None => r \in Owned
  /\ r \in dry => pc[r] \in {"loading", "idle", "ended"}
  /\ pc[r] = "probing" => flock = r
  /\ pc[r] = "locking" /\ parent[r] = None => env[r] = None \/ pc[env[r]] \in Dead

OwnerInv ==
  /\ pc \in [Runs -> States]
  /\ env \in [Runs -> Runs \cup {None}] /\ parent \in [Runs -> Runs \cup {None}]
  /\ \E n \in Nat : \E s \in [1 .. n -> Runs] : Chain(n, s)
  /\ \A r \in Runs : OthersInv(r)
-----------------------------------------------------------------------------
LEMMA Least ==
  ASSUME NEW T \in SUBSET Nat, T # {}
  PROVE  \E x \in T : \A y \in T : x <= y
<1> DEFINE Less == OpToRel(<, Nat)
<1>1. \A x, y \in Nat : <<x, y>> \in Less <=> x < y
  BY DEF OpToRel
<1>2. IsWellFoundedOn(Less, Nat)
  BY NatLessThanWellFounded
<1> HIDE DEF Less
<1>3. \E x \in T : \A y \in T : <<y, x>> \notin Less
  BY <1>2, WFMin
<1>4. PICK x \in T : \A y \in T : <<y, x>> \notin Less
  BY <1>3
<1>5. \A y \in T : ~(y < x)
  BY <1>1, <1>4
<1>6. \A y \in T : x <= y
  BY <1>5
<1> QED  BY <1>6

LEMMA OwnerInit == Init => OwnerInv
<1> SUFFICES ASSUME Init PROVE OwnerInv
  OBVIOUS
<1>1. Owned = {}
  BY DEF Init, Owned, Mutating, Flushing
<1>2. Chain(0, [i \in 1 .. 0 |-> None])
  BY <1>1 DEF Chain
<1>3. [i \in 1 .. 0 |-> None] \in [1 .. 0 -> Runs]
  OBVIOUS
<1>4. \A r \in Runs : OthersInv(r)
  BY DEF Init, OthersInv
<1> QED  BY <1>2, <1>3, <1>4 DEF Init, OwnerInv, States

(* The run of the chain that has no nested one is its last, and a run that
   does not wait has no nested one.                                          *)
LEMMA Tip ==
  ASSUME NEW n \in Nat, NEW s \in [1 .. n -> Runs], Chain(n, s),
         NEW r \in Owned, \A q \in Runs : parent[q] # r
  PROVE  n > 0 /\ r = s[n]
  BY DEF Chain

LEMMA Childless ==
  ASSUME OwnerInv, NEW r \in Runs, r \in Owned => pc[r] # "waiting"
  PROVE  \A q \in Runs : parent[q] # r
<1> SUFFICES ASSUME NEW q \in Runs, parent[q] = r PROVE FALSE
  OBVIOUS
<1>0. PICK n \in Nat : \E s \in [1 .. n -> Runs] : Chain(n, s)
  BY DEF OwnerInv
<1>1. PICK s \in [1 .. n -> Runs] : Chain(n, s)
  BY <1>0
<1>2. q \in Owned
  BY DestsAssumption DEF OwnerInv, OthersInv
<1>3. PICK j \in 1 .. n : q = s[j]
  BY <1>1, <1>2 DEF Chain
<1>4. j # 1
  BY <1>1, <1>3, DestsAssumption DEF Chain
<1>5. j - 1 \in 1 .. n /\ j - 1 < n /\ s[j - 1] = r /\ pc[s[j - 1]] = "waiting"
  <2>1. j - 1 \in 1 .. n /\ j - 1 < n /\ (j - 1) + 1 = j
    BY <1>4
  <2> QED  BY <1>1, <1>3, <2>1 DEF Chain
<1>6. r \in Owned
  BY <1>1, <1>5 DEF Chain
<1> QED  BY <1>5, <1>6

(* A nested run still knows its ancestor that holds the lock.                *)
LEMMA Knows ==
  ASSUME OwnerInv, NEW r \in Owned
  PROVE  flock \in Owned /\ env[r] = flock /\ Reentrant(r)
<1>0. PICK n \in Nat : \E s \in [1 .. n -> Runs] : Chain(n, s)
  BY DEF OwnerInv
<1>1. PICK s \in [1 .. n -> Runs] : Chain(n, s)
  BY <1>0
<1>2. n > 0 /\ env[r] = s[1] /\ flock = s[1] /\ s[1] \in Owned
  BY <1>1 DEF Chain
<1> QED  BY <1>2, DestsAssumption DEF Reentrant, Alive, Owned, Mutating, Flushing

LEMMA Stranger ==
  ASSUME OwnerInv, NEW r \in Runs, pc[r] = "locking"
  PROVE  Reentrant(r) <=> r \in Owned
<1>1. CASE parent[r] = None
  BY <1>1 DEF OwnerInv, OthersInv, Reentrant, Alive, Dead, Owned, Mutating, Flushing
<1>2. CASE parent[r] # None
  BY <1>2, Knows DEF OwnerInv, OthersInv
<1> QED  BY <1>1, <1>2
-----------------------------------------------------------------------------
(* A step that leaves chain and lock alone: a run that has no nested one goes
   from one place of an owner to another.                                    *)
LEMMA Moves ==
  ASSUME OwnerInv, NEW r \in Runs, NEW place \in States,
         r \in dry => place = "idle",
         r \in Owned \cup dry, \A q \in Runs : parent[q] # r,
         place \in {"loading", "idle", "waiting"} \cup Mutating,
         pc[r] \notin Dead, pc' = [pc EXCEPT ![r] = place],
         UNCHANGED <<flock, env, parent, dry>>
  PROVE  OwnerInv'
<1>0. PICK n \in Nat : \E s \in [1 .. n -> Runs] : Chain(n, s)
  BY DEF OwnerInv
<1>1. PICK s \in [1 .. n -> Runs] : Chain(n, s)
  BY <1>0
<1>2. Owned' = Owned
  BY DEF OwnerInv, Owned, Mutating, Flushing
<1>3. \A i \in 1 .. n : i < n => pc'[s[i]] = pc[s[i]]
  <2> SUFFICES ASSUME NEW i \in 1 .. n, i < n, s[i] = r PROVE FALSE
    BY DEF OwnerInv
  <2>1. i + 1 \in 1 .. n
    OBVIOUS
  <2> QED  BY <1>1, <2>1 DEF Chain
<1>4. Chain(n, s)'
  BY <1>1, <1>2, <1>3 DEF Chain
<1>5. ASSUME NEW q \in Runs PROVE OthersInv(q)'
  BY <1>2 DEF OwnerInv, OthersInv, Dead, Mutating, Flushing
<1> QED  BY <1>4, <1>5 DEF OwnerInv

(* Runs end with all the runs nested in them: the end of the chain.          *)
LEMMA Cut ==
  ASSUME NEW n \in Nat, NEW s \in [1 .. n -> Runs], Chain(n, s), NEW gone \in SUBSET Runs,
         \A q \in Runs : parent[q] \in gone => q \in gone
  PROVE  \E k \in 0 .. n : \A i \in 1 .. n : s[i] \in gone <=> k < i
<1> DEFINE T == {i \in 1 .. n : s[i] \in gone}
<1>1. CASE T = {}
  <2>1. \A i \in 1 .. n : s[i] \in gone <=> n < i
    BY <1>1
  <2> QED  BY <2>1
<1>2. CASE T # {}
  <2>1. T \in SUBSET Nat
    OBVIOUS
  <2>2. PICK m \in T : \A i \in T : m <= i
    <3> HIDE DEF T
    <3> QED  BY <1>2, <2>1, Least
  <2> DEFINE U == {i \in 1 .. n : m < i /\ s[i] \notin gone}
  <2>3. U = {}
    <3> SUFFICES ASSUME U # {} PROVE FALSE
      OBVIOUS
    <3>1. U \in SUBSET Nat
      OBVIOUS
    <3>2. PICK u \in U : \A i \in U : u <= i
      <4> HIDE DEF U
      <4> QED  BY <3>1, Least
    <3>3. u - 1 \in 1 .. n /\ u - 1 < n /\ (u - 1) + 1 = u /\ u - 1 \notin U
      BY <3>2
    <3>4. s[u - 1] \in gone
      BY <2>2, <3>2, <3>3
    <3>5. parent[s[u]] = s[u - 1]
      BY <3>3 DEF Chain
    <3> QED  BY <3>2, <3>4, <3>5
  <2>4. \A i \in 1 .. n : s[i] \in gone <=> m - 1 < i
    BY <2>2, <2>3
  <2>5. m - 1 \in 0 .. n
    BY <2>1
  <2> QED  BY <2>4, <2>5
<1> QED  BY <1>1, <1>2

LEMMA OwnersEnd ==
  ASSUME OwnerInv, NEW gone \in SUBSET Runs, NEW end \in Dead,
         end = "refused" => gone \cap dry = {},
         \A q \in Runs : parent[q] \in gone => q \in gone,
         Exit(gone), pc' = [q \in Runs |-> IF q \in gone THEN end ELSE pc[q]]
  PROVE  OwnerInv'
<1>0. PICK n \in Nat : \E s \in [1 .. n -> Runs] : Chain(n, s)
  BY DEF OwnerInv
<1>1. PICK s \in [1 .. n -> Runs] : Chain(n, s)
  BY <1>0
<1>2. PICK k \in 0 .. n : \A i \in 1 .. n : s[i] \in gone <=> k < i
  BY <1>1, Cut
<1> DEFINE t == [i \in 1 .. k |-> s[i]]
<1>3. /\ dry' = dry /\ env' = [q \in Runs |-> IF q \in gone THEN None ELSE env[q]]
      /\ parent' = [q \in Runs |-> IF q \in gone THEN None ELSE parent[q]]
      /\ flock' = IF flock \in gone THEN None ELSE flock
  BY DEF Exit, Cleared
<1>4. Owned' = Owned \ gone
  BY <1>3 DEF Owned, Dead, Mutating, Flushing
<1>5. Owned' = {t[i] : i \in 1 .. k}
  BY <1>1, <1>2, <1>4 DEF Chain
<1>6. t \in [1 .. k -> Runs] /\ k \in Nat
  OBVIOUS
<1>7. \A i \in 1 .. k : i \in 1 .. n /\ t[i] = s[i] /\ s[i] \notin gone
  BY <1>2
<1>8. Chain(k, t)'
  <2>1. \A i, j \in 1 .. k : t[i] = t[j] => i = j
    BY <1>1, <1>7 DEF Chain
  <2>2. k > 0 => flock' = t[1] /\ parent'[t[1]] = None
    BY <1>1, <1>3, <1>7 DEF Chain
  <2>3. \A i \in 1 .. k : env'[t[i]] = t[1]
    BY <1>1, <1>3, <1>7 DEF Chain
  <2>4. ASSUME NEW i \in 1 .. k, i < k
        PROVE  pc'[t[i]] = "waiting" /\ parent'[t[i + 1]] = t[i]
    <3>1. i + 1 \in 1 .. k /\ i < n
      BY <2>4
    <3> QED  BY <1>1, <1>3, <1>7, <3>1 DEF Chain
  <2> HIDE DEF t
  <2> QED  BY <1>5, <2>1, <2>2, <2>3, <2>4 DEF Chain
<1>9. ASSUME NEW q \in Runs PROVE OthersInv(q)'
  BY <1>3, <1>4 DEF OwnerInv, OthersInv, Dead
<1>10. /\ pc' \in [Runs -> States]
       /\ env' \in [Runs -> Runs \cup {None}] /\ parent' \in [Runs -> Runs \cup {None}]
  BY <1>3 DEF OwnerInv, States, Dead
<1> HIDE DEF t
<1> QED  BY <1>6, <1>8, <1>9, <1>10 DEF OwnerInv
-----------------------------------------------------------------------------
(* Steps that touch neither the chain nor the places of others.              *)
LEMMA Outside ==
  ASSUME OwnerInv, Owned' = Owned,
         \A q \in Owned : pc'[q] = pc[q],
         flock' = flock \/ Owned = {},
         \A q \in Owned : env'[q] = env[q], parent' = parent,
         pc' \in [Runs -> States], env' \in [Runs -> Runs \cup {None}],
         \A q \in Runs : OthersInv(q)'
  PROVE  OwnerInv'
<1>0. PICK n \in Nat : \E s \in [1 .. n -> Runs] : Chain(n, s)
  BY DEF OwnerInv
<1>1. PICK s \in [1 .. n -> Runs] : Chain(n, s)
  BY <1>0
<1>2. \A i \in 1 .. n : s[i] \in Owned
  BY <1>1 DEF Chain
<1>3. n > 0 => flock' = flock
  BY <1>2
<1>4. Chain(n, s)'
  BY <1>1, <1>2, <1>3 DEF Chain
<1> QED  BY <1>4 DEF OwnerInv

LEMMA OwnerStart == OwnerInv /\ (\E r \in Runs : Start(r)) => OwnerInv'
<1> SUFFICES ASSUME OwnerInv, NEW r \in Runs, Start(r) PROVE OwnerInv'
  OBVIOUS
<1>1. PICK v \in {None} \cup {q \in Runs : pc[q] # "new" /\ ~Alive(q)} :
        env' = [env EXCEPT ![r] = v]
  BY DEF Start
<1>2. pc[r] = "new" /\ parent[r] = None /\ r \notin dry /\ r \notin Owned
  BY DEF Start, OwnerInv, OthersInv, Owned, Mutating, Flushing
<1>3. /\ UNCHANGED <<flock, parent>>
      /\ \/ dry' = dry \cup {r} /\ pc' = [pc EXCEPT ![r] = "loading"]
         \/ dry' = dry /\ pc' = [pc EXCEPT ![r] = "locking"]
  BY DEF Start
<1>4. Owned' = Owned
  <2>1. CASE dry' = dry \cup {r} /\ pc' = [pc EXCEPT ![r] = "loading"]
    BY <1>2, <1>3, <2>1 DEF OwnerInv, Owned, Mutating, Flushing
  <2>2. CASE dry' = dry /\ pc' = [pc EXCEPT ![r] = "locking"]
    BY <1>2, <1>3, <2>2 DEF OwnerInv, Owned, Mutating, Flushing
  <2> QED  BY <1>3, <2>1, <2>2
<1>5. v = None \/ (v \in Runs /\ pc[v] \in Dead)
  BY <1>1 DEF Alive, Dead
<1>6. ASSUME NEW q \in Runs PROVE OthersInv(q)'
  <2>1. CASE q = r
    BY <1>1, <1>2, <1>3, <1>4, <1>5, <2>1 DEF OwnerInv, OthersInv, Dead
  <2>2. CASE q # r
    <3>1. env'[q] = env[q] /\ pc'[q] = pc[q] /\ parent'[q] = parent[q]
      BY <1>1, <1>3, <2>2 DEF OwnerInv
    <3>2. env[q] \in Runs /\ pc[env[q]] \in Dead => pc'[env[q]] \in Dead
      BY <1>2, <1>3 DEF OwnerInv, Dead
    <3> QED  BY <1>2, <1>3, <1>4, <2>2, <3>1, <3>2 DEF OwnerInv, OthersInv
  <2> QED  BY <2>1, <2>2
<1>7. pc' \in [Runs -> States] /\ env' \in [Runs -> Runs \cup {None}]
  BY <1>1, <1>3 DEF OwnerInv, States
<1>8. \A q \in Owned : q \in Runs /\ pc'[q] = pc[q] /\ env'[q] = env[q]
  BY <1>1, <1>2, <1>3 DEF OwnerInv, Owned
<1> QED  BY <1>3, <1>4, <1>6, <1>7, <1>8, Outside

LEMMA OwnerSpawn == OwnerInv /\ (\E p, r \in Runs : Spawn(p, r)) => OwnerInv'
<1> SUFFICES ASSUME OwnerInv, NEW p \in Runs, NEW r \in Runs, Spawn(p, r) PROVE OwnerInv'
  OBVIOUS
<1>1. /\ pc[p] = "idle" /\ p \notin dry /\ pc[r] = "new" /\ p # r
      /\ env' = [env EXCEPT ![r] = env[p]] /\ parent' = [parent EXCEPT ![r] = p]
      /\ pc' = [pc EXCEPT ![p] = "waiting", ![r] = "locking"] /\ UNCHANGED <<flock, dry>>
  BY DEF Spawn
<1>2. p \in Owned /\ r \notin Owned /\ r \notin dry
  BY <1>1 DEF OwnerInv, OthersInv, Owned, Mutating, Flushing
<1>3. Owned' = Owned \cup {r}
  BY <1>1, <1>2, DestsAssumption DEF OwnerInv, Owned, Mutating, Flushing
<1>4. PICK n \in Nat : \E s \in [1 .. n -> Runs] : Chain(n, s)
  BY DEF OwnerInv
<1>5. PICK s \in [1 .. n -> Runs] : Chain(n, s)
  BY <1>4
<1>6. n > 0 /\ p = s[n]
  BY <1>1, <1>2, <1>5, Childless, Tip
<1> DEFINE t == [i \in 1 .. n + 1 |-> IF i = n + 1 THEN r ELSE s[i]]
<1>7. t \in [1 .. n + 1 -> Runs] /\ n + 1 \in Nat
  OBVIOUS
<1>8. t[n + 1] = r /\ \A i \in 1 .. n : t[i] = s[i] /\ s[i] # r
  BY <1>2, <1>5 DEF Chain
<1>9. Chain(n + 1, t)'
  <2>1. Owned' = {t[i] : i \in 1 .. n + 1}
    BY <1>3, <1>5, <1>8 DEF Chain
  <2>2. ASSUME NEW i \in 1 .. n + 1, NEW j \in 1 .. n + 1, t[i] = t[j] PROVE i = j
    <3>1. \A k \in 1 .. n + 1 : k = n + 1 \/ k \in 1 .. n
      OBVIOUS
    <3>2. \A k, l \in 1 .. n : s[k] = s[l] => k = l
      BY <1>5 DEF Chain
    <3> HIDE DEF t
    <3> QED  BY <1>8, <2>2, <3>1, <3>2
  <2>3. flock' = t[1] /\ parent'[t[1]] = None
    <3>1. 1 \in 1 .. n /\ flock = s[1] /\ parent[s[1]] = None
      BY <1>5, <1>6 DEF Chain
    <3> QED  BY <1>1, <1>8, <3>1 DEF OwnerInv
  <2>4. \A i \in 1 .. n + 1 : env'[t[i]] = t[1]
    BY <1>1, <1>5, <1>6, <1>8 DEF Chain, OwnerInv
  <2>5. ASSUME NEW i \in 1 .. n + 1, i < n + 1
        PROVE  pc'[t[i]] = "waiting" /\ parent'[t[i + 1]] = t[i]
    <3>1. CASE i = n
      BY <1>1, <1>6, <1>8, <3>1 DEF OwnerInv
    <3>2. CASE i < n
      <4>1. i \in 1 .. n /\ i + 1 \in 1 .. n
        BY <3>2
      <4>2. pc[s[i]] = "waiting" /\ parent[s[i + 1]] = s[i]
        BY <1>5, <3>2, <4>1 DEF Chain
      <4> QED  BY <1>1, <1>8, <4>1, <4>2 DEF OwnerInv
    <3> QED  BY <2>5, <3>1, <3>2
  <2> HIDE DEF t
  <2> QED  BY <2>1, <2>2, <2>3, <2>4, <2>5 DEF Chain
<1>10. ASSUME NEW q \in Runs PROVE OthersInv(q)'
  BY <1>1, <1>3, DestsAssumption DEF OwnerInv, OthersInv, Dead
<1>11. /\ pc' \in [Runs -> States]
       /\ env' \in [Runs -> Runs \cup {None}] /\ parent' \in [Runs -> Runs \cup {None}]
  BY <1>1 DEF OwnerInv, States
<1> HIDE DEF t
<1> QED  BY <1>7, <1>9, <1>10, <1>11 DEF OwnerInv

LEMMA OwnerInherit == OwnerInv /\ (\E r \in Runs : Inherit(r)) => OwnerInv'
<1> SUFFICES ASSUME OwnerInv, NEW r \in Runs, Inherit(r) PROVE OwnerInv'
  OBVIOUS
<1>1. /\ pc[r] = "locking" /\ Reentrant(r) /\ pc' = [pc EXCEPT ![r] = "loading"]
      /\ UNCHANGED <<flock, env, parent, dry>>
  BY DEF Inherit, who
<1>2. r \in Owned /\ r \notin dry
  BY <1>1, Stranger DEF Owned
<1>3. \A q \in Runs : parent[q] # r
  BY <1>1, Childless
<1> QED  BY <1>1, <1>2, <1>3, Moves DEF States, Dead

LEMMA OwnerProbe == OwnerInv /\ (\E r \in Runs : Probe(r) \/ Probed(r)) => OwnerInv'
<1> SUFFICES ASSUME OwnerInv, NEW r \in Runs, Probe(r) \/ Probed(r) PROVE OwnerInv'
  OBVIOUS
<1>1. r \notin Owned /\ UNCHANGED <<env, parent, dry>>
  BY Stranger DEF Probe, Probed, Owned, Mutating, Flushing, who
<1>2. /\ \/ pc[r] = "locking" /\ flock = None /\ flock' = r /\ pc' = [pc EXCEPT ![r] = "probing"]
         \/ pc[r] = "probing" /\ flock = r /\ flock' = None /\ pc' = [pc EXCEPT ![r] = "probed"]
      /\ parent[r] = None /\ r \notin dry
  BY <1>1 DEF Probe, Probed, OwnerInv, OthersInv
<1>3. Owned = {}
  BY <1>1, <1>2, Knows, DestsAssumption DEF Owned
<1>4. Owned' = Owned
  <2>1. CASE pc' = [pc EXCEPT ![r] = "probing"]
    BY <1>1, <1>2, <2>1 DEF OwnerInv, Owned, Mutating, Flushing
  <2>2. CASE pc' = [pc EXCEPT ![r] = "probed"]
    BY <1>1, <1>2, <2>2 DEF OwnerInv, Owned, Mutating, Flushing
  <2> QED  BY <1>2, <2>1, <2>2
<1>5. ASSUME NEW q \in Runs PROVE OthersInv(q)'
  BY <1>1, <1>2, <1>4, DestsAssumption DEF OwnerInv, OthersInv, Dead
<1>6. pc' \in [Runs -> States]
  BY <1>2 DEF OwnerInv, States
<1> QED  BY <1>1, <1>3, <1>4, <1>5, <1>6, Outside DEF OwnerInv

LEMMA OwnerAcquire == OwnerInv /\ (\E r \in Runs : Acquire(r)) => OwnerInv'
<1> SUFFICES ASSUME OwnerInv, NEW r \in Runs, Acquire(r) PROVE OwnerInv'
  OBVIOUS
<1>1. /\ pc[r] = "probed" \/ (pc[r] = "locking" /\ ~Reentrant(r))
      /\ flock = None /\ flock' = r /\ env' = [env EXCEPT ![r] = r]
      /\ pc' = [pc EXCEPT ![r] = "loading"] /\ UNCHANGED <<parent, dry>>
  BY DEF Acquire
<1>2. Owned = {}
  BY <1>1, Knows, DestsAssumption DEF Owned
<1>3. parent[r] = None /\ r \notin dry
  BY <1>1, <1>2 DEF OwnerInv, OthersInv
<1>4. Owned' = {r}
  BY <1>1, <1>2, <1>3 DEF OwnerInv, Owned, Mutating, Flushing
<1>5. Chain(1, [i \in 1 .. 1 |-> r])'
  <2>1. \A i \in 1 .. 1 : i = 1
    OBVIOUS
  <2>2. env'[r] = r
    BY <1>1 DEF OwnerInv
  <2> QED  BY <1>1, <1>3, <1>4, <2>1, <2>2 DEF Chain
<1>6. ASSUME NEW q \in Runs PROVE OthersInv(q)'
  <2>1. CASE q = r
    BY <1>1, <1>3, <2>1 DEF OwnerInv, OthersInv
  <2>2. CASE q # r
    <3>1. /\ env'[q] = env[q] /\ pc'[q] = pc[q]
          /\ pc[q] # "probing" /\ parent[q] = None
      BY <1>1, <1>2, <2>2, DestsAssumption DEF OwnerInv, OthersInv
    <3>2. env[q] \in Runs /\ pc[env[q]] \in Dead => pc'[env[q]] \in Dead
      BY <1>1 DEF OwnerInv, Dead
    <3> QED  BY <1>1, <3>1, <3>2 DEF OwnerInv, OthersInv
  <2> QED  BY <2>1, <2>2
<1>7. /\ pc' \in [Runs -> States] /\ env' \in [Runs -> Runs \cup {None}]
      /\ [i \in 1 .. 1 |-> r] \in [1 .. 1 -> Runs]
  BY <1>1 DEF OwnerInv, States
<1> QED  BY <1>1, <1>5, <1>6, <1>7 DEF OwnerInv

LEMMA OwnerRefused == OwnerInv /\ (\E r \in Runs : Refused(r)) => OwnerInv'
<1> SUFFICES ASSUME OwnerInv, NEW r \in Runs, Refused(r) PROVE OwnerInv'
  OBVIOUS
<1>1. pc[r] \in {"probed", "locking"} /\ Exit({r})
      /\ pc' = [q \in Runs |-> IF q \in {r} THEN "refused" ELSE pc[q]]
  BY DEF Refused, OwnerInv
<1>2. r \notin dry /\ \A q \in Runs : parent[q] # r
  BY <1>1, Childless DEF OwnerInv, OthersInv
<1>3. "refused" \in Dead /\ {r} \in SUBSET Runs
  BY DEF Dead
<1> QED  BY <1>1, <1>2, <1>3, OwnersEnd

LEMMA OwnerLoad == OwnerInv /\ (\E r \in Runs : LoadStore(r)) => OwnerInv'
<1> SUFFICES ASSUME OwnerInv, NEW r \in Runs, LoadStore(r) PROVE OwnerInv'
  OBVIOUS
<1>1. pc[r] = "loading" /\ r \in Owned \cup dry /\ \A q \in Runs : parent[q] # r
  BY Childless DEF LoadStore, Owned
<1>2. CASE Loads
  <2>1. pc' = [pc EXCEPT ![r] = "idle"] /\ UNCHANGED <<flock, env, parent, dry>>
    BY <1>2 DEF LoadStore, who
  <2> QED  BY <1>1, <2>1, Moves DEF States, Dead
<1>3. CASE ~Loads
  <2>1. Exit({r}) /\ pc' = [q \in Runs |-> IF q \in {r} THEN "ended" ELSE pc[q]]
    BY <1>3 DEF LoadStore, OwnerInv
  <2>2. "ended" \in Dead /\ {r} \in SUBSET Runs
    BY DEF Dead
  <2> QED  BY <1>1, <2>1, <2>2, OwnersEnd
<1> QED  BY <1>2, <1>3

LEMMA OwnerStore == OwnerInv /\ (\E r \in Runs : Store(r)) => OwnerInv'
<1> SUFFICES ASSUME OwnerInv, NEW r \in Runs, Store(r) PROVE OwnerInv'
  OBVIOUS
<1>1. /\ pc[r] \in {"idle"} \cup Mutating /\ UNCHANGED <<flock, env, parent, dry>>
      /\ \E place \in {"idle"} \cup Mutating :
           pc' = [pc EXCEPT ![r] = place] /\ (r \in dry => place = "idle")
  <2>1. CASE Mutate(r)
    <3>1. pc[r] = "idle" /\ pc = [pc EXCEPT ![r] = "idle"]
      BY <2>1 DEF Mutate, OwnerInv
    <3>2. pc' = pc \/ (r \notin dry /\ pc' = [pc EXCEPT ![r] = "flushing"])
      BY <2>1 DEF Mutate
    <3> QED  BY <2>1, <3>1, <3>2 DEF Mutate, Mutating, Flushing, who
  <2>2. CASE ~Mutate(r)
    <3>1. r \notin dry
      BY <2>2 DEF Store, BackUp, WriteTemp, SyncTemp, Publish, ReadyToRename, FailFlush,
                  Sanitize, FailSanitize, OwnerInv, OthersInv, Flushing
    <3> QED
      BY <2>2, <3>1 DEF Store, BackUp, WriteTemp, SyncTemp, Publish, ReadyToRename,
                        FailFlush, Sanitize, FailSanitize, Mutating, Flushing, who
  <2> QED  BY <2>1, <2>2
<1>2. r \in Owned \cup dry /\ \A q \in Runs : parent[q] # r
  BY <1>1, Childless DEF Owned, Mutating, Flushing
<1>3. PICK place \in {"idle"} \cup Mutating :
        pc' = [pc EXCEPT ![r] = place] /\ (r \in dry => place = "idle")
  BY <1>1
<1>4. place \in States /\ pc[r] \notin Dead
  BY <1>1 DEF States, Mutating, Flushing, Dead
<1> QED  BY <1>1, <1>2, <1>3, <1>4, Moves

LEMMA OwnerEnd == OwnerInv /\ (\E r \in Runs : End(r)) => OwnerInv'
<1> SUFFICES ASSUME OwnerInv, NEW r \in Runs, End(r) PROVE OwnerInv'
  OBVIOUS
<1>1. pc[r] = "idle" /\ Exit({r}) /\ pc' = [q \in Runs |-> IF q \in {r} THEN "ended" ELSE pc[q]]
  BY DEF End, OwnerInv
<1>2. \A q \in Runs : parent[q] # r
  BY <1>1, Childless
<1>3. "ended" \in Dead /\ {r} \in SUBSET Runs
  BY DEF Dead
<1> QED  BY <1>1, <1>2, <1>3, OwnersEnd

LEMMA OwnerHook ==
  ASSUME ~Detached, OwnerInv, NEW p \in Runs, HookOver(p)
  PROVE  OwnerInv'
<1>1. /\ pc[p] = "waiting" /\ \A r \in Runs : parent[r] # p
      /\ pc' = [pc EXCEPT ![p] = "idle"] /\ UNCHANGED <<flock, env, parent, dry>>
  BY DEF HookOver, who
<1>2. p \in Owned
  BY <1>1 DEF OwnerInv, OthersInv, Owned
<1> QED  BY <1>1, <1>2, Moves DEF States, Dead

LEMMA OwnerKill ==
  ASSUME ~Detached, OwnerInv, NEW gone \in SUBSET Runs, Kill(gone)
  PROVE  OwnerInv'
<1>1. /\ \A q \in Runs : parent[q] \in gone => q \in gone
      /\ Exit(gone) /\ pc' = [q \in Runs |-> IF q \in gone THEN "ended" ELSE pc[q]]
  BY DEF Kill, Cleared
<1>2. "ended" \in Dead
  BY DEF Dead
<1> QED  BY <1>1, <1>2, OwnersEnd

LEMMA OwnerStutter == OwnerInv /\ UNCHANGED vars => OwnerInv'
<1> SUFFICES ASSUME OwnerInv, UNCHANGED vars PROVE OwnerInv'
  OBVIOUS
<1>1. UNCHANGED <<flock, pc, env, parent, dry>>
  BY DEF vars, who
<1>2. Owned' = Owned /\ \A q \in Runs : OthersInv(q)'
  BY <1>1 DEF Owned, OwnerInv, OthersInv
<1> QED  BY <1>1, <1>2, Outside DEF OwnerInv

LEMMA OwnerStep == ASSUME ~Detached PROVE OwnerInv /\ [Next]_vars => OwnerInv'
  BY OwnerStart, OwnerSpawn, OwnerInherit, OwnerProbe, OwnerAcquire, OwnerRefused, OwnerLoad,
     OwnerStore, OwnerEnd, OwnerHook, OwnerKill, OwnerStutter
  DEF Next, Begin

LEMMA OwnerInvariance == ASSUME ~Detached PROVE Spec => []OwnerInv
  BY OwnerInit, OwnerStep, PTL DEF Spec
-----------------------------------------------------------------------------
(* wire_run, lock_is_reentrant: between the reload of a mutation and its rename
   no other run mutates, however runs are nested, refused and killed.        *)
LEMMA OneAtATime == OwnerInv => OneWriter
<1> SUFFICES ASSUME OwnerInv, NEW r \in Runs, NEW q \in Runs,
                    pc[r] \in Mutating, pc[q] \in Mutating
             PROVE  r = q
  BY DEF OneWriter
<1>1. r \in Owned /\ q \in Owned /\ pc[r] # "waiting" /\ pc[q] # "waiting"
  BY DEF OwnerInv, OthersInv, Owned, Mutating, Flushing
<1>2. PICK n \in Nat : \E s \in [1 .. n -> Runs] : Chain(n, s)
  BY DEF OwnerInv
<1>3. PICK s \in [1 .. n -> Runs] : Chain(n, s)
  BY <1>2
<1> QED  BY <1>1, <1>3, Childless, Tip

THEOREM OneWriterAtATime == ASSUME ~Detached PROVE Spec => []OneWriter
  BY OwnerInvariance, OneAtATime, PTL
-----------------------------------------------------------------------------
(* Of what was purged, a run that writes has only the keys it puts back.  A
   purge writes a map without its keys, and then copies it over the backup.  *)
PurgeInv(r) ==
  /\ pc[r] \in Flushing => DOMAIN mem[r] \cap purged \subseteq RawKeys(r, DOMAIN edit[r].puts)
  /\ pc[r] \in Flushing /\ edit[r].kind = "purge" =>
       DOMAIN mem[r] \cap RawKeys(r, edit[r].dels) = {}
  /\ pc[r] = "purging" => DOMAIN file.data \cap RawKeys(r, edit[r].dels) = {}

PurgesInv ==
  /\ pc \in [Runs -> States]
  /\ mem = [r \in Runs |-> mem[r]] /\ edit = [r \in Runs |-> edit[r]]
  /\ dest = [r \in Runs |-> dest[r]]
  /\ PurgedStaysPurged
  /\ \A r \in Runs : PurgeInv(r)

LEMMA PurgeInit == Init => PurgesInv
  BY DEF Init, PurgesInv, PurgeInv, PurgedStaysPurged, States, Flushing

LEMMA PutDomain ==
  ASSUME NEW d, NEW data, NEW e
  PROVE  DOMAIN Put(d, data, e) =
           (DOMAIN data \ {NsKey(d, k) : k \in e.dels}) \cup {NsKey(d, k) : k \in DOMAIN e.puts}
  BY DEF Put

(* Steps that change neither file nor what runs under way have in memory.    *)
LEMMA PurgeIdle ==
  ASSUME PurgesInv, UNCHANGED <<file, purged>>,
         bak' = bak \/ DOMAIN bak'.data \cap purged = {},
         pc' \in [Runs -> States],
         mem' = [r \in Runs |-> mem'[r]], edit' = [r \in Runs |-> edit'[r]],
         dest' = [r \in Runs |-> dest'[r]],
         \A r \in Runs : pc'[r] \in Mutating =>
           /\ pc'[r] \in Flushing <=> pc[r] \in Flushing
           /\ pc[r] \in Mutating /\ mem'[r] = mem[r] /\ edit'[r] = edit[r] /\ dest'[r] = dest[r]
  PROVE  PurgesInv'
<1>1. PurgedStaysPurged'
  BY DEF PurgesInv, PurgedStaysPurged
<1>2. ASSUME NEW r \in Runs PROVE PurgeInv(r)'
  BY DEF PurgesInv, PurgeInv, RawKeys, Mutating, Flushing
<1> QED  BY <1>1, <1>2 DEF PurgesInv

LEMMA PurgeBegin == PurgesInv /\ (\E r \in Runs : Begin(r)) => PurgesInv'
<1> SUFFICES ASSUME PurgesInv, NEW r \in Runs, Begin(r) PROVE PurgesInv'
  OBVIOUS
<1>1. CASE Start(r)
  BY <1>1, PurgeIdle DEF Start, PurgesInv, States, Mutating, Flushing, files
<1>2. ASSUME NEW p \in Runs, Spawn(p, r) PROVE PurgesInv'
  BY <1>2, PurgeIdle DEF Spawn, PurgesInv, States, Mutating, Flushing, files
<1>3. CASE Inherit(r) \/ Probe(r) \/ Probed(r) \/ Acquire(r)
  BY <1>3, PurgeIdle DEF Inherit, Probe, Probed, Acquire, PurgesInv, States, Mutating,
                         Flushing, files, who
<1>4. CASE Refused(r)
  BY <1>4, PurgeIdle DEF Refused, Exit, Cleared, PurgesInv, States, Mutating, Flushing, files
<1>5. CASE LoadStore(r)
  BY <1>5, PurgeIdle DEF LoadStore, Exit, Cleared, PurgesInv, States, Mutating, Flushing, files, who
<1> QED  BY <1>1, <1>2, <1>3, <1>4, <1>5 DEF Begin

LEMMA PurgeEnd ==
  PurgesInv /\ ((\E r \in Runs : End(r) \/ HookOver(r)) \/ (\E gone \in SUBSET Runs : Kill(gone)))
    => PurgesInv'
<1> SUFFICES ASSUME PurgesInv,
                    \/ \E r \in Runs : End(r) \/ HookOver(r)
                    \/ \E gone \in SUBSET Runs : Kill(gone)
             PROVE  PurgesInv'
  OBVIOUS
<1>1. ASSUME NEW r \in Runs, End(r) PROVE PurgesInv'
  BY <1>1, PurgeIdle DEF End, Exit, Cleared, PurgesInv, States, Mutating, Flushing, files
<1>2. ASSUME NEW r \in Runs, HookOver(r) PROVE PurgesInv'
  BY <1>2, PurgeIdle DEF HookOver, PurgesInv, States, Mutating, Flushing, files, who
<1>3. ASSUME NEW gone \in SUBSET Runs, Kill(gone) PROVE PurgesInv'
  BY <1>3, PurgeIdle DEF Kill, Exit, Cleared, PurgesInv, States, Mutating, Flushing, files
<1> QED  BY <1>1, <1>2, <1>3

LEMMA PurgeFlush ==
  PurgesInv /\ (\E r \in Runs : \/ BackUp(r) \/ WriteTemp(r) \/ SyncTemp(r)
                               \/ FailFlush(r) \/ FailSanitize(r)) => PurgesInv'
<1> SUFFICES ASSUME PurgesInv, NEW r \in Runs,
                    BackUp(r) \/ WriteTemp(r) \/ SyncTemp(r) \/ FailFlush(r) \/ FailSanitize(r)
             PROVE  PurgesInv'
  OBVIOUS
<1>1. CASE BackUp(r)
  <2>1. bak' = bak \/ DOMAIN bak'.data \cap purged = {}
    BY <1>1 DEF BackUp, Copied, Torn, Empty, PurgesInv, PurgedStaysPurged
  <2> QED  BY <1>1, <2>1, PurgeIdle DEF BackUp, PurgesInv, States, Mutating, Flushing, who
<1>2. CASE WriteTemp(r) \/ SyncTemp(r)
  BY <1>2, PurgeIdle DEF WriteTemp, SyncTemp, PurgesInv, States, Mutating, Flushing, files, who
<1>3. CASE FailFlush(r)
  BY <1>3, PurgeIdle DEF FailFlush, PurgesInv, States, Mutating, Flushing, files, who
<1>4. CASE FailSanitize(r)
  BY <1>4, PurgeIdle DEF FailSanitize, PurgesInv, States, Mutating, Flushing, files, who
<1> QED  BY <1>1, <1>2, <1>3, <1>4

LEMMA PurgeMutate == PurgesInv /\ (\E r \in Runs : Mutate(r)) => PurgesInv'
<1> SUFFICES ASSUME PurgesInv, NEW r \in Runs, Mutate(r) PROVE PurgesInv'
  OBVIOUS
<1>1. PICK e \in Edits :
        IF r \in dry
        THEN /\ mem' = [mem EXCEPT ![r] = Put(dest[r], @, e)]
             /\ UNCHANGED <<pc, edit, prev, stale>>
        ELSE /\ Loads
             /\ prev' = [prev EXCEPT ![r] = Reloaded(r)]
             /\ mem' = [mem EXCEPT ![r] = Put(dest[r], Reloaded(r), e)]
             /\ edit' = [edit EXCEPT ![r] = e]
             /\ stale' = stale \ {r}
             /\ pc' = [pc EXCEPT ![r] = "flushing"]
  BY DEF Mutate
<1>2. pc[r] = "idle" /\ UNCHANGED <<file, bak, dest, purged>>
  BY DEF Mutate, who, files
<1>3. CASE r \in dry
  BY <1>1, <1>2, <1>3, PurgeIdle DEF PurgesInv, Mutating, Flushing
<1>4. CASE r \notin dry
  <2>1. /\ mem' = [mem EXCEPT ![r] = Put(dest[r], file.data, e)]
        /\ edit' = [edit EXCEPT ![r] = e] /\ pc' = [pc EXCEPT ![r] = "flushing"]
    BY <1>1, <1>4 DEF Reloaded, Load
  <2>2. DOMAIN mem'[r] = (DOMAIN file.data \ RawKeys(r, e.dels)) \cup RawKeys(r, DOMAIN e.puts)
    <3>1. mem'[r] = Put(dest[r], file.data, e)
      BY <2>1 DEF PurgesInv
    <3> QED  BY <3>1, PutDomain DEF RawKeys
  <2>3. e.kind = "purge" => RawKeys(r, DOMAIN e.puts) = {}
    BY EditsAssumption DEF RawKeys
  <2>4. PurgeInv(r)'
    <3>1. edit'[r] = e /\ pc'[r] = "flushing"
          /\ \A ks : RawKeys(r, ks)' = RawKeys(r, ks)
      BY <1>2, <2>1 DEF PurgesInv, RawKeys
    <3>2. DOMAIN file.data \cap purged = {}
      BY DEF PurgesInv, PurgedStaysPurged
    <3>3. DOMAIN mem'[r] \cap purged \subseteq RawKeys(r, DOMAIN e.puts)
      BY <2>2, <3>2
    <3>4. e.kind = "purge" => DOMAIN mem'[r] \cap RawKeys(r, e.dels) = {}
      BY <2>2, <2>3
    <3> QED  BY <1>2, <3>1, <3>3, <3>4 DEF PurgeInv, RawKeys
  <2>5. ASSUME NEW q \in Runs, q # r PROVE PurgeInv(q)'
    <3>1. mem'[q] = mem[q] /\ edit'[q] = edit[q] /\ pc'[q] = pc[q]
      BY <2>1, <2>5 DEF PurgesInv
    <3>2. \A ks : RawKeys(q, ks)' = RawKeys(q, ks)
      BY <1>2 DEF RawKeys
    <3> QED  BY <1>2, <3>1, <3>2 DEF PurgesInv, PurgeInv, RawKeys
  <2> QED  BY <1>2, <2>1, <2>4, <2>5 DEF PurgesInv, PurgedStaysPurged, States, Flushing
<1> QED  BY <1>3, <1>4

(* Here it matters that nobody else is half way through a mutation.          *)
LEMMA PurgePublish == PurgesInv /\ OneWriter /\ (\E r \in Runs : Publish(r)) => PurgesInv'
<1> SUFFICES ASSUME PurgesInv, OneWriter, NEW r \in Runs, Publish(r) PROVE PurgesInv'
  OBVIOUS
<1>1. /\ pc[r] = "synced" /\ file'.data = mem[r]
      /\ purged' = purged \ RawKeys(r, DOMAIN edit[r].puts)
      /\ \/ edit[r].kind = "purge" /\ pc' = [pc EXCEPT ![r] = "purging"] /\ edit' = edit
         \/ pc' = [pc EXCEPT ![r] = "idle"] /\ edit' = [edit EXCEPT ![r] = None]
      /\ UNCHANGED <<bak, mem, dest>>
  BY DEF Publish, ReadyToRename, Whole, who
<1>2. PurgedStaysPurged'
  BY <1>1 DEF PurgesInv, PurgeInv, PurgedStaysPurged, Flushing
<1>3. ASSUME NEW q \in Runs PROVE PurgeInv(q)'
  <2>1. CASE q = r
    BY <1>1, <2>1 DEF PurgesInv, PurgeInv, RawKeys, Flushing
  <2>2. CASE q # r
    <3>1. pc[q] \notin Mutating /\ pc'[q] = pc[q]
      BY <1>1, <2>2 DEF OneWriter, PurgesInv, Mutating, Flushing
    <3> QED  BY <3>1 DEF PurgeInv, Mutating
  <2> QED  BY <2>1, <2>2
<1> QED  BY <1>1, <1>2, <1>3 DEF PurgesInv, States

LEMMA PurgeSanitize == PurgesInv /\ OneWriter /\ (\E r \in Runs : Sanitize(r)) => PurgesInv'
<1> SUFFICES ASSUME PurgesInv, OneWriter, NEW r \in Runs, Sanitize(r) PROVE PurgesInv'
  OBVIOUS
<1>1. /\ pc[r] = "purging" /\ bak' = file /\ purged' = purged \cup RawKeys(r, edit[r].dels)
      /\ edit' = [edit EXCEPT ![r] = None] /\ pc' = [pc EXCEPT ![r] = "idle"]
      /\ UNCHANGED <<file, mem, dest>>
  BY DEF Sanitize, Sanitized, who
<1>2. PurgedStaysPurged'
  BY <1>1 DEF PurgesInv, PurgeInv, PurgedStaysPurged
<1>3. ASSUME NEW q \in Runs PROVE PurgeInv(q)'
  <2>1. pc'[q] \notin Mutating
    BY <1>1 DEF OneWriter, PurgesInv, Mutating, Flushing
  <2> QED  BY <2>1 DEF PurgeInv, Mutating
<1> QED  BY <1>1, <1>2, <1>3 DEF PurgesInv, States

LEMMA PurgesNext == PurgesInv /\ OneWriter /\ [Next]_vars => PurgesInv'
<1>1. ASSUME PurgesInv, UNCHANGED vars PROVE PurgesInv'
  <2>1. UNCHANGED <<file, bak, pc, dest, mem, edit, purged>>
    BY <1>1 DEF vars, files, who
  <2>2. \A r \in Runs : PurgeInv(r)'
    BY <1>1, <2>1 DEF PurgesInv, PurgeInv, RawKeys
  <2> QED  BY <1>1, <2>1, <2>2 DEF PurgesInv, PurgedStaysPurged
<1>2. ASSUME PurgesInv, OneWriter, Next PROVE PurgesInv'
  <2>1. CASE (\E r \in Runs : End(r) \/ HookOver(r)) \/ (\E gone \in SUBSET Runs : Kill(gone))
    BY <1>2, <2>1, PurgeEnd
  <2>2. ASSUME NEW r \in Runs, Begin(r) PROVE PurgesInv'
    BY <1>2, <2>2, PurgeBegin
  <2>3. ASSUME NEW r \in Runs, Store(r) PROVE PurgesInv'
    BY <1>2, <2>3, PurgeFlush, PurgeMutate, PurgePublish, PurgeSanitize DEF Store
  <2> QED  BY <1>2, <2>1, <2>2, <2>3 DEF Next
<1> QED  BY <1>1, <1>2

LEMMA PurgeSafe == PurgesInv => PurgedStaysPurged
  BY DEF PurgesInv

(* purge: credentials reported gone are in neither file, until a run writes
   them again, whatever other runs were writing.                             *)
THEOREM PurgeIsFinal == ASSUME ~Detached PROVE Spec => []PurgedStaysPurged
  BY OneWriterAtATime, PurgeSafe, PurgeInit, PurgesNext, PTL DEF Spec
-----------------------------------------------------------------------------
(* Nothing of another run or destination is lost: the keys.  A key of a
   destination is one name; on disk it is that name in the default destination
   and a pair in any other, so no two destinations share a key.              *)
IsName(k) == k = <<k[1]>>

LEMMA Joined == ASSUME NEW d, NEW a PROVE <<d>> \o <<a>> = <<d, a>>
<1> DEFINE S == {d, a}
           t == <<d>> \o <<a>>
<1>1. <<d>> \in Seq(S) /\ <<a>> \in Seq(S) /\ Len(<<d>>) = 1 /\ Len(<<a>>) = 1
  OBVIOUS
<1>2. /\ t \in Seq(S) /\ Len(t) = 1 + 1
      /\ \A i \in 1 .. 1 + 1 : t[i] = IF i <= 1 THEN <<d>>[i] ELSE <<a>>[i - 1]
  BY <1>1, ConcatProperties
<1> HIDE DEF t
<1>3. t[1] = d /\ t[2] = a /\ Len(t) = 2
  BY <1>2
<1>4. <<d, a>> \in Seq(S) /\ Len(<<d, a>>) = 2 /\ <<d, a>>[1] = d /\ <<d, a>>[2] = a
  OBVIOUS
<1>5. t = <<d, a>>
  BY <1>2, <1>3, <1>4, SeqEqual
<1> QED  BY <1>5 DEF t

LEMMA KeyShape ==
  ASSUME NEW k, IsKey(k)
  PROVE  /\ Len(k) = 1 <=> IsName(k)
         /\ Len(k) = 2 <=> k = <<k[1], k[2]>>
<1> DEFINE S == {k[i] : i \in DOMAIN k}
<1>1. k \in Seq(S) /\ DOMAIN k = 1 .. Len(k)
  BY DEF IsKey
<1>2. ASSUME Len(k) = 1 PROVE k = <<k[1]>>
  <2>1. <<k[1]>> \in Seq(S) /\ Len(<<k[1]>>) = 1 /\ <<k[1]>>[1] = k[1]
    BY <1>1, <1>2
  <2> HIDE DEF S
  <2> QED  BY <1>1, <1>2, <2>1, SeqEqual
<1>3. ASSUME Len(k) = 2 PROVE k = <<k[1], k[2]>>
  <2> DEFINE t == <<k[1], k[2]>>
  <2>1. t \in Seq(S) /\ Len(t) = 2 /\ t[1] = k[1] /\ t[2] = k[2]
    BY <1>1, <1>3
  <2> HIDE DEF S, t
  <2>2. k = t
    BY <1>1, <1>3, <2>1, SeqEqual
  <2> QED  BY <2>2 DEF t
<1>4. Len(<<k[1]>>) = 1 /\ Len(<<k[1], k[2]>>) = 2
  OBVIOUS
<1> QED  BY <1>2, <1>3, <1>4 DEF IsName

LEMMA ShortKeys == ASSUME NEW a, NEW b PROVE IsKey(<<a>>) /\ IsKey(<<a, b>>)
<1>1. DOMAIN <<a>> = 1 .. 1 /\ <<a>>[1] = a /\ <<a>> \in Seq({a})
  OBVIOUS
<1>2. {<<a>>[i] : i \in DOMAIN <<a>>} = {a}
  BY <1>1
<1>3. DOMAIN <<a, b>> = 1 .. 2 /\ <<a, b>>[1] = a /\ <<a, b>>[2] = b /\ <<a, b>> \in Seq({a, b})
  OBVIOUS
<1>4. {<<a, b>>[i] : i \in DOMAIN <<a, b>>} = {a, b}
  BY <1>3
<1> QED  BY <1>1, <1>2, <1>3, <1>4 DEF IsKey

LEMMA NsKeys ==
  ASSUME NEW d, NEW k, IsName(k)
  PROVE  /\ d = Default => NsKey(d, k) = k
         /\ d # Default => NsKey(d, k) = <<d, k[1]>>
         /\ IsKey(NsKey(d, k)) /\ Len(k) = 1
<1>1. d # Default => NsKey(d, k) = <<d, k[1]>>
  BY Joined DEF NsKey, IsName
<1>2. d = Default => NsKey(d, k) = k
  BY DEF NsKey
<1>3. Len(k) = 1
  BY DEF IsName
<1>4. CASE d # Default
  BY <1>1, <1>3, <1>4, ShortKeys
<1>5. CASE d = Default
  BY <1>2, <1>3, <1>5, ShortKeys DEF IsName
<1> QED  BY <1>1, <1>2, <1>3, <1>4, <1>5

LEMMA NsDiffer ==
  ASSUME NEW d, NEW k, NEW c, NEW j, IsName(k), IsName(j), NsKey(d, k) = NsKey(c, j)
  PROVE  d = c /\ k = j
<1>1. CASE d = Default /\ c = Default
  BY <1>1, NsKeys
<1>2. CASE d # Default /\ c # Default
  <2>1. <<d, k[1]>> = <<c, j[1]>>
    BY <1>2, NsKeys
  <2> QED  BY <2>1 DEF IsName
<1>3. ASSUME NEW a, NEW b, NEW i, IsName(i), i = <<a, b>> PROVE FALSE
  <2>1. Len(<<a, b>>) = 2 /\ Len(i) = 1
    BY <1>3, NsKeys
  <2> QED  BY <1>3, <2>1
<1>4. CASE d = Default /\ c # Default
  BY <1>3, <1>4, NsKeys
<1>5. CASE d # Default /\ c = Default
  BY <1>3, <1>5, NsKeys
<1> QED  BY <1>1, <1>2, <1>4, <1>5

(* The keys of a destination, whichever it is.                               *)
LEMMA Stripped ==
  ASSUME NEW d, NEW raw, \A x \in raw : IsKey(x)
  PROVE  \A k : k \in StripNs(d, raw) <=> IsName(k) /\ NsKey(d, k) \in raw
<1>1. \A x \in raw : /\ Len(x) = 1 <=> IsName(x)
                     /\ Len(x) = 2 <=> x = <<x[1], x[2]>>
  BY KeyShape
<1>2. CASE d = Default
  <2>1. \A k : k \in StripNs(d, raw) <=> k \in raw /\ Len(k) = 1
    BY <1>2 DEF StripNs
  <2> QED  BY <1>1, <1>2, <2>1, NsKeys
<1>3. CASE d # Default
  <2>1. \A k : k \in StripNs(d, raw) <=> \E x \in raw : Len(x) = 2 /\ x[1] = d /\ k = <<x[2]>>
    BY <1>3 DEF StripNs
  <2>2. ASSUME NEW k, NEW x \in raw, Len(x) = 2, x[1] = d, k = <<x[2]>>
        PROVE  IsName(k) /\ NsKey(d, k) \in raw
    <3>1. IsName(k) /\ k[1] = x[2]
      BY <2>2 DEF IsName
    <3>2. x = <<d, x[2]>>
      BY <1>1, <2>2
    <3> QED  BY <1>3, <2>2, <3>1, <3>2, NsKeys
  <2>3. ASSUME NEW k, IsName(k), NsKey(d, k) \in raw
        PROVE  \E x \in raw : Len(x) = 2 /\ x[1] = d /\ k = <<x[2]>>
    <3> DEFINE x == <<d, k[1]>>
    <3>1. x \in raw /\ Len(x) = 2 /\ x[1] = d /\ x[2] = k[1]
      BY <1>3, <2>3, NsKeys
    <3> QED  BY <2>3, <3>1 DEF IsName
  <2> QED  BY <2>1, <2>2, <2>3
<1> QED  BY <1>2, <1>3

(* What a destination sees of a map in which an edit was made.               *)
LEMMA PutIn ==
  ASSUME NEW d, NEW data, NEW e, \A x \in DOMAIN data : IsKey(x),
         \A k \in DOMAIN e.puts \cup e.dels : IsName(k)
  PROVE  /\ \A x \in DOMAIN Put(d, data, e) : IsKey(x)
         /\ All(d, Put(d, data, e)) = Destinations!Edited(All(d, data), e)
         /\ \A c : c # d => All(c, Put(d, data, e)) = All(c, data)
<1> DEFINE del == {NsKey(d, k) : k \in e.dels}
           new == {NsKey(d, k) : k \in DOMAIN e.puts}
           raw == (DOMAIN data \ del) \cup new
           out == Put(d, data, e)
<1>1. \A x \in raw : IsKey(x)
  BY NsKeys
<1>2. /\ DOMAIN out = raw
      /\ \A x \in raw : out[x] =
           IF x \in new THEN e.puts[CHOOSE k \in DOMAIN e.puts : NsKey(d, k) = x] ELSE data[x]
  BY DEF Put
<1>3. ASSUME NEW k \in DOMAIN e.puts
      PROVE  out[NsKey(d, k)] = e.puts[k] /\ NsKey(d, k) \in raw
  <2> DEFINE j == CHOOSE i \in DOMAIN e.puts : NsKey(d, i) = NsKey(d, k)
  <2>1. j \in DOMAIN e.puts /\ NsKey(d, j) = NsKey(d, k)
    OBVIOUS
  <2> HIDE DEF j
  <2>2. j = k
    BY <2>1, NsDiffer
  <2> QED  BY <1>2, <2>2 DEF j
<1>4. ASSUME NEW k, IsName(k)
      PROVE  /\ NsKey(d, k) \in del <=> k \in e.dels
             /\ NsKey(d, k) \in new <=> k \in DOMAIN e.puts
  BY <1>4, NsDiffer
<1>5. ASSUME NEW c, c # d, NEW k, IsName(k) PROVE NsKey(c, k) \notin del \cup new
  BY <1>5, NsDiffer
<1>6. \A c : \A k :
        /\ k \in StripNs(c, DOMAIN data) <=> IsName(k) /\ NsKey(c, k) \in DOMAIN data
        /\ k \in StripNs(c, raw) <=> IsName(k) /\ NsKey(c, k) \in raw
  BY <1>1, Stripped
<1> HIDE DEF del, new, out
<1>7. ASSUME NEW c, c # d PROVE All(c, out) = All(c, data)
  <2>1. ASSUME NEW k, IsName(k)
        PROVE  /\ NsKey(c, k) \in raw <=> NsKey(c, k) \in DOMAIN data
               /\ NsKey(c, k) \in raw => out[NsKey(c, k)] = data[NsKey(c, k)]
    BY <1>2, <1>5, <1>7, <2>1
  <2> HIDE DEF raw
  <2>2. \A k : k \in StripNs(c, raw) <=> k \in StripNs(c, DOMAIN data)
    BY <1>6, <2>1
  <2>3. StripNs(c, raw) = StripNs(c, DOMAIN data)
    BY <2>2
  <2>4. \A k \in StripNs(c, raw) : out[NsKey(c, k)] = data[NsKey(c, k)]
    BY <1>6, <2>1
  <2> QED  BY <1>2, <2>3, <2>4 DEF All
<1>8. All(d, out) = Destinations!Edited(All(d, data), e)
  <2> DEFINE old == StripNs(d, DOMAIN data)
  <2>0. ASSUME NEW k, IsName(k)
        PROVE  /\ NsKey(d, k) \in raw <=>
                    (NsKey(d, k) \in DOMAIN data /\ k \notin e.dels) \/ k \in DOMAIN e.puts
               /\ NsKey(d, k) \in raw => out[NsKey(d, k)] =
                    IF k \in DOMAIN e.puts THEN e.puts[k] ELSE data[NsKey(d, k)]
    BY <1>2, <1>3, <1>4, <2>0
  <2>1. StripNs(d, raw) = (old \ e.dels) \cup DOMAIN e.puts
    <3> HIDE DEF raw
    <3>1. \A k : k \in StripNs(d, raw) <=> k \in (old \ e.dels) \cup DOMAIN e.puts
      BY <1>6, <2>0
    <3> QED  BY <3>1
  <2>2. ASSUME NEW k \in StripNs(d, raw)
        PROVE  out[NsKey(d, k)] = IF k \in DOMAIN e.puts THEN e.puts[k] ELSE data[NsKey(d, k)]
    <3> HIDE DEF raw
    <3> QED  BY <1>6, <2>0
  <2>3. \A k \in StripNs(d, raw) : k \notin DOMAIN e.puts => k \in old
    BY <2>1
  <2>4. All(d, data) = [k \in old |-> data[NsKey(d, k)]]
    BY DEF All
  <2>5. All(d, out) = [k \in StripNs(d, raw) |-> out[NsKey(d, k)]]
    BY <1>2 DEF All
  <2> HIDE DEF old, raw
  <2>6. Destinations!Edited(All(d, data), e) =
          [k \in (old \ e.dels) \cup DOMAIN e.puts |->
             IF k \in DOMAIN e.puts THEN e.puts[k] ELSE All(d, data)[k]]
    BY <2>4 DEF Destinations!Edited
  <2>7. \A k \in old : All(d, data)[k] = data[NsKey(d, k)]
    BY <2>4
  <2> QED  BY <2>1, <2>2, <2>3, <2>5, <2>6, <2>7
<1> QED  BY <1>1, <1>2, <1>7, <1>8 DEF out
-----------------------------------------------------------------------------
(* The runs: what a flush under way will publish is its edit of the file as
   the file is now, though it reloaded the file some steps ago.              *)
FlushInv(r) ==
  pc[r] \in Flushing =>
    /\ edit[r] \in Edits /\ \A k \in DOMAIN edit[r].puts \cup edit[r].dels : IsName(k)
    /\ mem[r] = Put(dest[r], file.data, edit[r])

IsolationInv ==
  /\ pc \in [Runs -> States] /\ dest \in [Runs -> Dests]
  /\ mem = [r \in Runs |-> mem[r]] /\ edit = [r \in Runs |-> edit[r]]
  /\ \A x \in DOMAIN file.data : IsKey(x)
  /\ \A r \in Runs : FlushInv(r)

PendingOf(r) == IF pc[r] \in Flushing THEN edit[r] ELSE None

LEMMA IsolationInit == Init => IsolationInv /\ Destinations!Init
<1> SUFFICES ASSUME Init PROVE IsolationInv /\ Destinations!Init
  OBVIOUS
<1>1. \A x \in DOMAIN file.data : IsKey(x)
  BY KeysAssumption DEF Init, Whole, Missing, Foreign, Corrupt, Newer, Empty
<1>2. pc = [r \in Runs |-> "new"] /\ dest \in [Runs -> Dests]
  BY DestsAssumption DEF Init
<1>3. IsolationInv
  BY <1>1, <1>2 DEF Init, IsolationInv, FlushInv, States, Flushing
<1>4. [r \in Runs |-> PendingOf(r)] = [r \in Runs |-> None]
  BY <1>2 DEF PendingOf, Flushing
<1> QED  BY <1>2, <1>3, <1>4 DEF Destinations!Init, PendingOf

(* A step that changes neither the file nor what is pending.                 *)
LEMMA IsolationIdle ==
  ASSUME IsolationInv, UNCHANGED file,
         pc' \in [Runs -> States], dest' \in [Runs -> Dests],
         mem' = [r \in Runs |-> mem'[r]], edit' = [r \in Runs |-> edit'[r]],
         \A r \in Runs : pc'[r] \in Flushing =>
           pc[r] \in Flushing /\ mem'[r] = mem[r] /\ edit'[r] = edit[r] /\ dest'[r] = dest[r]
  PROVE  IsolationInv'
<1>1. ASSUME NEW r \in Runs PROVE FlushInv(r)'
  BY DEF IsolationInv, FlushInv
<1> QED  BY <1>1 DEF IsolationInv

LEMMA IsolationBegin == IsolationInv /\ (\E r \in Runs : Begin(r)) => IsolationInv'
<1> SUFFICES ASSUME IsolationInv, NEW r \in Runs, Begin(r) PROVE IsolationInv'
  OBVIOUS
<1>1. CASE Start(r)
  BY <1>1, IsolationIdle DEF Start, IsolationInv, States, Flushing, files
<1>2. ASSUME NEW p \in Runs, Spawn(p, r) PROVE IsolationInv'
  BY <1>2, IsolationIdle DEF Spawn, IsolationInv, States, Flushing, files
<1>3. CASE Inherit(r) \/ Probe(r) \/ Probed(r) \/ Acquire(r)
  BY <1>3, IsolationIdle DEF Inherit, Probe, Probed, Acquire, IsolationInv, States,
                             Flushing, files, who
<1>4. CASE Refused(r)
  BY <1>4, IsolationIdle DEF Refused, Exit, Cleared, IsolationInv, States, Flushing, files
<1>5. CASE LoadStore(r)
  BY <1>5, IsolationIdle DEF LoadStore, Exit, Cleared, IsolationInv, States, Flushing, files, who
<1> QED  BY <1>1, <1>2, <1>3, <1>4, <1>5 DEF Begin

LEMMA IsolationEnd ==
  IsolationInv /\ ((\E r \in Runs : End(r) \/ HookOver(r)) \/ (\E gone \in SUBSET Runs : Kill(gone)))
    => IsolationInv'
<1>1. ASSUME IsolationInv, NEW r \in Runs, End(r) PROVE IsolationInv'
  BY <1>1, IsolationIdle DEF End, Exit, Cleared, IsolationInv, States, Flushing, files
<1>2. ASSUME IsolationInv, NEW r \in Runs, HookOver(r) PROVE IsolationInv'
  BY <1>2, IsolationIdle DEF HookOver, IsolationInv, States, Flushing, files, who
<1>3. ASSUME IsolationInv, NEW gone \in SUBSET Runs, Kill(gone) PROVE IsolationInv'
  BY <1>3, IsolationIdle DEF Kill, Exit, Cleared, IsolationInv, States, Flushing, files
<1> QED  BY <1>1, <1>2, <1>3

LEMMA IsolationFlush ==
  IsolationInv /\ (\E r \in Runs : \/ BackUp(r) \/ WriteTemp(r) \/ SyncTemp(r) \/ FailFlush(r)
                                   \/ Sanitize(r) \/ FailSanitize(r)) => IsolationInv'
<1> SUFFICES ASSUME IsolationInv, NEW r \in Runs,
                    \/ BackUp(r) \/ WriteTemp(r) \/ SyncTemp(r) \/ FailFlush(r)
                    \/ Sanitize(r) \/ FailSanitize(r)
             PROVE  IsolationInv'
  OBVIOUS
<1>1. CASE BackUp(r) \/ WriteTemp(r) \/ SyncTemp(r)
  BY <1>1, IsolationIdle DEF BackUp, WriteTemp, SyncTemp, IsolationInv, States, Flushing, files, who
<1>2. CASE FailFlush(r)
  BY <1>2, IsolationIdle DEF FailFlush, IsolationInv, States, Flushing, files, who
<1>3. CASE Sanitize(r) \/ FailSanitize(r)
  BY <1>3, IsolationIdle DEF Sanitize, FailSanitize, IsolationInv, States, Flushing, files, who
<1> QED  BY <1>1, <1>2, <1>3

(* The reload and the edit.                                                  *)
LEMMA MutateFacts ==
  ASSUME IsolationInv, NEW r \in Runs, Mutate(r)
  PROVE  /\ pc[r] = "idle" /\ UNCHANGED <<file, dest>>
         /\ \/ r \in dry /\ mem' = [mem EXCEPT ![r] = mem'[r]] /\ UNCHANGED <<pc, edit>>
            \/ \E e \in Edits :
                 /\ \A k \in DOMAIN e.puts \cup e.dels : IsName(k)
                 /\ mem' = [mem EXCEPT ![r] = Put(dest[r], file.data, e)]
                 /\ edit' = [edit EXCEPT ![r] = e]
                 /\ pc' = [pc EXCEPT ![r] = "flushing"]
<1>1. PICK e \in Edits :
        /\ Mutable(e)
        /\ IF r \in dry
           THEN /\ mem' = [mem EXCEPT ![r] = Put(dest[r], @, e)]
                /\ UNCHANGED <<pc, edit, prev, stale>>
           ELSE /\ Loads
                /\ prev' = [prev EXCEPT ![r] = Reloaded(r)]
                /\ mem' = [mem EXCEPT ![r] = Put(dest[r], Reloaded(r), e)]
                /\ edit' = [edit EXCEPT ![r] = e]
                /\ stale' = stale \ {r}
                /\ pc' = [pc EXCEPT ![r] = "flushing"]
  BY DEF Mutate
<1>2. pc[r] = "idle" /\ UNCHANGED <<file, dest>>
  BY DEF Mutate, who, files
<1>3. ASSUME NEW k \in DOMAIN e.puts \cup e.dels PROVE IsName(k)
  BY <1>1, KeysAssumption, KeyShape DEF Mutable, KeyIsNamespaceSafe
<1>4. CASE r \in dry
  BY <1>1, <1>2, <1>4 DEF IsolationInv
<1>5. CASE r \notin dry
  BY <1>1, <1>2, <1>3, <1>5 DEF Reloaded, Load
<1> QED  BY <1>4, <1>5

LEMMA IsolationMutate == IsolationInv /\ (\E r \in Runs : Mutate(r)) => IsolationInv'
<1> SUFFICES ASSUME IsolationInv, NEW r \in Runs, Mutate(r) PROVE IsolationInv'
  OBVIOUS
<1>1. pc[r] = "idle" /\ UNCHANGED <<file, dest>>
  BY MutateFacts
<1>2. CASE r \in dry /\ mem' = [mem EXCEPT ![r] = mem'[r]] /\ UNCHANGED <<pc, edit>>
  BY <1>1, <1>2, IsolationIdle DEF IsolationInv, States, Flushing
<1>3. ASSUME NEW e \in Edits, \A k \in DOMAIN e.puts \cup e.dels : IsName(k),
             mem' = [mem EXCEPT ![r] = Put(dest[r], file.data, e)],
             edit' = [edit EXCEPT ![r] = e], pc' = [pc EXCEPT ![r] = "flushing"]
      PROVE  IsolationInv'
  <2>1. mem'[r] = Put(dest[r], file.data, e) /\ edit'[r] = e
    BY <1>3 DEF IsolationInv
  <2>2. FlushInv(r)'
    BY <1>1, <1>3, <2>1 DEF FlushInv
  <2>3. ASSUME NEW q \in Runs, q # r PROVE FlushInv(q)'
    <3>1. mem'[q] = mem[q] /\ edit'[q] = edit[q] /\ pc'[q] = pc[q] /\ FlushInv(q)
      BY <1>3, <2>3 DEF IsolationInv
    <3> QED  BY <1>1, <3>1 DEF FlushInv
  <2> QED  BY <1>1, <1>3, <2>2, <2>3 DEF IsolationInv, States, Flushing
<1> QED  BY <1>2, <1>3, MutateFacts

(* The rename.  No other run is half way through a mutation of the map that
   is replaced.                                                              *)
LEMMA IsolationPublish ==
  IsolationInv /\ OneWriter /\ (\E r \in Runs : Publish(r)) => IsolationInv'
<1> SUFFICES ASSUME IsolationInv, OneWriter, NEW r \in Runs, Publish(r) PROVE IsolationInv'
  OBVIOUS
<1>1. /\ pc[r] = "synced" /\ file'.data = mem[r]
      /\ \/ pc' = [pc EXCEPT ![r] = "purging"] /\ edit' = edit
         \/ pc' = [pc EXCEPT ![r] = "idle"] /\ edit' = [edit EXCEPT ![r] = None]
      /\ UNCHANGED <<mem, dest>>
  BY DEF Publish, ReadyToRename, Whole, who
<1>2. \A x \in DOMAIN mem[r] : IsKey(x)
  <2>1. /\ mem[r] = Put(dest[r], file.data, edit[r])
        /\ \A k \in DOMAIN edit[r].puts \cup edit[r].dels : IsName(k)
        /\ \A x \in DOMAIN file.data : IsKey(x)
    BY <1>1 DEF IsolationInv, FlushInv, Flushing
  <2> QED  BY <2>1, PutIn
<1>3. ASSUME NEW q \in Runs PROVE FlushInv(q)'
  <2>1. pc'[q] \notin Flushing
    BY <1>1 DEF OneWriter, IsolationInv, Mutating, Flushing
  <2> QED  BY <2>1 DEF FlushInv
<1> QED  BY <1>1, <1>2, <1>3 DEF IsolationInv, States

LEMMA IsolationNext == IsolationInv /\ OneWriter /\ [Next]_vars => IsolationInv'
<1>1. ASSUME IsolationInv, UNCHANGED vars PROVE IsolationInv'
  BY <1>1, IsolationIdle DEF vars, files, who, IsolationInv
<1>2. ASSUME IsolationInv, OneWriter, Next PROVE IsolationInv'
  <2>1. CASE (\E r \in Runs : End(r) \/ HookOver(r)) \/ (\E gone \in SUBSET Runs : Kill(gone))
    BY <1>2, <2>1, IsolationEnd
  <2>2. ASSUME NEW r \in Runs, Begin(r) PROVE IsolationInv'
    BY <1>2, <2>2, IsolationBegin
  <2>3. ASSUME NEW r \in Runs, Store(r) PROVE IsolationInv'
    BY <1>2, <2>3, IsolationFlush, IsolationMutate, IsolationPublish DEF Store
  <2> QED  BY <1>2, <2>1, <2>2, <2>3 DEF Next
<1> QED  BY <1>1, <1>2

LEMMA IsolationInvariance == ASSUME ~Detached PROVE Spec => []IsolationInv
  BY OneWriterAtATime, IsolationInit, IsolationNext, PTL DEF Spec
-----------------------------------------------------------------------------
(* The steps, as the destinations see them.                                  *)
Stores   == [d \in Dests |-> All(d, file.data)]
Pendings == [r \in Runs |-> PendingOf(r)]
Unseen   == UNCHANGED <<Stores, Pendings, dest>>

LEMMA Seen ==
  /\ Stores = [d \in Dests |-> All(d, file.data)]
  /\ Pendings = [r \in Runs |-> IF pc[r] \in Flushing THEN edit[r] ELSE None]
  BY DEF Stores, Pendings, PendingOf

LEMMA UnseenStep ==
  ASSUME UNCHANGED <<file, dest>>, \A r \in Runs : PendingOf(r)' = PendingOf(r)
  PROVE  Unseen
  BY DEF Unseen, Stores, Pendings

(* Starting a run, by hand or in a hook, sets where it aims.                 *)
LEMMA SeenStart ==
  ASSUME IsolationInv, NEW r \in Runs, Start(r) \/ \E p \in Runs : Spawn(p, r)
  PROVE  Destinations!Next
<1>1. /\ pc[r] = "new" /\ file' = file /\ edit' = edit
      /\ \E d \in Dests : dest' = [dest EXCEPT ![r] = d]
      /\ \A q \in Runs : pc'[q] \in Flushing <=> pc[q] \in Flushing
  BY DEF Start, Spawn, files, IsolationInv, Flushing
<1>2. Stores' = Stores /\ Pendings' = Pendings /\ Pendings[r] = None
  BY <1>1 DEF Stores, Pendings, PendingOf, Flushing
<1>3. Destinations!Aim(r)
  BY <1>1, <1>2, Seen DEF Destinations!Aim, Stores, Pendings, PendingOf
<1> QED  BY <1>3 DEF Destinations!Next

LEMMA SeenMutate ==
  ASSUME IsolationInv, NEW r \in Runs, Mutate(r)
  PROVE  Destinations!Next \/ Unseen
<1>1. pc[r] = "idle" /\ UNCHANGED <<file, dest>>
  BY MutateFacts
<1>2. CASE UNCHANGED <<pc, edit>>
  BY <1>1, <1>2, UnseenStep DEF PendingOf
<1>3. ASSUME NEW e \in Edits, edit' = [edit EXCEPT ![r] = e],
             pc' = [pc EXCEPT ![r] = "flushing"]
      PROVE  Destinations!Next
  <2>1. /\ Pendings[r] = None /\ Pendings'[r] = e
        /\ Pendings' = [Pendings EXCEPT ![r] = e]
    BY <1>1, <1>3 DEF Pendings, PendingOf, IsolationInv, Flushing
  <2>2. e # None /\ Stores' = Stores
    BY <1>1, DestsAssumption DEF Stores
  <2>3. Destinations!Begin(r)
    BY <1>1, <2>1, <2>2 DEF Destinations!Begin, Stores, Pendings, PendingOf
  <2> QED  BY <2>3 DEF Destinations!Next
<1> QED  BY <1>2, <1>3, MutateFacts

(* The rename applies the edit to the map of the run's destination, as it is
   at that instant, and leaves the others as they are.                       *)
LEMMA SeenPublish ==
  ASSUME IsolationInv, NEW r \in Runs, Publish(r)
  PROVE  Destinations!Next
<1>1. /\ pc[r] = "synced" /\ file'.data = mem[r]
      /\ \/ pc' = [pc EXCEPT ![r] = "purging"] /\ edit' = edit
         \/ pc' = [pc EXCEPT ![r] = "idle"] /\ edit' = [edit EXCEPT ![r] = None]
      /\ UNCHANGED <<mem, dest>>
  BY DEF Publish, ReadyToRename, Whole, who
<1>2. /\ edit[r] \in Edits /\ \A k \in DOMAIN edit[r].puts \cup edit[r].dels : IsName(k)
      /\ mem[r] = Put(dest[r], file.data, edit[r]) /\ dest[r] \in Dests
      /\ \A x \in DOMAIN file.data : IsKey(x)
  BY <1>1 DEF IsolationInv, FlushInv, Flushing
<1>3. /\ All(dest[r], file'.data) = Destinations!Edited(All(dest[r], file.data), edit[r])
      /\ \A c : c # dest[r] => All(c, file'.data) = All(c, file.data)
  BY <1>1, <1>2, PutIn
<1>4. /\ Pendings[r] = edit[r] /\ edit[r] # None
      /\ Pendings' = [Pendings EXCEPT ![r] = None]
  BY <1>1, <1>2, DestsAssumption DEF Pendings, PendingOf, IsolationInv, Flushing
<1>5. Stores' = [Stores EXCEPT ![dest[r]] = Destinations!Edited(@, Pendings[r])]
  BY <1>1, <1>2, <1>3, <1>4 DEF Stores
<1>6. Destinations!Apply(r)
  BY <1>1, <1>4, <1>5 DEF Destinations!Apply, Stores, Pendings, PendingOf
<1> QED  BY <1>6 DEF Destinations!Next

LEMMA SeenAbort ==
  ASSUME IsolationInv, UNCHANGED <<file, dest>>, NEW gone \in SUBSET Runs,
         \A r \in Runs : PendingOf(r)' = IF r \in gone THEN None ELSE PendingOf(r)
  PROVE  Destinations!Next
<1>1. Stores' = Stores
  BY DEF Stores
<1>2. Pendings' = [r \in Runs |-> IF r \in gone THEN None ELSE Pendings[r]]
  BY DEF Pendings
<1>3. Destinations!Abort
  BY <1>1, <1>2 DEF Destinations!Abort, Stores, Pendings, PendingOf
<1> QED  BY <1>3 DEF Destinations!Next

LEMMA SeenEnd ==
  ASSUME IsolationInv,
         \/ \E r \in Runs : FailFlush(r)
         \/ \E gone \in SUBSET Runs : Kill(gone)
  PROVE  Destinations!Next
<1>1. ASSUME NEW r \in Runs, FailFlush(r) PROVE Destinations!Next
  <2>1. UNCHANGED <<file, dest>>
    BY <1>1 DEF FailFlush, files, who
  <2>2. \A q \in Runs : PendingOf(q)' = IF q \in {r} THEN None ELSE PendingOf(q)
    BY <1>1 DEF FailFlush, PendingOf, IsolationInv, Flushing
  <2>3. {r} \in SUBSET Runs
    OBVIOUS
  <2> QED  BY <2>1, <2>2, <2>3, SeenAbort
<1>2. ASSUME NEW gone \in SUBSET Runs, Kill(gone) PROVE Destinations!Next
  <2>1. UNCHANGED <<file, dest>>
    BY <1>2 DEF Kill, Exit, files
  <2>2. \A q \in Runs : PendingOf(q)' = IF q \in gone THEN None ELSE PendingOf(q)
    BY <1>2 DEF Kill, Exit, Cleared, PendingOf, IsolationInv, Flushing
  <2> QED  BY <2>1, <2>2, SeenAbort
<1> QED  BY <1>1, <1>2

LEMMA SeenRest ==
  ASSUME IsolationInv, NEW r \in Runs,
         \/ Inherit(r) \/ Probe(r) \/ Probed(r) \/ Acquire(r) \/ Refused(r) \/ LoadStore(r)
         \/ BackUp(r) \/ WriteTemp(r) \/ SyncTemp(r) \/ Sanitize(r) \/ FailSanitize(r)
         \/ End(r) \/ HookOver(r)
  PROVE  Unseen
<1>1. CASE Inherit(r) \/ Probe(r) \/ Probed(r) \/ Acquire(r)
  BY <1>1, UnseenStep DEF Inherit, Probe, Probed, Acquire, PendingOf, IsolationInv, Flushing,
     files, who
<1>2. CASE Refused(r)
  BY <1>2, UnseenStep DEF Refused, Exit, Cleared, PendingOf, IsolationInv, Flushing, files
<1>3. CASE LoadStore(r)
  BY <1>3, UnseenStep DEF LoadStore, Exit, Cleared, PendingOf, IsolationInv, Flushing, files, who
<1>4. CASE BackUp(r) \/ WriteTemp(r) \/ SyncTemp(r)
  BY <1>4, UnseenStep DEF BackUp, WriteTemp, SyncTemp, PendingOf, IsolationInv, Flushing, files, who
<1>5. CASE Sanitize(r) \/ FailSanitize(r)
  BY <1>5, UnseenStep DEF Sanitize, FailSanitize, PendingOf, IsolationInv, Flushing, files, who
<1>6. CASE End(r)
  BY <1>6, UnseenStep DEF End, Exit, Cleared, PendingOf, IsolationInv, Flushing, files
<1>7. CASE HookOver(r)
  BY <1>7, UnseenStep DEF HookOver, PendingOf, IsolationInv, Flushing, files, who
<1> QED  BY <1>1, <1>2, <1>3, <1>4, <1>5, <1>6, <1>7

LEMMA SeenNext == IsolationInv /\ [Next]_vars => Destinations!Next \/ Unseen
<1>1. ASSUME UNCHANGED vars PROVE Unseen
  BY <1>1, UnseenStep DEF vars, files, who, PendingOf
<1>2. ASSUME IsolationInv, NEW r \in Runs, Begin(r) \/ Store(r) \/ End(r) \/ HookOver(r)
      PROVE  Destinations!Next \/ Unseen
  BY <1>2, SeenStart, SeenMutate, SeenPublish, SeenEnd, SeenRest DEF Begin, Store
<1>3. ASSUME IsolationInv, NEW gone \in SUBSET Runs, Kill(gone) PROVE Destinations!Next
  BY <1>3, SeenEnd
<1> QED  BY <1>1, <1>2, <1>3 DEF Next

(* Every change of the file is one whole edit of one run on the map of its own
   destination, as the file holds it then: no edit of another run is lost and
   no other destination changes, as long as no nested run outlives its hook.  *)
THEOREM EditsAreIsolated == ASSUME ~Detached PROVE Spec => Isolated
<1>1. Unseen =>
        UNCHANGED <<[d \in Dests |-> All(d, file.data)],
                    [r \in Runs |-> IF pc[r] \in Flushing THEN edit[r] ELSE None], dest>>
  BY DEF Unseen, Stores, Pendings, PendingOf
<1> QED
  BY <1>1, IsolationInit, IsolationInvariance, SeenNext, PTL
  DEF Spec, Isolated, Destinations!Spec
=============================================================================
