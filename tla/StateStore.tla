---------------------------- MODULE StateStore ----------------------------
(* The deployment state of a project (engine/state.rs): .energize/state.json,
   its backup and its lock file, shared by every nrg process started in the
   project.  A process is a run; a run may start nested runs (a hook that
   calls nrg), which recognise the lock of their ancestor by NRG_STATE_LOCK.

   A raw key of the file is a sequence: <<k>> in the default destination and
   <<d, k>> in destination d ("d/k" on disk).  A key a script passes is one
   too: <<k>>, or <<d, k>> when it contains a slash.                        *)
EXTENDS Naturals, Sequences, FiniteSets

CONSTANTS
  Runs,      \* processes, standing for their process ids (never reused)
  Dests,     \* destinations, Default among them
  Default,
  Edits,     \* what scripts ask for: [kind, puts, dels], keys as sequences
  Stored,    \* maps a state file may hold when the model starts
  Detached,  \* may a nested run outlive the command that started it?
  MaxEdits,  \* bound: mutations begun, over all runs
  None

ASSUME DestsAssumption ==
  /\ Default \in Dests /\ Detached \in BOOLEAN /\ MaxEdits \in Nat
  /\ None \notin Runs \cup Edits
ASSUME EditsAssumption == \A e \in Edits : e.kind = "purge" => DOMAIN e.puts = {}

(* The parts of a key, between slashes.  The code writes one or two; a file
   edited by hand may have more, and no destination sees such a key.        *)
IsKey(k) == k \in Seq({k[i] : i \in DOMAIN k})
ASSUME KeysAssumption ==
  /\ \A e \in Edits  : \A k \in DOMAIN e.puts \cup e.dels : IsKey(k)
  /\ \A m \in Stored : \A k \in DOMAIN m : IsKey(k)

Empty   == [k \in {} |-> k]
Whole(map) == [is |-> "whole", data |-> map]
Missing == [is |-> "missing", data |-> Empty]    \* no file
Corrupt == [is |-> "corrupt", data |-> Empty]    \* does not parse
Newer   == [is |-> "newer", data |-> Empty]      \* written by a later nrg
Torn    == [is |-> "torn", data |-> Empty]       \* half of a write
Foreign == {Corrupt, Newer}

VARIABLES
  file,     \* state.json: Missing, Foreign or Whole a map
  bak,      \* state.json.bak: Missing, Torn or Whole a map
  flock,    \* the run that holds state.lock, or None
  pc,       \* where a run is
  env,      \* NRG_STATE_LOCK of a run: the pid in it, or None
  parent,   \* the run whose hook started it, or None
  dest,     \* its destination
  dry,      \* the runs that only plan
  mem,      \* StateStore.data
  edit,     \* the mutation in progress
  prev,     \* StateStore.update: previous
  begun,    \* mutations begun
  versions, \* all state.json has held, or could have held after a power cut
  stale,    \* runs whose memory holds what a failed set or del wrote
  purged    \* raw keys purged successfully and not written since

files == <<file, bak>>
who   == <<env, parent, dest, dry>>
vars  == <<file, bak, flock, pc, env, parent, dest, dry, mem, edit, prev,
           begun, versions, stale, purged>>

(* ------------------------- keys and destinations ------------------------ *)
AnyKey(k) == k # <<>>                                               \* mutant
KeyIsNamespaceSafe(k) ==
  Len(k) = 1
NsKey(d, k) == IF d = Default THEN k ELSE <<d>> \o k

(* The keys of destination d among the raw keys, without their prefix.      *)
StripNs(d, raw) ==
  IF d = Default THEN {k \in raw : Len(k) = 1}
  ELSE {<<k[2]>> : k \in {x \in raw : Len(x) = 2 /\ x[1] = d}}

(* StateStore::all: what a run in destination d sees of the map.            *)
All(d, data) == [k \in StripNs(d, DOMAIN data) |-> data[NsKey(d, k)]]

(* A raw map after an edit made in destination d.                           *)
Put(d, data, e) ==
  LET del == {NsKey(d, k) : k \in e.dels}
      new == {NsKey(d, k) : k \in DOMAIN e.puts}
  IN  [x \in (DOMAIN data \ del) \cup new |->
         IF x \in new THEN e.puts[CHOOSE k \in DOMAIN e.puts : NsKey(d, k) = x]
         ELSE data[x]]

RawKeys(r, ks) == {NsKey(dest[r], k) : k \in ks}
Flushing == {"flushing", "writing", "written", "synced"}
Mutating == Flushing \cup {"purging"}

(* ------------------------------- loading -------------------------------- *)
LoadsAll == file \in {file}                                          \* mutant
Loads ==
  file \notin Foreign
Load  == file.data

(* ------------------------------- the lock ------------------------------- *)
Alive(r)     == pc[r] \notin {"new", "ended", "refused"}
BareMatch(r) == env[r] # None                                        \* mutant
Reentrant(r) ==
  env[r] # None /\ Alive(env[r])

(* Processes end: the kernel frees their lock, their memory is gone.        *)
Cleared(f, gone, v) == [r \in Runs |-> IF r \in gone THEN v ELSE f[r]]
Exit(gone) ==
  /\ flock' = IF flock \in gone THEN None ELSE flock
  /\ env' = Cleared(env, gone, None) /\ parent' = Cleared(parent, gone, None)
  /\ mem' = Cleared(mem, gone, Empty) /\ prev' = Cleared(prev, gone, Empty)
  /\ edit' = Cleared(edit, gone, None) /\ stale' = stale \ gone
  /\ UNCHANGED <<files, dest, dry, begun, versions, purged>>

Init ==
  /\ file \in {Whole(map) : map \in Stored} \cup {Missing} \cup Foreign
  /\ bak = Missing
  /\ flock = None
  /\ pc = [r \in Runs |-> "new"]
  /\ env = [r \in Runs |-> None]
  /\ parent = [r \in Runs |-> None]
  /\ dest = [r \in Runs |-> Default]
  /\ dry = {}
  /\ mem = [r \in Runs |-> Empty]
  /\ edit = [r \in Runs |-> None]
  /\ prev = [r \in Runs |-> Empty]
  /\ begun = 0
  /\ versions = {file}
  /\ stale = {}
  /\ purged = {}

(* --------------------------- starting a run ----------------------------- *)
(* wire_run.  A run started by hand has no NRG_STATE_LOCK, or one leaked by a
   shell that outlived the run it came from; a nested run has its parent's. *)
Start(r) ==
  /\ pc[r] = "new"
  /\ \E v \in {None} \cup {q \in Runs : pc[q] # "new" /\ ~Alive(q)} :
       env' = [env EXCEPT ![r] = v]
  /\ \E d \in Dests : dest' = [dest EXCEPT ![r] = d]
  /\ \/ dry' = dry \cup {r} /\ pc' = [pc EXCEPT ![r] = "loading"]
     \/ dry' = dry /\ pc' = [pc EXCEPT ![r] = "locking"]
  /\ UNCHANGED <<files, flock, parent, mem, edit, prev, begun, versions, stale, purged>>

Spawn(p, r) ==
  /\ pc[p] = "idle" /\ p \notin dry /\ pc[r] = "new"
  /\ env' = [env EXCEPT ![r] = env[p]]
  /\ parent' = [parent EXCEPT ![r] = p]
  /\ \E d \in Dests : dest' = [dest EXCEPT ![r] = d]
  /\ pc' = [pc EXCEPT ![p] = "waiting", ![r] = "locking"]
  /\ UNCHANGED <<files, flock, dry, mem, edit, prev, begun, versions, stale, purged>>

Inherit(r) ==
  /\ pc[r] = "locking" /\ Reentrant(r)
  /\ pc' = [pc EXCEPT ![r] = "loading"]
  /\ UNCHANGED <<files, flock, who, mem, edit, prev, begun, versions, stale, purged>>

(* try_write, which takes the lock for an instant when it only probes it.   *)
Probe(r) ==
  /\ pc[r] = "locking" /\ ~Reentrant(r) /\ flock = None
  /\ flock' = r /\ pc' = [pc EXCEPT ![r] = "probing"]
  /\ UNCHANGED <<files, who, mem, edit, prev, begun, versions, stale, purged>>

Probed(r) ==
  /\ pc[r] = "probing"
  /\ flock' = None /\ pc' = [pc EXCEPT ![r] = "probed"]
  /\ UNCHANGED <<files, who, mem, edit, prev, begun, versions, stale, purged>>

Acquire(r) ==     \* write(), or the try_write that follows the probe
  /\ \/ pc[r] = "probed"
     \/ pc[r] = "locking" /\ ~Reentrant(r)
  /\ flock = None
  /\ flock' = r /\ env' = [env EXCEPT ![r] = r]
  /\ pc' = [pc EXCEPT ![r] = "loading"]
  /\ UNCHANGED <<files, parent, dest, dry, mem, edit, prev, begun, versions, stale, purged>>

Refused(r) ==     \* --lock-timeout is over, or the lock went in the gap
  /\ \/ pc[r] = "probed"
     \/ pc[r] = "locking" /\ ~Reentrant(r)
  /\ flock # None
  /\ pc' = [pc EXCEPT ![r] = "refused"] /\ Exit({r})

LoadStore(r) ==   \* load or load_overlay, and the lock goes if it fails
  /\ pc[r] = "loading"
  /\ \/ /\ Loads
        /\ mem' = [mem EXCEPT ![r] = Load]
        /\ pc' = [pc EXCEPT ![r] = "idle"]
        /\ UNCHANGED <<files, flock, who, edit, prev, begun, versions, stale, purged>>
     \/ /\ ~Loads
        /\ pc' = [pc EXCEPT ![r] = "ended"] /\ Exit({r})

(* ------------------------------ mutations ------------------------------- *)
(* set, del, update and purge up to the flush.  The ones that are refused or
   cannot reload leave memory alone; a dry run edits its overlay only.      *)
Reloaded(r) ==
  Load
Mutable(e) == \A k \in DOMAIN e.puts \cup e.dels : KeyIsNamespaceSafe(k)

Mutate(r) ==
  /\ pc[r] = "idle" /\ begun < MaxEdits
  /\ \E e \in Edits :
       /\ Mutable(e)
       /\ IF r \in dry
          THEN /\ mem' = [mem EXCEPT ![r] = Put(dest[r], @, e)]
               /\ UNCHANGED <<pc, edit, prev, stale>>
          ELSE /\ Loads
               /\ prev' = [prev EXCEPT ![r] = Reloaded(r)]
               /\ mem' = [mem EXCEPT ![r] = Put(dest[r], Reloaded(r), e)]
               /\ edit' = [edit EXCEPT ![r] = e]
               /\ stale' = stale \ {r}
               /\ pc' = [pc EXCEPT ![r] = "flushing"]
  /\ begun' = begun + 1
  /\ UNCHANGED <<files, flock, who, versions, purged>>

Copied(r) ==
  file
(* flush: the backup is best effort and not atomic.                         *)
BackUp(r) ==
  /\ pc[r] = "flushing"
  /\ IF file = Missing THEN UNCHANGED bak ELSE bak' \in {Copied(r), bak, Torn}
  /\ pc' = [pc EXCEPT ![r] = "writing"]
  /\ UNCHANGED <<file, flock, who, mem, edit, prev, begun, versions, stale, purged>>

WriteTemp(r) ==
  /\ pc[r] = "writing"
  /\ pc' = [pc EXCEPT ![r] = "written"]
  /\ UNCHANGED <<files, flock, who, mem, edit, prev, begun, versions, stale, purged>>

SyncTemp(r) ==
  /\ pc[r] = "written"
  /\ pc' = [pc EXCEPT ![r] = "synced"]
  /\ UNCHANGED <<files, flock, who, mem, edit, prev, begun, versions, stale, purged>>

Unsynced(r) == pc[r] \in {"written", "synced"}                        \* mutant
ReadyToRename(r) ==
  pc[r] = "synced"

(* What a power cut right after the rename would leave under the name.      *)
AfterPowerCut(r) == IF pc[r] = "synced" THEN Whole(mem[r]) ELSE Torn

(* persist: the rename.                                                     *)
Publish(r) ==
  /\ ReadyToRename(r)
  /\ file' = Whole(mem[r])
  /\ versions' = versions \cup {file', AfterPowerCut(r)}
  /\ purged' = purged \ RawKeys(r, DOMAIN edit[r].puts)
  /\ IF edit[r].kind = "purge"
     THEN pc' = [pc EXCEPT ![r] = "purging"] /\ UNCHANGED edit
     ELSE pc' = [pc EXCEPT ![r] = "idle"] /\ edit' = [edit EXCEPT ![r] = None]
  /\ prev' = [prev EXCEPT ![r] = Empty]
  /\ UNCHANGED <<bak, flock, who, mem, begun, stale>>

(* The directory, the temporary file, its fsync or the rename fails: update
   and purge restore what they had reloaded, set and del do not.            *)
KeepsAll(r) == mem[r]                                                 \* mutant
Restored(r) ==
  IF edit[r].kind \in {"update", "purge"} THEN prev[r] ELSE mem[r]

FailFlush(r) ==
  /\ pc[r] \in Flushing
  /\ mem' = [mem EXCEPT ![r] = Restored(r)]
  /\ stale' = IF edit[r].kind \in {"update", "purge"} THEN stale \ {r}
                                                      ELSE stale \cup {r}
  /\ edit' = [edit EXCEPT ![r] = None]
  /\ prev' = [prev EXCEPT ![r] = Empty]
  /\ pc' = [pc EXCEPT ![r] = "idle"]
  /\ UNCHANGED <<files, flock, who, begun, versions, purged>>

(* purge: the backup is replaced by a copy of the state, or the run is told
   that only the state was purged.                                          *)
OldBackup == bak                                                      \* mutant
Sanitized ==
  file

Sanitize(r) ==
  /\ pc[r] = "purging"
  /\ bak' = Sanitized
  /\ purged' = purged \cup RawKeys(r, edit[r].dels)
  /\ edit' = [edit EXCEPT ![r] = None]
  /\ pc' = [pc EXCEPT ![r] = "idle"]
  /\ UNCHANGED <<file, flock, who, mem, prev, begun, versions, stale>>

FailSanitize(r) ==
  /\ pc[r] = "purging"
  /\ edit' = [edit EXCEPT ![r] = None]
  /\ pc' = [pc EXCEPT ![r] = "idle"]
  /\ UNCHANGED <<files, flock, who, mem, prev, begun, versions, stale, purged>>

(* ------------------------------ ends of runs ---------------------------- *)
End(r) ==
  /\ pc[r] = "idle"
  /\ pc' = [pc EXCEPT ![r] = "ended"] /\ Exit({r})

(* The hook is over: its command ended, or was given up with its processes. *)
HookOver(p) ==
  /\ pc[p] = "waiting"
  /\ Detached \/ \A r \in Runs : parent[r] # p
  /\ pc' = [pc EXCEPT ![p] = "idle"]
  /\ UNCHANGED <<files, flock, who, mem, edit, prev, begun, versions, stale, purged>>

(* Processes are killed at any point.                                       *)
Kill(gone) ==
  /\ gone # {} /\ \A r \in gone : Alive(r)
  /\ Detached \/ \A r \in Runs : parent[r] \in gone => r \in gone
  /\ pc' = Cleared(pc, gone, "ended") /\ Exit(gone)

Begin(r) == \/ Start(r) \/ \E p \in Runs : Spawn(p, r)
            \/ Inherit(r) \/ Probe(r) \/ Probed(r) \/ Acquire(r) \/ Refused(r)
            \/ LoadStore(r)

Store(r) == \/ Mutate(r) \/ BackUp(r) \/ WriteTemp(r) \/ SyncTemp(r)
            \/ Publish(r) \/ FailFlush(r) \/ Sanitize(r) \/ FailSanitize(r)

Next == \/ \E r \in Runs : Begin(r) \/ Store(r) \/ End(r) \/ HookOver(r)
        \/ \E gone \in SUBSET Runs : Kill(gone)

Spec == Init /\ [][Next]_vars

---------------------------------------------------------------------------
Maps == {f \in versions : f.is = "whole"}

TypeOK ==
  /\ file \in Maps \cup Foreign \cup {Missing}
  /\ bak \in versions \cup {Missing, Torn}
  /\ flock \in Runs \cup {None}
  /\ pc \in [Runs -> Flushing \cup {"new", "locking", "probing", "probed",
               "refused", "loading", "idle", "waiting", "purging", "ended"}]
  /\ env \in [Runs -> Runs \cup {None}] /\ parent \in [Runs -> Runs \cup {None}]
  /\ dest \in [Runs -> Dests] /\ dry \subseteq Runs /\ stale \subseteq Runs
  /\ edit \in [Runs -> Edits \cup {None}]
  /\ begun \in 0 .. MaxEdits

(* One writer: between the reload of a mutation and its rename no other run
   is anywhere in a mutation of its own (wire_run, lock_is_reentrant).      *)
OneWriter ==
  \A r, q \in Runs : pc[r] \in Mutating /\ pc[q] \in Mutating => r = q

(* A state file that cannot be read is never replaced: not at the start of a
   run, and not by a run that loaded an earlier file (load, reload).        *)
ForeignFileKept == [][file' = file \/ file \notin Foreign]_vars

(* Whatever the moment of a power cut, state.json holds a whole map that was
   published, or what nrg found there: the fsync precedes the rename.       *)
WholeAfterPowerCut == Torn \notin versions

(* Credentials a purge reported gone are neither in the state nor in its
   backup, whatever run writes either file next (purge).                    *)
PurgedStaysPurged ==
  DOMAIN file.data \cap purged = {} /\ DOMAIN bak.data \cap purged = {}

(* A script that catches a failed mutation goes on reading a map that was on
   disk, except after set and del, which keep what they could not write
   until the next mutation reloads (StateStore::update).                    *)
ReadsWhatWasOnDisk ==
  \A r \in Runs \ (dry \cup stale) :
     pc[r] \in {"idle", "waiting"} => mem[r] \in {f.data : f \in versions}

(* Every change of the file is one whole edit of one run, applied to the map
   of its destination as the file holds it then: nothing written by another
   run, or for another destination, is lost or changed.                     *)
Destinations == INSTANCE DestStores WITH
  stores  <- [d \in Dests |-> All(d, file.data)],
  pending <- [r \in Runs |-> IF pc[r] \in Flushing THEN edit[r] ELSE None],
  aim     <- dest
Isolated == Destinations!Spec
===========================================================================
