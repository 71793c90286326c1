----------------------------- MODULE RelayStore -----------------------------
(***************************************************************************)
(* The relay's file store (packages/relay/src/file-store.ts): all records  *)
(* in memory, and one snapshot file that every put rewrites through a      *)
(* temporary file and a rename.  A put that cannot be persisted throws     *)
(* after rolling memory back.                                              *)
(*                                                                         *)
(* Records are JavaScript objects.  A put of a fresh record is rolled back *)
(* to the record before it.  A put of the very object that is already in   *)
(* the map, changed in place, is rolled back to itself.                    *)
(***************************************************************************)
EXTENDS Naturals

CONSTANTS MaxFailures, MaxBoots   \* bounds of the model

VARIABLES
    mem,        \* the maps
    disk,       \* the snapshot file
    up,         \* a process has the store open
    locked,     \* the lock file exists
    failures,   \* writes that failed
    boots

storeVars == <<mem, disk, up, locked, failures, boots>>

StoreInit(snapshot) ==
    /\ mem = snapshot
    /\ disk = snapshot
    /\ up = TRUE
    /\ locked = TRUE
    /\ failures = 0
    /\ boots = 1

\* Mutant: a put that is not persisted.
PersistedInMemory(new) == mem' = new /\ UNCHANGED <<disk, up, locked, failures, boots>>

(* persist succeeded.                                                      *)
Persisted(new) ==
    /\ mem' = new
    /\ disk' = new
    /\ UNCHANGED <<up, locked, failures, boots>>

(* persist threw; memory is left as the rollback makes it.                 *)
RolledBackTo(rolled) ==
    /\ failures < MaxFailures
    /\ failures' = failures + 1
    /\ mem' = rolled
    /\ UNCHANGED <<disk, up, locked, boots>>

(* The process dies with the snapshot written on disk: its lock file stays *)
(* and its memory is gone.                                                 *)
DiesWith(written) ==
    /\ up' = FALSE
    /\ disk' = written
    /\ mem' = written
    /\ UNCHANGED <<locked, failures, boots>>

(* How a put ends: it is persisted, it throws, or the process dies between *)
(* the rename and the answer.                                              *)
Outcomes == {"ok", "failed", "died"}

(* putX of a fresh record: the rollback puts the old record back.          *)
PutCopy(new, o) ==
    \/ o = "ok" /\ Persisted(new)
    \/ o = "failed" /\ RolledBackTo(mem)
    \/ o = "died" /\ DiesWith(new)

(* putX of the object in the map, already changed: the rollback puts the   *)
(* changed record back.                                                    *)
PutInPlace(new, o) ==
    \/ o = "ok" /\ Persisted(new)
    \/ o = "failed" /\ RolledBackTo(new)
    \/ o = "died" /\ DiesWith(new)

Crash == up /\ DiesWith(disk)

(* close releases the lock.                                                *)
Close ==
    /\ up
    /\ up' = FALSE
    /\ locked' = FALSE
    /\ mem' = disk
    /\ UNCHANGED <<disk, failures, boots>>

(* A crashed process's lock is removed by an operator.                     *)
RemoveLock ==
    /\ ~up /\ locked
    /\ locked' = FALSE
    /\ UNCHANGED <<mem, disk, up, failures, boots>>

(* The constructor: acquireLock, load, rebuildIndexes.                     *)
Open ==
    /\ ~up /\ ~locked
    /\ boots < MaxBoots
    /\ boots' = boots + 1
    /\ up' = TRUE
    /\ locked' = TRUE
    /\ mem' = disk
    /\ UNCHANGED <<disk, failures>>

(* "Memory and disk are therefore never left inconsistent after a single   *)
(* failed mutation" (file-store.ts:17).                                    *)
MemoryIsDisk == up => mem = disk
=============================================================================
