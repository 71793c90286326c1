--------------------------- MODULE SessionDirLock ---------------------------
(***************************************************************************)
(* The lock of a session directory: acquireLock and releaseLock            *)
(* (packages/adapter-core/src/file-session-store.mjs), run by processes    *)
(* that share nothing but the directory.  Every file system call is a step *)
(* of its own: the exclusive create, the write of the content, the read,   *)
(* the liveness probe, the unlink.                                         *)
(***************************************************************************)
EXTENDS Naturals, FiniteSets

CONSTANTS
    Procs,
    MaxNonce,       \* bound on the acquisitions, each with a fresh nonce
    MaxCrashes,     \* bound on the crashes
    None            \* no lock file, nothing read

VARIABLES
    file,           \* the lock file: None, an empty file, or its content
    pc,             \* where each process is in acquireLock or releaseLock
    read,           \* the content it read last
    mine,           \* the nonce acquireLock returned to it
    up,             \* the processes alive
    attempt,        \* the attempts acquireLock has made
    nonces, crashes,
    raced           \* a lock was removed while another process judged it

vars == <<file, pc, read, mine, up, attempt, nonces, crashes, raced>>

Content(p, n) == [pid |-> p, nonce |-> n]
Created(n) == Content(None, n)        \* created, content not yet written
Unreadable(f) == f = None \/ f.pid = None

Init ==
    /\ file = None
    /\ pc = [p \in Procs |-> "idle"]
    /\ read = [p \in Procs |-> None]
    /\ mine = [p \in Procs |-> 0]
    /\ up = Procs
    /\ attempt = [p \in Procs |-> 0]
    /\ nonces = 0
    /\ crashes = 0
    /\ raced = FALSE

Goto(p, l) == pc' = [pc EXCEPT ![p] = l]

Start(p) ==
    /\ pc[p] = "idle"
    /\ Goto(p, "create")
    /\ attempt' = [attempt EXCEPT ![p] = 1]
    /\ UNCHANGED <<file, read, mine, up, nonces, crashes, raced>>

(* The exclusive create: it makes an empty file, or fails with EEXIST.     *)
Create(p) ==
    /\ pc[p] = "create"
    /\ nonces < MaxNonce
    /\ IF file = None
       THEN /\ file' = Created(nonces + 1)
            /\ nonces' = nonces + 1
            /\ mine' = [mine EXCEPT ![p] = nonces + 1]
            /\ Goto(p, "write")
       ELSE /\ Goto(p, "read")
            /\ UNCHANGED <<file, nonces, mine>>
    /\ UNCHANGED <<read, up, attempt, crashes, raced>>

(* The write of the pid and the nonce goes to the file that was created,   *)
(* which is lost when another process has unlinked it meanwhile.           *)
Write(p) ==
    /\ pc[p] = "write"
    /\ file' = IF file = Created(mine[p]) THEN Content(p, mine[p]) ELSE file
    /\ Goto(p, "held")
    /\ UNCHANGED <<read, mine, up, attempt, nonces, crashes, raced>>

(* isPidAlive                                                              *)
Stale(holder) == holder.pid \notin up

(* The lock exists: an unreadable one is refused, a missing one (the read  *)
(* throws) as well; otherwise its holder is probed.                        *)
ReadHolder(p) ==
    /\ pc[p] = "read"
    /\ IF Unreadable(file)
       THEN Goto(p, "idle") /\ UNCHANGED read
       ELSE Goto(p, "probe") /\ read' = [read EXCEPT ![p] = file]
    /\ UNCHANGED <<file, mine, up, attempt, nonces, crashes, raced>>

Probe(p) ==
    /\ pc[p] = "probe"
    /\ Goto(p, IF Stale(read[p]) THEN "unlink" ELSE "idle")
    /\ UNCHANGED <<file, read, mine, up, attempt, nonces, crashes, raced>>

(* p takes the file away while another process is between its read of that *)
(* file and its own unlink.                                                *)
TakesAway(p) ==
    raced' = (raced \/ \E q \in up \ {p} : /\ pc[q] \in {"probe", "unlink"}
                                          /\ read[q] = file)

(* Reclaim: unlink, where a missing file is not an error, then one more    *)
(* attempt at the create.                                                  *)
Unlink(p) ==
    /\ pc[p] = "unlink"
    /\ file' = None
    /\ TakesAway(p)
    /\ IF attempt[p] < 2
       THEN Goto(p, "create") /\ attempt' = [attempt EXCEPT ![p] = @ + 1]
       ELSE Goto(p, "idle") /\ UNCHANGED attempt
    /\ UNCHANGED <<read, mine, up, nonces, crashes>>

(* dispose, and a second dispose of a store already closed.                *)
Dispose(p) ==
    /\ pc[p] \in {"held", "idle"}
    /\ mine[p] # 0
    /\ Goto(p, "release")
    /\ UNCHANGED <<file, read, mine, up, attempt, nonces, crashes, raced>>

\* Mutant: releaseLock that trusts the caller to be the holder.
OwnsAlways(content, nonce) == content # None

(* releaseLock: only a readable lock that still has this nonce.            *)
Owns(content, nonce) == ~Unreadable(content) /\ content.nonce = nonce

ReleaseRead(p) ==
    /\ pc[p] = "release"
    /\ Goto(p, IF Owns(file, mine[p]) THEN "remove" ELSE "idle")
    /\ UNCHANGED <<file, read, mine, up, attempt, nonces, crashes, raced>>

Remove(p) ==
    /\ pc[p] = "remove"
    /\ file' = None
    /\ TakesAway(p)
    /\ Goto(p, "idle")
    /\ UNCHANGED <<read, mine, up, attempt, nonces, crashes>>

(* The end of a process.  A crash never runs dispose; the process that     *)
(* starts again has a new pid and is another member of Procs.              *)
End(p) ==
    /\ up' = up \ {p}
    /\ Goto(p, "dead")
    /\ UNCHANGED <<file, read, mine, attempt, nonces, raced>>

Exit(p) ==
    /\ p \in up
    /\ pc[p] = "idle"
    /\ End(p)
    /\ UNCHANGED crashes

Crash(p) ==
    /\ p \in up
    /\ pc[p] # "idle"
    /\ crashes < MaxCrashes
    /\ crashes' = crashes + 1
    /\ End(p)

Next ==
    \E p \in Procs :
        \/ Start(p) \/ Create(p) \/ Write(p) \/ ReadHolder(p) \/ Probe(p)
        \/ Unlink(p) \/ Dispose(p) \/ ReleaseRead(p) \/ Remove(p) \/ Exit(p)
        \/ Crash(p)

Spec == Init /\ [][Next]_vars
-----------------------------------------------------------------------------
Writers == {p \in up : pc[p] = "held"}

(* "only one store may write to a given session dir at a time"             *)
(* (acquireLock's refusal), and no other process removes a live writer's   *)
(* lock, whatever crashes and duplicate releases there are, as long as no  *)
(* lock is taken away while another process is between its read of that    *)
(* lock and its unlink.                                                    *)
OneWriter ==
    ~raced => \A p \in Writers : Writers = {p} /\ file = Content(p, mine[p])
=============================================================================
