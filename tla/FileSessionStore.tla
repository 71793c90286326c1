-------------------------- MODULE FileSessionStore --------------------------
(***************************************************************************)
(* The file-backed session store: createFileSessionStore                   *)
(* (packages/adapter-core/src/file-session-store.mjs) around the in-memory *)
(* store of ChainSessions.                                                 *)
(*                                                                         *)
(* Every change is made in memory first and then appended to the tenant's  *)
(* file.  An append may fail before anything is written, after a part of   *)
(* the line, or after all of it (the fsync); the store is then poisoned.   *)
(* disk is the fold of the file as reloadAll computes it: the live slots   *)
(* in the order of their last receipt, and the highest segment number.     *)
(* callers[s] is a receipt prepared on the slot that peek returned and not *)
(* yet committed.  The lock of the directory is SessionDirLock.            *)
(*                                                                         *)
(* The directory is that of one tenant.  With several, reloadAll lists the *)
(* slots file by file, and a cap below their number keeps the last of that *)
(* list.                                                                   *)
(***************************************************************************)
EXTENDS ChainSessions

CONSTANTS
    Sessions,
    MaxReceipts,    \* bound on the receipts prepared
    MaxBoots,       \* bound on the constructions of the store
    None

VARIABLES
    mem,            \* the wrapped in-memory store
    disk, torn,     \* the fold of the files, and whether a line is torn
    up, poisoned,
    callers,
    minted, boots,
    lines           \* the receipt lines ever written

vars == <<mem, disk, torn, up, poisoned, callers, minted, boots, lines>>

Outcomes == {"ok", "failed", "partial", "unsynced"}

Init ==
    /\ mem = [live |-> <<>>, counter |-> 0]
    /\ disk = [live |-> <<>>, counter |-> 0]
    /\ torn = FALSE
    /\ up = TRUE
    /\ poisoned = FALSE
    /\ callers = [s \in Sessions |-> None]
    /\ minted = 0
    /\ boots = 1
    /\ lines = {}

(* appendLineSync: the fold gets the line, is left as it was, or can no    *)
(* longer be read; anything but "ok" throws.                               *)
AppendLine(w, folded) ==
    /\ disk' = IF w \in {"ok", "unsynced"} THEN folded ELSE disk
    /\ torn' = (torn \/ w = "partial")

\* Mutant: a store that goes on after a failed append.
PoisonsNever(w) == UNCHANGED poisoned

Poisons(w) == poisoned' = (poisoned \/ w # "ok")

(* The fold of an end line, and of a receipt line for slot x.              *)
FoldEnd(s) == [disk EXCEPT !.live = Others(disk, s)]

FoldReceipt(x) ==
    [live |-> Append(Others(disk, x.sid), x),
     counter |-> IF x.seg > disk.counter THEN x.seg ELSE disk.counter]

(* The session that the cap evicts when peek mints a slot for s, if any.   *)
Evicted(s) ==
    IF ~Live(mem, s) /\ AtCap(mem.live) /\ mem.live # <<>>
    THEN mem.live[1].sid ELSE None

(* peek, and the receipt its caller prepares.  An evicted session gets its *)
(* tombstone; a tombstone that fails poisons the store but not this call.  *)
Peek(s, w) ==
    /\ up /\ ~poisoned
    /\ callers[s] = None
    /\ minted < MaxReceipts
    /\ mem' = StateFor(mem, s)
    /\ IF Evicted(s) = None
       THEN w = "ok" /\ UNCHANGED <<disk, torn, poisoned>>
       ELSE AppendLine(w, FoldEnd(Evicted(s))) /\ Poisons(w)
    /\ minted' = minted + 1
    /\ callers' = [callers EXCEPT ![s] =
           LET x == SlotOf(mem', s)
           IN  [seg |-> x.seg, seq |-> x.seq, prev |-> x.head,
                hash |-> minted + 1]]
    /\ UNCHANGED <<up, boots, lines>>

\* Mutant: the line of a receipt, written by a store that does not ask the
\* live chain first.
CommitsAlways(s) == TRUE

(* The live chain accepts only a receipt prepared on its own segment.      *)
Commits(s) == Advances(mem, s, callers[s].seg)

(* advance: memory first, then the receipt line.                           *)
Commit(s, w) ==
    LET r == callers[s]
    IN  /\ up /\ ~poisoned
        /\ r # None
        /\ mem' = Advance(mem, s, r.hash, r.seg)
        /\ IF Commits(s)
           THEN /\ AppendLine(w, FoldReceipt([sid |-> s, seg |-> r.seg,
                                 seq |-> r.seq + 1, head |-> r.hash]))
                /\ Poisons(w)
                /\ lines' = IF w \in {"ok", "unsynced"}
                            THEN lines \cup {[sid |-> s, seg |-> r.seg, seq |-> r.seq,
                                             prev |-> r.prev, hash |-> r.hash]}
                            ELSE lines
           ELSE w = "ok" /\ UNCHANGED <<disk, torn, poisoned, lines>>
        /\ callers' = [callers EXCEPT ![s] = None]
        /\ UNCHANGED <<up, minted, boots>>

(* The caller's own persist failed, or the poisoned store refused it.      *)
GiveUp(s) ==
    /\ callers[s] # None
    /\ callers' = [callers EXCEPT ![s] = None]
    /\ UNCHANGED <<mem, disk, torn, up, poisoned, minted, boots, lines>>

EndSession(s, w) ==
    /\ up /\ ~poisoned
    /\ mem' = End(mem, s)
    /\ AppendLine(w, FoldEnd(s))
    /\ Poisons(w)
    /\ UNCHANGED <<up, callers, minted, boots, lines>>

(* One eviction of the sweep timer, which is the wrapped store's own and   *)
(* goes on when the store is poisoned.                                     *)
SweepOldest(w) ==
    /\ up
    /\ mem.live # <<>>
    /\ mem' = Sweep(mem, 1)
    /\ AppendLine(w, FoldEnd(mem.live[1].sid))
    /\ Poisons(w)
    /\ UNCHANGED <<up, callers, minted, boots, lines>>

(* dispose, or a crash, which may leave the line being written torn.       *)
Stop(tears) ==
    /\ up
    /\ up' = FALSE
    /\ torn' = (torn \/ tears)
    /\ callers' = [s \in Sessions |-> None]
    /\ UNCHANGED <<mem, disk, poisoned, minted, boots, lines>>

ReloadAll == Seeded(disk.live, disk.counter)

(* createFileSessionStore: a torn line refuses the construction.           *)
Boot ==
    /\ ~up /\ ~torn
    /\ boots < MaxBoots
    /\ up' = TRUE
    /\ mem' = ReloadAll
    /\ poisoned' = FALSE
    /\ boots' = boots + 1
    /\ UNCHANGED <<disk, torn, callers, minted, lines>>

Next ==
    \/ \E s \in Sessions, w \in Outcomes :
           Peek(s, w) \/ Commit(s, w) \/ EndSession(s, w)
    \/ \E s \in Sessions : GiveUp(s)
    \/ \E w \in Outcomes : SweepOldest(w)
    \/ \E tears \in BOOLEAN : Stop(tears)
    \/ Boot

Spec == Init /\ [][Next]_vars

-----------------------------------------------------------------------------
(* Past a failed write any further call would "extend a chain in memory    *)
(* that a restart could never reconstruct identically from disk"           *)
(* (file-session-store.mjs:63): every chain the store would still extend   *)
(* is the one a restart resumes.                                           *)
RestartResumes ==
    up /\ ~poisoned =>
        \A i \in 1..Len(mem.live) :
            mem.live[i].seq > 0 =>
                \E j \in 1..Len(disk.live) : disk.live[j] = mem.live[i]

(* The files keep the promise of a durable session store over crashes,     *)
(* failed writes and restarts: DurableChains, with the fold of the files   *)
(* as the chains.                                                          *)
OnDisk(s) ==
    IF Live(disk, s)
    THEN LET x == SlotOf(disk, s)
             l == CHOOSE l \in lines : l.hash = x.head
         IN  [seg |-> x.seg, seq |-> x.seq, head |-> x.head, tail |-> l.prev]
    ELSE None

Chains == INSTANCE DurableChains WITH
    Owners <- Sessions, Genesis <- NoReceipt,
    Segments <- 1..(MaxReceipts * MaxBoots), Hashes <- 1..MaxReceipts,
    chain <- [s \in Sessions |-> OnDisk(s)],
    used <- {<<l.sid, l.seg>> : l \in lines}
=============================================================================
