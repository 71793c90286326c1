----------------------------- MODULE StoreProofs -----------------------------
(***************************************************************************)
(* What lives by a file: the lock of a session directory (Lock), for any   *)
(* number of processes, acquisitions and crashes; the relay's holds over   *)
(* its file store, for any number of agents, devices, holds, failed puts   *)
(* and restarts; and the manifests of its tenants (Pub), over the same     *)
(* store, for any number of tenants.                                       *)
(*                                                                         *)
(* That one process holds the lock is not inductive: a process unlinks a   *)
(* file it read some steps ago, and writes to one it created before.  The  *)
(* invariant says what each process relies on at its step (Relies).        *)
(*                                                                         *)
(* The properties of the holds need that the file is never ahead of        *)
(* memory, so that a crash takes back no hold, and that a receipt chains   *)
(* onto the hold its signer was shown (StoreInv, NotesInv).  That accepted *)
(* publishes of one version agree needs that the tenant's record is at or  *)
(* past every publish of its era, and that a tenant is opened anew at most *)
(* once (ManifestInv).                                                     *)
(***************************************************************************)
EXTENDS Relay, TLAPS

CONSTANTS
    Procs, MaxNonce, MaxCrashes,                    \* of the lock
    Tenants, Contents, Delegations,                 \* of the manifests
    MaxVersionJump, MaxGenesisVersion, MaxSaneVersion, MaxVersion

VARIABLES
    file, pc, read, mine, alive, attempt, nonces, crashes, raced,
    published, regenesis

-----------------------------------------------------------------------------
(* The lock of a session directory.                                        *)

Lock == INSTANCE SessionDirLock WITH up <- alive

(* "No lock file" is neither a process nor the content of one.             *)
LockConstants == None \notin Procs /\ None \notin [pid : Procs \cup {None}, nonce : Nat]

Labels == {"idle", "create", "write", "held", "read", "probe", "unlink", "release", "remove", "dead"}

LockType ==
    /\ file \in [pid : Procs \cup {None}, nonce : Nat \ {0}] \cup {None}
    /\ pc \in [Procs -> Labels]
    /\ read = [p \in Procs |-> read[p]]
    /\ mine \in [Procs -> Nat]
    /\ alive = {p \in Procs : pc[p] # "dead"}
    /\ nonces \in Nat
    /\ raced \in BOOLEAN

(* A nonce is drawn once, and a lock file that names a process has the     *)
(* nonce that process drew last.                                           *)
NoncesAreOwn ==
    /\ \A p \in Procs : mine[p] <= nonces
    /\ \A p, q \in Procs : mine[p] = mine[q] /\ mine[p] # 0 => p = q
    /\ file # None /\ file.pid # None => mine[file.pid] = file.nonce

(* What a process at its step takes for granted of the lock file.          *)
Relies(p) ==
    /\ pc[p] = "write" => file = Lock!Created(mine[p])
    /\ pc[p] \in {"held", "remove"} => file = Lock!Content(p, mine[p])
    /\ pc[p] \in {"probe", "unlink"} => file = read[p] /\ ~Lock!Unreadable(file)
    /\ pc[p] = "unlink" => file.pid \notin alive

LockInv == LockType /\ NoncesAreOwn /\ (~raced => \A p \in Procs : Relies(p))

(* Each step keeps the types.                                              *)
LEMMA LockTyped ==
    ASSUME LockConstants, LockType, [Lock!Next]_(Lock!vars)
    PROVE  LockType'
<1> USE DEF LockType, Labels
<1>u. CASE UNCHANGED Lock!vars
  BY <1>u DEF Lock!vars
<1>n. CASE Lock!Next
  <2> PICK p \in Procs :
        \/ Lock!Start(p) \/ Lock!Create(p) \/ Lock!Write(p) \/ Lock!ReadHolder(p)
        \/ Lock!Probe(p) \/ Lock!Unlink(p) \/ Lock!Dispose(p) \/ Lock!ReleaseRead(p)
        \/ Lock!Remove(p) \/ Lock!Exit(p) \/ Lock!Crash(p)
    BY <1>n DEF Lock!Next
  <2>1. CASE Lock!Start(p)
    BY <2>1 DEF Lock!Start, Lock!Goto
  <2>2. CASE Lock!Create(p)
    BY <2>2 DEF Lock!Create, Lock!Goto, Lock!Created, Lock!Content
  <2>3. CASE Lock!Write(p)
    <3>1. file = Lock!Created(mine[p]) => mine[p] # 0
      BY DEF LockConstants, Lock!Created, Lock!Content
    <3> QED BY <2>3, <3>1 DEF Lock!Write, Lock!Goto, Lock!Content
  <2>4. CASE Lock!ReadHolder(p)
    BY <2>4 DEF Lock!ReadHolder, Lock!Goto
  <2>5. CASE Lock!Probe(p)
    BY <2>5 DEF Lock!Probe, Lock!Goto
  <2>6. CASE Lock!Unlink(p)
    BY <2>6 DEF Lock!Unlink, Lock!Goto, Lock!TakesAway
  <2>7. CASE Lock!Dispose(p)
    BY <2>7 DEF Lock!Dispose, Lock!Goto
  <2>8. CASE Lock!ReleaseRead(p)
    BY <2>8 DEF Lock!ReleaseRead, Lock!Goto
  <2>9. CASE Lock!Remove(p)
    BY <2>9 DEF Lock!Remove, Lock!Goto, Lock!TakesAway
  <2>10. CASE Lock!Exit(p) \/ Lock!Crash(p)
    BY <2>10 DEF Lock!Exit, Lock!Crash, Lock!End, Lock!Goto
  <2> QED BY <2>1, <2>2, <2>3, <2>4, <2>5, <2>6, <2>7, <2>8, <2>9, <2>10
<1> QED BY <1>u, <1>n

(* Each step keeps the nonces apart: a create draws the next one, and only *)
(* when there is no lock file.                                             *)
LEMMA NoncesStayOwn ==
    ASSUME LockConstants, LockType, NoncesAreOwn, [Lock!Next]_(Lock!vars)
    PROVE  NoncesAreOwn'
<1> USE DEF LockType
<1>u. CASE UNCHANGED Lock!vars
  BY <1>u DEF Lock!vars, NoncesAreOwn
<1>n. CASE Lock!Next
  <2> PICK p \in Procs :
        \/ Lock!Start(p) \/ Lock!Create(p) \/ Lock!Write(p) \/ Lock!ReadHolder(p)
        \/ Lock!Probe(p) \/ Lock!Unlink(p) \/ Lock!Dispose(p) \/ Lock!ReleaseRead(p)
        \/ Lock!Remove(p) \/ Lock!Exit(p) \/ Lock!Crash(p)
    BY <1>n DEF Lock!Next
  <2>1. CASE UNCHANGED <<file, mine, nonces>>
    BY <2>1 DEF NoncesAreOwn
  <2>2. CASE file' = None /\ UNCHANGED <<mine, nonces>>
    BY <2>2 DEF NoncesAreOwn
  <2>3. CASE Lock!Create(p) /\ file = None
    BY <2>3 DEF Lock!Create, Lock!Created, Lock!Content, NoncesAreOwn
  <2>4. CASE Lock!Create(p) /\ file # None
    BY <2>4, <2>1 DEF Lock!Create
  <2>5. CASE Lock!Write(p)
    BY <2>5, <2>1 DEF Lock!Write, Lock!Content, NoncesAreOwn
  <2>6. CASE Lock!Unlink(p) \/ Lock!Remove(p)
    BY <2>6, <2>2 DEF Lock!Unlink, Lock!Remove
  <2>7. CASE Lock!Start(p) \/ Lock!ReadHolder(p) \/ Lock!Probe(p) \/ Lock!Dispose(p) \/ Lock!ReleaseRead(p)
    BY <2>7, <2>1 DEF Lock!Start, Lock!ReadHolder, Lock!Probe, Lock!Dispose, Lock!ReleaseRead
  <2>8. CASE Lock!Exit(p) \/ Lock!Crash(p)
    BY <2>8, <2>1 DEF Lock!Exit, Lock!Crash, Lock!End
  <2> QED BY <2>3, <2>4, <2>5, <2>6, <2>7, <2>8
<1> QED BY <1>u, <1>n

(* A process that does not take a step goes on relying on the lock file    *)
(* while that stays as it is and nobody starts.                            *)
LEMMA ReliesOn ==
    ASSUME NEW q \in Procs, Relies(q), pc'[q] = pc[q], read'[q] = read[q], mine'[q] = mine[q],
           file' = file, alive' \subseteq alive
    PROVE  Relies(q)'
BY DEF Relies, Lock!Created, Lock!Content, Lock!Unreadable

(* A process at another step relies on nothing.                            *)
LEMMA ReliesOnNothing ==
    ASSUME NEW q \in Procs, pc'[q] \notin {"write", "held", "remove", "probe", "unlink"}
    PROVE  Relies(q)'
BY DEF Relies

(* The file of a process that relies on it is there, and only a process    *)
(* that judges it may share it with another.                               *)
LEMMA ReliesApart ==
    ASSUME LockConstants, LockType, NoncesAreOwn,
           NEW p \in Procs, NEW q \in Procs, p # q, Relies(p), Relies(q),
           pc[p] \in {"write", "remove", "held"}
    PROVE  /\ pc[q] \notin {"write", "remove", "held", "unlink"}
           /\ pc[p] = "write" => pc[q] # "probe"
<1>f. \A m, n \in Nat : /\ Lock!Content(p, m) # Lock!Content(q, n)
                       /\ Lock!Content(p, m) # Lock!Created(n)
                       /\ Lock!Created(m) # Lock!Content(q, n)
  BY DEF LockConstants, Lock!Created, Lock!Content
<1>m. mine[p] \in Nat /\ mine[q] \in Nat /\ p \in alive
  BY DEF LockType
<1>1. CASE pc[p] = "write"
  <2>1. file = Lock!Created(mine[p])
    BY <1>1 DEF Relies
  <2>2. file.nonce = mine[p] /\ file.pid = None /\ mine[p] # 0
    BY <2>1 DEF LockConstants, LockType, Lock!Created, Lock!Content
  <2>3. pc[q] # "write"
    BY <2>1, <2>2 DEF Relies, NoncesAreOwn, Lock!Created, Lock!Content
  <2>4. pc[q] \notin {"remove", "held"}
    BY <2>1, <1>f, <1>m DEF Relies
  <2>5. pc[q] \notin {"probe", "unlink"}
    BY <2>2 DEF Relies, Lock!Unreadable
  <2> QED BY <2>3, <2>4, <2>5
<1>2. CASE pc[p] \in {"remove", "held"}
  <2>1. file = Lock!Content(p, mine[p]) /\ file.pid = p
    BY <1>2 DEF Relies, Lock!Content
  <2>2. pc[q] \notin {"write", "remove", "held"}
    BY <2>1, <1>f, <1>m DEF Relies
  <2> QED BY <1>2, <2>1, <2>2, <1>m DEF Relies
<1> QED BY <1>1, <1>2

(* Each step that does not end in a race keeps what the processes rely on. *)
LEMMA StillRelies ==
    ASSUME LockConstants, LockInv, [Lock!Next]_(Lock!vars), ~raced'
    PROVE  \A q \in Procs : Relies(q)'
<1>u. CASE UNCHANGED Lock!vars
  BY <1>u, ReliesOn DEF Lock!vars, LockInv
<1>n. CASE Lock!Next
  <2> PICK p \in Procs :
        \/ Lock!Start(p) \/ Lock!Create(p) \/ Lock!Write(p) \/ Lock!ReadHolder(p)
        \/ Lock!Probe(p) \/ Lock!Unlink(p) \/ Lock!Dispose(p) \/ Lock!ReleaseRead(p)
        \/ Lock!Remove(p) \/ Lock!Exit(p) \/ Lock!Crash(p)
    BY <1>n DEF Lock!Next
  <2>r. ~raced
    BY Zenon DEF Lock!Start, Lock!Create, Lock!Write, Lock!ReadHolder, Lock!Probe, Lock!Unlink,
           Lock!Dispose, Lock!ReleaseRead, Lock!Remove, Lock!Exit, Lock!Crash, Lock!End, Lock!TakesAway
  <2> /\ LockType
      /\ NoncesAreOwn
      /\ \A q \in Procs : Relies(q)
    BY <2>r DEF LockInv
  <2> SUFFICES ASSUME NEW q \in Procs
               PROVE  Relies(q)'
    OBVIOUS
  <2>1. CASE Lock!Start(p) \/ Lock!Dispose(p)
    BY <2>1, ReliesOn, ReliesOnNothing DEF LockType, Lock!Start, Lock!Dispose, Lock!Goto
  <2>2. CASE Lock!Create(p)
    <3>1. CASE file = None
      <4>1. CASE q = p
        BY <2>2, <3>1, <4>1 DEF LockType, Lock!Create, Lock!Goto, Relies
      <4>2. CASE q # p
        <5>1. pc[q] \notin {"write", "held", "remove", "probe", "unlink"}
          BY <3>1 DEF Relies, LockConstants, LockType, Lock!Created, Lock!Content, Lock!Unreadable
        <5> QED BY <2>2, <4>2, <5>1, ReliesOnNothing DEF LockType, Lock!Create, Lock!Goto
      <4> QED BY <4>1, <4>2
    <3>2. CASE file # None
      BY <2>2, <3>2, ReliesOn, ReliesOnNothing DEF LockType, Lock!Create, Lock!Goto
    <3> QED BY <3>1, <3>2
  <2>3. CASE Lock!Write(p)
    <3>1. pc[p] = "write" /\ file = Lock!Created(mine[p])
      BY <2>3 DEF Lock!Write, Relies
    <3>2. CASE q = p
      BY <2>3, <3>1, <3>2 DEF LockType, Lock!Write, Lock!Goto, Relies
    <3>3. CASE q # p
      <4>1. pc[q] \notin {"write", "held", "remove", "probe", "unlink"}
        BY <3>1, <3>3, ReliesApart
      <4> QED BY <2>3, <3>3, <4>1, ReliesOnNothing DEF LockType, Lock!Write, Lock!Goto
    <3> QED BY <3>2, <3>3
  <2>4. CASE Lock!ReadHolder(p)
    <3>1. CASE q = p
      BY <2>4, <3>1 DEF LockType, Lock!ReadHolder, Lock!Goto, Relies, Lock!Unreadable
    <3>2. CASE q # p
      BY <2>4, <3>2, ReliesOn DEF LockType, Lock!ReadHolder, Lock!Goto
    <3> QED BY <3>1, <3>2
  <2>5. CASE Lock!Probe(p)
    <3>1. CASE q = p
      BY <2>5, <3>1 DEF LockType, Lock!Probe, Lock!Goto, Relies, Lock!Unreadable, Lock!Stale
    <3>2. CASE q # p
      BY <2>5, <3>2, ReliesOn DEF LockType, Lock!Probe, Lock!Goto
    <3> QED BY <3>1, <3>2
  <2>6. CASE Lock!Unlink(p)
    <3>1. CASE q = p
      BY <2>6, <3>1, ReliesOnNothing DEF LockType, Lock!Unlink, Lock!Goto
    <3>2. CASE q # p
      <4>1. file = read[p] /\ ~Lock!Unreadable(file) /\ file.pid \notin alive
        BY <2>6 DEF Lock!Unlink, Relies
      <4>2. pc[q] \notin {"probe", "unlink"}
        BY <2>6, <3>2, Zenon DEF Lock!Unlink, Lock!TakesAway, Relies, LockType
      <4>3. pc[q] \notin {"write", "held", "remove"}
        BY <4>1 DEF Relies, LockConstants, LockType, Lock!Created, Lock!Content, Lock!Unreadable
      <4> QED BY <2>6, <3>2, <4>2, <4>3, ReliesOnNothing DEF LockType, Lock!Unlink, Lock!Goto
    <3> QED BY <3>1, <3>2
  <2>7. CASE Lock!ReleaseRead(p)
    <3>1. CASE q = p
      <4>1. CASE Lock!Owns(file, mine[p])
        <5>1. file # None /\ file.pid # None /\ file.nonce = mine[p]
          BY <4>1 DEF Lock!Owns, Lock!Unreadable
        <5>2. file.pid \in Procs /\ mine[file.pid] = mine[p] /\ mine[p] # 0
          BY <5>1 DEF NoncesAreOwn, LockType
        <5>3. file.pid = p
          BY <5>2 DEF NoncesAreOwn
        <5>4. file = Lock!Content(p, mine[p])
          BY <5>1, <5>3 DEF LockType, Lock!Content
        <5> QED BY <2>7, <3>1, <4>1, <5>4 DEF LockType, Lock!ReleaseRead, Lock!Goto, Relies, Lock!Content
      <4>2. CASE ~Lock!Owns(file, mine[p])
        BY <2>7, <3>1, <4>2, ReliesOnNothing DEF LockType, Lock!ReleaseRead, Lock!Goto
      <4> QED BY <4>1, <4>2
    <3>2. CASE q # p
      BY <2>7, <3>2, ReliesOn DEF LockType, Lock!ReleaseRead, Lock!Goto
    <3> QED BY <3>1, <3>2
  <2>8. CASE Lock!Remove(p)
    <3>1. CASE q = p
      BY <2>8, <3>1, ReliesOnNothing DEF LockType, Lock!Remove, Lock!Goto
    <3>2. CASE q # p
      <4>1. pc[q] \notin {"write", "held", "remove", "unlink"}
        BY <2>8, <3>2, ReliesApart DEF Lock!Remove
      <4>2. pc[q] # "probe"
        BY <2>8, <3>2, Zenon DEF Lock!Remove, Lock!TakesAway, Relies, LockType
      <4> QED BY <2>8, <3>2, <4>1, <4>2, ReliesOnNothing DEF LockType, Lock!Remove, Lock!Goto
    <3> QED BY <3>1, <3>2
  <2>9. CASE Lock!Exit(p) \/ Lock!Crash(p)
    BY <2>9, ReliesOn, ReliesOnNothing DEF LockType, Lock!Exit, Lock!Crash, Lock!End, Lock!Goto
  <2> QED BY <2>1, <2>2, <2>3, <2>4, <2>5, <2>6, <2>7, <2>8, <2>9
<1> QED BY <1>u, <1>n

(* At most one process holds the lock of a session directory, and nobody   *)
(* removes a live holder's, for any number of processes, acquisitions and  *)
(* crashes (acquireLock, releaseLock).                                     *)
THEOREM LockExcludes == LockConstants => (Lock!Spec => []Lock!OneWriter)
<1> SUFFICES ASSUME LockConstants
             PROVE  Lock!Spec => []Lock!OneWriter
  OBVIOUS
<1>1. Lock!Init => LockInv
  <2> SUFFICES ASSUME Lock!Init
               PROVE  LockInv
    OBVIOUS
  <2> USE DEF Lock!Init
  <2>1. LockType
    BY Zenon DEF LockType, Labels
  <2>2. NoncesAreOwn
    BY DEF NoncesAreOwn
  <2>3. \A p \in Procs : Relies(p)
    BY DEF Relies
  <2> QED BY <2>1, <2>2, <2>3 DEF LockInv
<1>2. LockInv /\ [Lock!Next]_(Lock!vars) => LockInv'
  BY LockTyped, NoncesStayOwn, StillRelies DEF LockInv
<1>3. LockInv => Lock!OneWriter
  <2> SUFFICES ASSUME LockInv, ~raced, NEW p \in Lock!Writers
               PROVE  Lock!Writers = {p} /\ file = Lock!Content(p, mine[p])
    BY DEF Lock!OneWriter
  <2>1. file = Lock!Content(p, mine[p])
    BY DEF LockInv, LockType, Relies, Lock!Writers
  <2>2. ASSUME NEW q \in Lock!Writers
        PROVE  q = p
    BY <2>1, Zenon DEF LockInv, LockType, Relies, Lock!Writers, Lock!Content
  <2> QED BY <2>1, <2>2
<1> QED BY <1>1, <1>2, <1>3, PTL DEF Lock!Spec

-----------------------------------------------------------------------------
(* The relay's holds.                                                      *)

(* The records of the store.                                               *)
HoldRec ==
    [agent : Agents, key : Keys, action : Actions, deferred : Deferreds \cup {None},
     status : {"PENDING", "APPROVED", "DENIED", "EXPIRED"},
     receipt : Receipts \cup {None}, ends : Nat]
DeviceRec == [agent : Agents \cup {None}, revoked : BOOLEAN]
Snapshot == [hold : [Holds -> HoldRec \cup {None}], device : [Devices -> DeviceRec]]
Posted == [device : Devices, agent : Agents \cup {None}, hold : Holds, receipt : Receipts]

(* "No value" is no record, and a hold's time to live is a number.         *)
RelayConstants == None \notin HoldRec /\ None \notin Receipts /\ Ttl \in Nat

(* Holds that differ have different keys and different deferred receipts;  *)
(* an open hold has no receipt, and a receipt is of the hold it is on.     *)
Sound(f) ==
    /\ \A g, h \in Holds : f[g] # None /\ f[h] # None /\ g # h =>
          /\ f[g].agent # f[h].agent \/ f[g].key # f[h].key
          /\ f[g].deferred # f[h].deferred \/ f[g].deferred = None
    /\ \A h \in Holds : f[h] # None =>
          /\ f[h].status = "PENDING" => f[h].receipt = None
          /\ f[h].receipt # None /\ f[h].deferred # None => f[h].receipt.shown = h

(* What a snapshot keeps of the one before: every hold with its identity,  *)
(* its receipt and its settlement.                                         *)
Keeps(f, n, h) ==
    /\ n[h] # None
    /\ n[h].agent = f[h].agent /\ n[h].key = f[h].key /\ n[h].deferred = f[h].deferred
    /\ f[h].receipt # None => n[h].receipt = f[h].receipt
    /\ f[h].status # "PENDING" => n[h].status = f[h].status
Follows(f, n) == \A h \in Holds : f[h] # None => Keeps(f, n, h)
SameKnown(f, n) == \A h \in Holds : n[h] # None => f[h] # None

StoreInv ==
    /\ mem \in Snapshot /\ disk \in Snapshot
    /\ Sound(mem.hold) /\ Sound(disk.hold)
    /\ Follows(disk.hold, mem.hold) /\ SameKnown(disk.hold, mem.hold)

(* A receipt chains onto the hold its signer was shown, which stays there. *)
Chains(r, f) == f[r.shown] # None /\ f[r.shown].deferred = r.prev

NotesInv ==
    /\ now \in Nat
    /\ receipts \subseteq Receipts
    /\ \A r \in receipts : Chains(r, mem.hold)
    /\ posts \subseteq Posted
    /\ \A p \in posts : p.receipt \in receipts

(* A decision that is new in a snapshot is of a device not revoked.        *)
ByUnrevoked(n) ==
    \A h \in Holds : mem.hold[h] # None /\ mem.hold[h].receipt = None /\ n.hold[h].receipt # None
                       => ~mem.device[n.hold[h].receipt.by].revoked

(* A change of the store that a handler makes.                             *)
Change(n) == n \in Snapshot /\ Sound(n.hold) /\ Follows(mem.hold, n.hold) /\ ByUnrevoked(n)

(* The ways a change ends: in memory and file; in memory alone, if the put *)
(* fails and opens no hold, and then the holds it changes are unsaved; in  *)
(* neither; in the loss of memory.                                         *)
Moves(n) ==
    \/ mem' = n /\ disk' = n
    \/ /\ mem' = n /\ disk' = disk /\ SameKnown(mem.hold, n.hold)
       /\ \A h \in Holds \ unsaved' : h \notin unsaved /\ n.hold[h] = mem.hold[h]
    \/ mem' = mem /\ disk' = disk /\ unsaved \subseteq unsaved'
    \/ mem' = disk /\ disk' = disk

(* A snapshot that follows one that follows another follows that one.      *)
LEMMA FollowsOn ==
    ASSUME NEW f, NEW g, NEW n, Follows(f, g), Follows(g, n)
    PROVE  Follows(f, n)
<1> SUFFICES ASSUME NEW h \in Holds, f[h] # None
             PROVE  Keeps(f, n, h)
  BY Zenon DEF Follows
<1>1. Keeps(f, g, h) /\ Keeps(g, n, h)
  BY Zenon DEF Follows, Keeps
<1>2. n[h].receipt = g[h].receipt \/ g[h].receipt = None
  BY <1>1, Zenon DEF Keeps
<1>3. n[h].status = g[h].status \/ g[h].status = "PENDING"
  BY <1>1, Zenon DEF Keeps
<1> QED BY <1>1, <1>2, <1>3, Zenon DEF Keeps

(* A snapshot follows itself.                                              *)
LEMMA FollowsItself ==
    ASSUME NEW f
    PROVE  Follows(f, f) /\ SameKnown(f, f)
BY Zenon DEF Follows, SameKnown, Keeps

(* However a change ends, the store stays sound.                           *)
LEMMA MovesKeep ==
    ASSUME StoreInv, NEW n, Change(n), Moves(n)
    PROVE  StoreInv'
<1>1. CASE mem' = n /\ disk' = n
  BY <1>1, FollowsItself, Zenon DEF StoreInv, Change
<1>2. CASE mem' = n /\ disk' = disk /\ SameKnown(mem.hold, n.hold)
  <2>1. Follows(disk.hold, n.hold)
    BY FollowsOn, Zenon DEF StoreInv, Change
  <2>2. SameKnown(disk.hold, n.hold)
    BY <1>2, Zenon DEF StoreInv, SameKnown
  <2> QED BY <1>2, <2>1, <2>2, Zenon DEF StoreInv, Change
<1>3. CASE mem' = mem /\ disk' = disk
  BY <1>3, Zenon DEF StoreInv
<1>4. CASE mem' = disk /\ disk' = disk
  BY <1>4, FollowsItself, Zenon DEF StoreInv
<1> QED BY <1>1, <1>2, <1>3, <1>4, Zenon DEF Moves

(* No move forgets a hold or the deferred receipt it was opened with.      *)
LEMMA MovesChain ==
    ASSUME StoreInv, NEW n, Change(n), Moves(n), NEW r \in Receipts, Chains(r, mem.hold)
    PROVE  Chains(r, mem'.hold)
<1>1. r.shown \in Holds
  BY Zenon DEF Receipts
<1>2. Chains(r, n.hold)
  BY <1>1, Zenon DEF Change, Follows, Keeps, Chains
<1>3. Chains(r, disk.hold)
  BY <1>1, Zenon DEF StoreInv, Follows, Keeps, SameKnown, Chains
<1> QED BY <1>2, <1>3, Zenon DEF Moves

-----------------------------------------------------------------------------
(* The changes the handlers make.                                          *)

(* createHold: an index by key and one by deferred receipt.                *)
LEMMA OpenChange ==
    ASSUME RelayConstants, mem \in Snapshot, Sound(mem.hold), now \in Nat,
           NEW a \in Agents, NEW k \in Keys, NEW act \in Actions,
           NEW d \in Deferreds \cup {None}, NEW h \in Holds,
           ByKey(a, k) = {}, FreshDeferred(d), h \notin Stored,
           NEW rec, rec = [agent |-> a, key |-> k, action |-> act, deferred |-> d,
                           status |-> "PENDING", receipt |-> None, ends |-> now + Ttl],
           NEW n, n = WithHold(h, rec)
    PROVE  Change(n)
<1>1. mem.hold \in [Holds -> HoldRec \cup {None}] /\ mem.device \in [Devices -> DeviceRec]
  BY Zenon DEF Snapshot
<1>2. rec \in HoldRec
  BY DEF RelayConstants, HoldRec
<1>3. n = [hold |-> [mem.hold EXCEPT ![h] = rec], device |-> mem.device]
  BY Zenon DEF WithHold, Snapshot
<1>4. n \in Snapshot
  BY <1>1, <1>2, <1>3 DEF Snapshot
<1>5. mem.hold[h] = None
  BY Zenon DEF Stored
<1>6. n.hold[h] = rec /\ \A g \in Holds : g # h => n.hold[g] = mem.hold[g]
  BY <1>1, <1>3
<1>7. Follows(mem.hold, n.hold)
  BY <1>5, <1>6, Zenon DEF Follows, Keeps
<1>8. \A g \in Holds : mem.hold[g] # None =>
         /\ mem.hold[g].agent # a \/ mem.hold[g].key # k
         /\ mem.hold[g].deferred # d \/ d = None
  BY Zenon DEF ByKey, Stored, FreshDeferred
<1>9. Sound(n.hold)
  BY <1>6, <1>8 DEF Sound
<1>10. ByUnrevoked(n)
  BY <1>5, <1>6, Zenon DEF ByUnrevoked
<1> QED BY <1>4, <1>7, <1>9, <1>10, Zenon DEF Change

(* A hold is as it was, or open no more.                                   *)
OnlyExpires(f, n, h) ==
    \/ n[h] = f[h]
    \/ /\ f[h] # None /\ n[h] # None
       /\ n[h].agent = f[h].agent /\ n[h].key = f[h].key /\ n[h].deferred = f[h].deferred
       /\ n[h].receipt = f[h].receipt
       /\ f[h].status = "PENDING" /\ n[h].status = "EXPIRED"

(* Holds that only expire stay sound.                                      *)
LEMMA OnlyExpiresSound ==
    ASSUME NEW f, NEW n, Sound(f), \A h \in Holds : OnlyExpires(f, n, h)
    PROVE  Sound(n)
BY DEF Sound, OnlyExpires

(* The holds of a set of open ones expire.                                 *)
LEMMA ExpireChange ==
    ASSUME RelayConstants, mem \in Snapshot, Sound(mem.hold), NEW S \in SUBSET Pending,
           NEW n, n.device = mem.device, n = [hold |-> n.hold, device |-> n.device],
           n.hold = [h \in Holds |-> IF h \in S THEN ExpiredHold(h) ELSE mem.hold[h]]
    PROVE  Change(n) /\ SameKnown(mem.hold, n.hold)
<1>1. mem.hold \in [Holds -> HoldRec \cup {None}] /\ mem.device \in [Devices -> DeviceRec]
  BY Zenon DEF Snapshot
<1>2. ASSUME NEW h \in S
      PROVE  /\ h \in Holds /\ mem.hold[h] \in HoldRec /\ mem.hold[h].status = "PENDING"
             /\ ExpiredHold(h) \in HoldRec
             /\ ExpiredHold(h).status = "EXPIRED"
             /\ ExpiredHold(h).agent = mem.hold[h].agent
             /\ ExpiredHold(h).key = mem.hold[h].key
             /\ ExpiredHold(h).deferred = mem.hold[h].deferred
             /\ ExpiredHold(h).receipt = mem.hold[h].receipt
  <2>1. h \in Holds /\ mem.hold[h] \in HoldRec /\ mem.hold[h].status = "PENDING"
    BY <1>1, Zenon DEF Pending, Stored
  <2> QED BY <2>1, Zenon DEF ExpiredHold, HoldRec
<1>3. n \in Snapshot
  BY <1>1, <1>2 DEF Snapshot
<1>4. ASSUME NEW h \in Holds
      PROVE  OnlyExpires(mem.hold, n.hold, h)
  <2>1. CASE h \in S
    <3>1. n.hold[h] = ExpiredHold(h)
      BY <2>1, Zenon
    <3>2. n.hold[h] # None /\ mem.hold[h] # None
      BY <2>1, <3>1, <1>2 DEF RelayConstants
    <3> QED BY <2>1, <3>1, <3>2, <1>2, Zenon DEF OnlyExpires
  <2>2. CASE h \notin S
    <3>1. n.hold[h] = mem.hold[h]
      BY <2>2, Zenon
    <3> QED BY <3>1, Zenon DEF OnlyExpires
  <2> QED BY <2>1, <2>2, Zenon
<1>5. Follows(mem.hold, n.hold) /\ SameKnown(mem.hold, n.hold)
  BY <1>4, Zenon DEF Follows, Keeps, SameKnown, OnlyExpires
<1>6. Sound(n.hold)
  BY <1>4, OnlyExpiresSound, Zenon
<1>7. ByUnrevoked(n)
  BY <1>4, Zenon DEF ByUnrevoked, OnlyExpires
<1> QED BY <1>3, <1>5, <1>6, <1>7, Zenon DEF Change

(* decide: the receipt that names a hold's deferred receipt was signed by  *)
(* somebody who was shown that hold, since no other was opened with it.    *)
LEMMA DecideChange ==
    ASSUME RelayConstants, mem \in Snapshot, Sound(mem.hold), NEW p \in Posted,
           Chains(p.receipt, mem.hold), p.hold \in Pending, BindsHold(p),
           SignedByDevice(p),
           NEW n, n = WithHold(p.hold, DecidedHold(p))
    PROVE  /\ Change(n) /\ SameKnown(mem.hold, n.hold)
           /\ n.hold[p.hold].receipt = p.receipt
           /\ n.hold[p.hold].status \in {"APPROVED", "DENIED"}
           /\ \A g \in Holds : g # p.hold => n.hold[g] = mem.hold[g]
<1> DEFINE h == p.hold
           rec == DecidedHold(p)
<1>1. mem.hold \in [Holds -> HoldRec \cup {None}] /\ mem.device \in [Devices -> DeviceRec]
  BY Zenon DEF Snapshot
<1>2. h \in Holds /\ mem.hold[h] # None /\ mem.hold[h] \in HoldRec /\ mem.hold[h].status = "PENDING"
  BY <1>1, Zenon DEF Pending, Stored
<1>3. p.receipt \in Receipts /\ p.receipt # None
  BY Zenon DEF Posted, RelayConstants
<1>4. /\ rec \in HoldRec
      /\ rec.agent = mem.hold[h].agent /\ rec.key = mem.hold[h].key
      /\ rec.deferred = mem.hold[h].deferred /\ rec.receipt = p.receipt
      /\ rec.status \in {"APPROVED", "DENIED"}
  <2>1. p.receipt \in Receipts \cup {None}
    BY <1>3, Zenon
  <2> QED BY <1>2, <2>1, Zenon DEF DecidedHold, HoldRec
<1>5. n = [hold |-> [mem.hold EXCEPT ![h] = rec], device |-> mem.device]
  BY Zenon DEF WithHold, Snapshot
<1> HIDE DEF rec
<1>6. n.hold[h] = rec /\ \A g \in Holds : g # h => n.hold[g] = mem.hold[g]
  BY <1>1, <1>2, <1>5
<1>7. n \in Snapshot
  BY <1>1, <1>2, <1>4, <1>5 DEF Snapshot
<1>8. rec # None
  BY <1>4, Zenon DEF RelayConstants
<1>9. p.receipt.shown \in Holds
  BY <1>3, Zenon DEF Receipts
<1>10. mem.hold[h].deferred # None => p.receipt.shown = h
  BY <1>2, <1>9, Zenon DEF Sound, Chains, BindsHold
<1>11. mem.hold[h].receipt = None
  BY <1>2, Zenon DEF Sound
<1>12. Follows(mem.hold, n.hold)
  BY <1>2, <1>4, <1>6, <1>8, <1>11, Zenon DEF Follows, Keeps
<1>13. SameKnown(mem.hold, n.hold)
  BY <1>2, <1>6, Zenon DEF SameKnown
<1>14. Sound(n.hold)
  <2>1. ASSUME NEW g \in Holds
        PROVE  /\ n.hold[g] # None => mem.hold[g] # None
               /\ n.hold[g] # None => /\ n.hold[g].agent = mem.hold[g].agent
                                      /\ n.hold[g].key = mem.hold[g].key
                                      /\ n.hold[g].deferred = mem.hold[g].deferred
    BY <1>2, <1>4, <1>6, Zenon
  <2>2. \A g, k \in Holds : n.hold[g] # None /\ n.hold[k] # None /\ g # k =>
           /\ n.hold[g].agent # n.hold[k].agent \/ n.hold[g].key # n.hold[k].key
           /\ n.hold[g].deferred # n.hold[k].deferred \/ n.hold[g].deferred = None
    BY <2>1 DEF Sound
  <2>3. ASSUME NEW g \in Holds, n.hold[g] # None
        PROVE  /\ n.hold[g].status = "PENDING" => n.hold[g].receipt = None
               /\ n.hold[g].receipt # None /\ n.hold[g].deferred # None => n.hold[g].receipt.shown = g
    BY <2>3, <1>4, <1>6, <1>10 DEF Sound
  <2> QED BY <2>2, <2>3, Zenon DEF Sound
<1>15. ByUnrevoked(n)
  BY <1>4, <1>6, Zenon DEF ByUnrevoked, SignedByDevice
<1> QED BY <1>4, <1>6, <1>7, <1>12, <1>13, <1>14, <1>15, Zenon DEF Change

(* claimDevice and revokeSelf leave the holds alone.                       *)
LEMMA DeviceChange ==
    ASSUME mem \in Snapshot, Sound(mem.hold), NEW d \in Devices, NEW rec \in DeviceRec,
           NEW n, n = WithDevice(d, rec)
    PROVE  Change(n) /\ n.hold = mem.hold
<1>1. mem.hold \in [Holds -> HoldRec \cup {None}] /\ mem.device \in [Devices -> DeviceRec]
  BY Zenon DEF Snapshot
<1>2. n = [hold |-> mem.hold, device |-> [mem.device EXCEPT ![d] = rec]]
  BY Zenon DEF WithDevice, Snapshot
<1>3. n \in Snapshot /\ n.hold = mem.hold
  BY <1>1, <1>2 DEF Snapshot
<1>4. ByUnrevoked(n)
  BY <1>3, Zenon DEF ByUnrevoked
<1> QED BY <1>3, <1>4, FollowsItself, Zenon DEF Change

(* To change nothing is a change.                                          *)
LEMMA NoChange ==
    ASSUME StoreInv
    PROVE  Change(mem)
BY FollowsItself, Zenon DEF StoreInv, Change, ByUnrevoked

(* How the two kinds of put end.                                           *)
LEMMA CopyMoves ==
    ASSUME NEW n, NEW o, PutCopy(n, o), NoteUnsaved(o, {})
    PROVE  Moves(n)
BY Zenon DEF PutCopy, NoteUnsaved, Persisted, RolledBackTo, DiesWith, Moves

(* A put of a record changed in place.                                     *)
LEMMA InPlaceMoves ==
    ASSUME NEW n, NEW o, NEW h, PutInPlace(n, o), NoteUnsaved(o, {h}),
           SameKnown(mem.hold, n.hold),
           \A g \in Holds : g # h => n.hold[g] = mem.hold[g]
    PROVE  Moves(n)
BY Zenon DEF PutInPlace, NoteUnsaved, Persisted, RolledBackTo, DiesWith, Moves

-----------------------------------------------------------------------------
(* Handler by handler.                                                     *)

(* createHold changes the store by one fresh hold.                         *)
LEMMA CreateMoves ==
    ASSUME RelayConstants, StoreInv, NotesInv,
           NEW a \in Agents, NEW k \in Keys, NEW act \in Actions,
           NEW d \in Deferreds \cup {None}, NEW h \in Holds, NEW o,
           CreateHold(a, k, act, d, h, o)
    PROVE  \E n : Change(n) /\ Moves(n)
<1> DEFINE rec == [agent |-> a, key |-> k, action |-> act, deferred |-> d,
                   status |-> "PENDING", receipt |-> None, ends |-> now + Ttl]
           n == WithHold(h, rec)
<1>1. /\ PutCopy(n, o) /\ NoteUnsaved(o, {})
      /\ ByKey(a, k) = {} /\ FreshDeferred(d) /\ h \notin Stored
  BY Zenon DEF CreateHold
<1>2. mem \in Snapshot /\ Sound(mem.hold) /\ now \in Nat
  BY Zenon DEF StoreInv, NotesInv
<1>3. Change(n)
  BY <1>1, <1>2, OpenChange, Zenon
<1> QED BY <1>1, <1>3, CopyMoves, Zenon

(* lazyExpire changes the store by one expired hold.                       *)
LEMMA LazyMoves ==
    ASSUME RelayConstants, StoreInv, NEW h \in Holds, NEW o, LazyExpire(h, o)
    PROVE  \E n : Change(n) /\ Moves(n) /\ (o = "ok" => mem' = n /\ n.hold[h] = ExpiredHold(h))
<1> DEFINE n == WithHold(h, ExpiredHold(h))
<1>1. PutInPlace(n, o) /\ NoteUnsaved(o, {h}) /\ h \in Pending
  BY Zenon DEF LazyExpire, Overdue
<1>2. mem \in Snapshot /\ Sound(mem.hold)
  BY Zenon DEF StoreInv
<1>3. n = [hold |-> [mem.hold EXCEPT ![h] = ExpiredHold(h)], device |-> mem.device]
  BY <1>2 DEF WithHold, Snapshot
<1>4. n.hold = [g \in Holds |-> IF g \in {h} THEN ExpiredHold(g) ELSE mem.hold[g]]
  BY <1>2, <1>3 DEF Snapshot
<1>5. n.device = mem.device /\ n = [hold |-> n.hold, device |-> n.device] /\ n.hold[h] = ExpiredHold(h)
  BY <1>3, <1>4
<1> HIDE DEF n
<1>6. Change(n) /\ SameKnown(mem.hold, n.hold)
  BY <1>1, <1>2, <1>4, <1>5, ExpireChange, Zenon
<1>7. o = "ok" => mem' = n
  BY <1>1, Zenon DEF PutInPlace, Persisted
<1>8. \A g \in Holds : g # h => n.hold[g] = mem.hold[g]
  BY <1>4, Zenon
<1> QED BY <1>1, <1>5, <1>6, <1>7, <1>8, InPlaceMoves, Zenon

(* sweepExpired changes it by the overdue holds it got to.                 *)
LEMMA SweepMoves ==
    ASSUME RelayConstants, StoreInv, Sweep
    PROVE  \E n : Change(n) /\ Moves(n)
<1>0. CASE mem' = disk /\ disk' = disk
  BY <1>0, NoChange, Zenon DEF Moves
<1>1. SUFFICES ASSUME NEW T \in SUBSET Pending, mem' = AllExpired(T), disk' = AllExpired(T)
               PROVE  \E n : Change(n) /\ Moves(n)
  <2>1. \A h \in Holds : Overdue(h) => h \in Pending
    BY Zenon DEF Overdue
  <2> QED BY <1>0, <2>1, Zenon DEF Sweep, Persisted, DiesWith
<1> DEFINE n == AllExpired(T)
<1>2. mem \in Snapshot /\ Sound(mem.hold)
  BY Zenon DEF StoreInv
<1>3. n = [hold |-> [h \in Holds |-> IF h \in T THEN ExpiredHold(h) ELSE mem.hold[h]],
           device |-> mem.device]
  BY <1>2 DEF AllExpired, Snapshot
<1>4. /\ n.device = mem.device /\ n = [hold |-> n.hold, device |-> n.device]
      /\ n.hold = [h \in Holds |-> IF h \in T THEN ExpiredHold(h) ELSE mem.hold[h]]
  BY <1>3
<1> HIDE DEF n
<1>5. Change(n)
  BY <1>2, <1>4, ExpireChange, Zenon
<1>6. mem' = n /\ disk' = n
  BY <1>1, Zenon DEF n
<1> QED BY <1>5, <1>6, Zenon DEF Moves

(* decide changes it by one decided hold.                                  *)
LEMMA DecideMoves ==
    ASSUME RelayConstants, StoreInv, NotesInv, NEW p \in posts, NEW o, Decide(p, o)
    PROVE  \E n : /\ Change(n) /\ Moves(n)
                  /\ o = "ok" => mem' = n /\ n.hold[p.hold].status \in {"APPROVED", "DENIED"}
<1> DEFINE n == WithHold(p.hold, DecidedHold(p))
<1>1. /\ PutInPlace(n, o) /\ NoteUnsaved(o, {p.hold})
      /\ p.hold \in Pending /\ BindsHold(p) /\ SignedByDevice(p)
  BY Zenon DEF Decide
<1>2. mem \in Snapshot /\ Sound(mem.hold) /\ p \in Posted /\ Chains(p.receipt, mem.hold)
  BY Zenon DEF StoreInv, NotesInv
<1> HIDE DEF n
<1>3. /\ Change(n) /\ SameKnown(mem.hold, n.hold)
      /\ n.hold[p.hold].status \in {"APPROVED", "DENIED"}
      /\ \A g \in Holds : g # p.hold => n.hold[g] = mem.hold[g]
  BY <1>1, <1>2, DecideChange, Zenon DEF n
<1>4. o = "ok" => mem' = n
  BY <1>1, Zenon DEF PutInPlace, Persisted
<1> QED BY <1>1, <1>3, <1>4, InPlaceMoves, Zenon

(* claimDevice and revokeSelf change it by one device.                     *)
LEMMA DeviceMoves ==
    ASSUME RelayConstants, StoreInv, NEW d \in Devices, NEW o,
           RevokeSelf(d, o) \/ \E a \in Agents : ClaimDevice(a, d, o)
    PROVE  \E n : Change(n) /\ Moves(n)
<1>1. mem \in Snapshot /\ Sound(mem.hold) /\ mem.device[d] \in DeviceRec
  BY Zenon DEF StoreInv, Snapshot
<1>2. /\ \A a \in Agents : [mem.device[d] EXCEPT !.agent = a] \in DeviceRec
      /\ [mem.device[d] EXCEPT !.revoked = TRUE] \in DeviceRec
  BY <1>1, Zenon DEF DeviceRec
<1>3. PICK rec \in DeviceRec : PutCopy(WithDevice(d, rec), o) /\ NoteUnsaved(o, {})
  BY <1>2, Zenon DEF ClaimDevice, RevokeSelf
<1>4. Change(WithDevice(d, rec))
  BY <1>1, DeviceChange, Zenon
<1> QED BY <1>3, <1>4, CopyMoves, Zenon

(* The store opens, closes, crashes or is left alone.                      *)
StoreSteps == UNCHANGED <<storeVars, unsaved>> \/ Crash \/ Close
              \/ ((RemoveLock \/ Open) /\ UNCHANGED unsaved)

(* Opening, closing and crashing bring memory back to the file.            *)
LEMMA StoreMoves ==
    ASSUME StoreInv, StoreSteps
    PROVE  Change(mem) /\ Moves(mem)
BY NoChange, Zenon DEF StoreSteps, storeVars, Crash, DiesWith, Close, RemoveLock,
                Open, Moves

(* Every step of the relay is a change that ended in one of the ways.      *)
LEMMA NextMoves ==
    ASSUME RelayConstants, StoreInv, NotesInv, [Next]_(vars)
    PROVE  \E n : Change(n) /\ Moves(n)
<1>1. CASE \E o \in Outcomes, a \in Agents, k \in Keys, act \in Actions,
              d \in Deferreds \cup {None}, h \in Holds : CreateHold(a, k, act, d, h, o)
  BY <1>1, CreateMoves, Zenon
<1>2. CASE \E o \in Outcomes, h \in Holds : LazyExpire(h, o)
  BY <1>2, LazyMoves, Zenon
<1>3. CASE \E o \in Outcomes, p \in posts : Decide(p, o)
  BY <1>3, DecideMoves, Zenon
<1>4. CASE \E o \in Outcomes, d \in Devices :
              RevokeSelf(d, o) \/ \E a \in Agents : ClaimDevice(a, d, o)
  BY <1>4, DeviceMoves, Zenon
<1>5. CASE Sweep
  BY <1>5, SweepMoves, Zenon
<1>6. CASE StoreSteps
  BY <1>6, StoreMoves, Zenon
<1>7. CASE UNCHANGED vars
  BY <1>6, <1>7, Zenon DEF vars, StoreSteps
<1>8. CASE \/ \E a \in Agents, k \in Keys : Retry(a, k)
           \/ \E h \in Holds : GetHold(h) \/ Wait(h)
           \/ \E w \in waiting : PollEnds(w)
           \/ \E d \in Devices, h \in Holds, v \in Verdicts : Sign(d, h, v)
           \/ \E d \in Devices, h \in Holds, r \in receipts : PostDecision(d, h, r)
           \/ \E p \in posts : RefuseDecision(p)
           \/ Tick
  <2>1. UNCHANGED <<storeVars, unsaved>>
    BY <1>8, Zenon DEF Retry, GetHold, Wait, PollEnds, Sign, PostDecision,
                RefuseDecision, Tick
  <2> QED BY <1>6, <2>1, Zenon DEF StoreSteps
<1>9. CASE Stop \/ Restart
  BY <1>6, <1>9, Zenon DEF Stop, Restart, StoreSteps
<1> QED BY <1>1, <1>2, <1>3, <1>4, <1>5, <1>7, <1>8, <1>9, Zenon DEF Next

-----------------------------------------------------------------------------
(* The receipts and the requests.                                          *)

(* The receipts and the posted requests after a step: old ones, and those  *)
(* that a device signs or posts.                                           *)
LEMMA NotesGrow ==
    ASSUME [Next]_(vars)
    PROVE  /\ \/ receipts' = receipts
              \/ \E d \in Devices, h \in Holds, v \in Verdicts : Sign(d, h, v)
           /\ \/ posts' \subseteq posts
              \/ \E d \in Devices, h \in Holds, r \in receipts : PostDecision(d, h, r)
           /\ now' = now \/ now' = now + 1
<1> USE DEF storeVars
<1>1. CASE \E o \in Outcomes, a \in Agents, k \in Keys, act \in Actions,
              d \in Deferreds \cup {None}, h \in Holds : CreateHold(a, k, act, d, h, o)
  BY <1>1, Zenon DEF CreateHold, Gone
<1>2. CASE \E o \in Outcomes, h \in Holds : LazyExpire(h, o)
  BY <1>2, Zenon DEF LazyExpire, Gone
<1>3. CASE \E o \in Outcomes, p \in posts : Decide(p, o)
  BY <1>3, Zenon DEF Decide, Gone
<1>4. CASE \E o \in Outcomes, d \in Devices :
              RevokeSelf(d, o) \/ \E a \in Agents : ClaimDevice(a, d, o)
  BY <1>4, Zenon DEF RevokeSelf, ClaimDevice, Gone
<1>5. CASE Sweep
  BY <1>5, Zenon DEF Sweep, Persisted, DiesWith, Gone
<1>6. CASE UNCHANGED vars
  BY <1>6, Zenon DEF vars
<1>7. CASE \/ \E a \in Agents, k \in Keys : Retry(a, k)
           \/ \E h \in Holds : GetHold(h) \/ Wait(h)
           \/ \E w \in waiting : PollEnds(w)
           \/ \E p \in posts : RefuseDecision(p)
           \/ Tick
  BY <1>7, Zenon DEF Retry, GetHold, Wait, PollEnds, RefuseDecision, Tick
<1>8. CASE \/ \E d \in Devices, h \in Holds, v \in Verdicts : Sign(d, h, v)
           \/ \E d \in Devices, h \in Holds, r \in receipts : PostDecision(d, h, r)
  BY <1>8, Zenon DEF Sign, PostDecision
<1>9. CASE Stop \/ Restart
  BY <1>9, Zenon DEF Stop, Restart, Crash, DiesWith, Close, RemoveLock, Open,
              Gone
<1> QED BY <1>1, <1>2, <1>3, <1>4, <1>5, <1>6, <1>7, <1>8, <1>9, Zenon DEF Next

(* A receipt names the hold its signer was shown (Sign).                   *)
LEMMA SignChains ==
    ASSUME RelayConstants, StoreInv, NEW d \in Devices, NEW h \in Holds, NEW v \in Verdicts,
           Sign(d, h, v)
    PROVE  \E r \in Receipts : /\ receipts' = receipts \cup {r}
                                   /\ Chains(r, mem.hold) /\ mem' = mem
<1> DEFINE r == [by |-> d, action |-> mem.hold[h].action, prev |-> mem.hold[h].deferred,
                 verdict |-> v, shown |-> h]
<1>1. receipts' = receipts \cup {r} /\ mem' = mem /\ h \in Pending
  BY Zenon DEF Sign, storeVars
<1>2. mem.hold[h] # None /\ mem.hold[h] \in HoldRec
  BY <1>1, Zenon DEF Pending, Stored, StoreInv, Snapshot
<1>3. mem.hold[h].action \in Actions /\ mem.hold[h].deferred \in Deferreds \cup {None}
  BY <1>2, Zenon DEF HoldRec
<1>4. r \in Receipts
  BY <1>3, Zenon DEF Receipts
<1>5. Chains(r, mem.hold)
  BY <1>2, Zenon DEF Chains
<1> QED BY <1>1, <1>4, <1>5, Zenon

(* Every step keeps the receipts chained and the requests posted.          *)
LEMMA NextNotes ==
    ASSUME RelayConstants, StoreInv, NotesInv, [Next]_(vars)
    PROVE  NotesInv'
<1>1. now' \in Nat
  BY NotesGrow DEF NotesInv
<1>2. receipts \subseteq receipts' /\ receipts' \subseteq Receipts
      /\ \A r \in receipts' : Chains(r, mem'.hold)
  <2>1. CASE receipts' = receipts
    <3>1. PICK n : Change(n) /\ Moves(n)
      BY NextMoves, Zenon
    <3> QED BY <2>1, <3>1, MovesChain, Zenon DEF NotesInv
  <2>2. CASE \E d \in Devices, h \in Holds, v \in Verdicts : Sign(d, h, v)
    BY <2>2, SignChains, Zenon DEF NotesInv
  <2> QED BY <2>1, <2>2, NotesGrow, Zenon
<1>3. posts' \subseteq Posted /\ \A p \in posts' : p.receipt \in receipts
  <2>1. CASE posts' \subseteq posts
    BY <2>1, Zenon DEF NotesInv
  <2>2. CASE \E d \in Devices, h \in Holds, r \in receipts : PostDecision(d, h, r)
    <3>1. PICK d \in Devices, h \in Holds, r \in receipts : PostDecision(d, h, r)
      BY <2>2, Zenon
    <3>2. mem.device[d].agent \in Agents \cup {None} /\ r \in Receipts
      BY Zenon DEF StoreInv, NotesInv, Snapshot, DeviceRec
    <3> QED BY <3>1, <3>2 DEF PostDecision, NotesInv, Posted
  <2> QED BY <2>1, <2>2, NotesGrow, Zenon
<1> QED BY <1>1, <1>2, <1>3, Zenon DEF NotesInv

-----------------------------------------------------------------------------
(* What holds of the relay, for any number of agents, devices, holds,      *)
(* failed writes and restarts.                                             *)

(* The invariant holds of an empty relay.                                  *)
LEMMA RelayStarts == RelayConstants /\ Init => StoreInv /\ NotesInv
<1> SUFFICES ASSUME RelayConstants, Init
             PROVE  StoreInv /\ NotesInv
  BY Zenon
<1> DEFINE s == [hold |-> [h \in Holds |-> None],
                 device |-> [d \in Devices |-> [agent |-> None, revoked |-> FALSE]]]
<1>1. mem = s /\ disk = s
  BY Zenon DEF Init, StoreInit
<1>2. s \in Snapshot /\ \A h \in Holds : s.hold[h] = None
  BY Zenon DEF Snapshot, DeviceRec
<1> HIDE DEF s
<1>3. Sound(s.hold)
  BY <1>2, Zenon DEF Sound
<1>4. StoreInv
  BY <1>1, <1>2, <1>3, FollowsItself, Zenon DEF StoreInv
<1>5. NotesInv
  BY Zenon DEF Init, StoreInit, NotesInv
<1> QED BY <1>4, <1>5, Zenon

(* The invariant is inductive.                                             *)
LEMMA RelayInvariance == RelayConstants => (Spec => [](StoreInv /\ NotesInv))
<1> SUFFICES ASSUME RelayConstants
             PROVE  Spec => [](StoreInv /\ NotesInv)
  BY Zenon
<1>1. Init => StoreInv /\ NotesInv
  BY RelayStarts, Zenon
<1>2. StoreInv /\ NotesInv /\ [Next]_(vars) => (StoreInv /\ NotesInv)'
  BY NextMoves, MovesKeep, NextNotes, Zenon
<1> QED BY <1>1, <1>2, PTL DEF Spec

(* A hold opened with a deferred receipt is decided only by a receipt that *)
(* was signed for that very hold, whatever was posted where and whatever   *)
(* put failed in between (createHold, decide).                             *)
THEOREM ReceiptsDecideTheirHold == RelayConstants => (Spec => []DecidedForThisHold)
<1> SUFFICES ASSUME RelayConstants
             PROVE  Spec => []DecidedForThisHold
  BY Zenon
<1>1. StoreInv => DecidedForThisHold
  BY Zenon DEF StoreInv, Sound, DecidedForThisHold, Stored
<1> QED BY <1>1, RelayInvariance, PTL

(* One hold for each agent and idempotency key, over every failed put and  *)
(* every restart (createHold).                                             *)
THEOREM KeysNameOneHold == RelayConstants => (Spec => []OneHoldPerKey)
<1> SUFFICES ASSUME RelayConstants
             PROVE  Spec => []OneHoldPerKey
  BY Zenon
<1>1. StoreInv => OneHoldPerKey
  BY Zenon DEF StoreInv, Sound, OneHoldPerKey, Stored
<1> QED BY <1>1, RelayInvariance, PTL

(* A device that was revoked while the body of its decision was on the way *)
(* decides nothing, and no restart brings a decision of one (decide).      *)
THEOREM RevokedDecidesNothing ==
    RelayConstants => (Spec => [][DecidesUnrevoked]_(vars))
<1> SUFFICES ASSUME RelayConstants
             PROVE  Spec => [][DecidesUnrevoked]_(vars)
  BY Zenon
<1>1. StoreInv /\ NotesInv /\ [Next]_(vars) => DecidesUnrevoked
  <2> SUFFICES ASSUME StoreInv, NotesInv, [Next]_(vars), NEW h \in Stored,
                      mem.hold[h].receipt = None, mem'.hold[h].receipt # None
               PROVE  ~mem.device[mem'.hold[h].receipt.by].revoked
    BY Zenon DEF DecidesUnrevoked
  <2>1. PICK n : Change(n) /\ Moves(n)
    BY NextMoves, Zenon
  <2>2. h \in Holds /\ mem.hold[h] # None
    BY Zenon DEF Stored
  <2>3. disk.hold[h].receipt = None
    BY <2>2, Zenon DEF StoreInv, Follows, Keeps, SameKnown
  <2> QED BY <2>1, <2>2, <2>3, Zenon DEF Change, Moves, ByUnrevoked
<1> QED BY <1>1, RelayInvariance, PTL DEF Spec

(* The holds that are not unsaved are in the file as they are in memory,   *)
(* and so is what agents were told of them.                                *)
ToldInv ==
    /\ \A h \in Holds \ unsaved : mem.hold[h] = disk.hold[h]
    /\ \A t \in told : t.saved =>
          /\ t.hold \in Holds /\ disk.hold[t.hold] # None
          /\ disk.hold[t.hold].status # "PENDING"
          /\ Lifecycle(disk.hold[t.hold].status) = t.lifecycle

(* Memory and file part only at the holds whose put threw, and the file    *)
(* keeps what it has.                                                      *)
LEMMA MovesTogether ==
    ASSUME StoreInv, ToldInv, NEW n, Change(n), Moves(n)
    PROVE  /\ \A h \in Holds \ unsaved' : mem'.hold[h] = disk'.hold[h]
           /\ Follows(disk.hold, disk'.hold)
<1>1. Follows(disk.hold, n.hold)
  BY FollowsOn, Zenon DEF StoreInv, Change
<1>2. \A h \in Holds : h \notin unsaved => mem.hold[h] = disk.hold[h]
  BY Zenon DEF ToldInv
<1> QED BY <1>1, <1>2, FollowsItself, Zenon DEF Moves

(* An answer tells of a hold that is settled in memory, and says so when   *)
(* the hold is saved.                                                      *)
Answers(h, status) ==
    /\ \E saved \in BOOLEAN : Tell(h, status, saved) /\ (saved => h \notin unsaved')
    /\ mem'.hold[h] # None /\ mem'.hold[h].status # "PENDING"
    /\ Lifecycle(mem'.hold[h].status) = Lifecycle(status)

(* lazyExpire answers with the hold it has expired.                        *)
LEMMA LazyAnswers ==
    ASSUME RelayConstants, StoreInv, NEW h \in Holds, NEW o, LazyExpire(h, o)
    PROVE  told' = told \/ Answers(h, "EXPIRED")
<1>1. CASE o = "ok" /\ Tell(h, "EXPIRED", TRUE)
  <2>1. PICK n : Change(n) /\ mem' = n /\ n.hold[h] = ExpiredHold(h)
    BY <1>1, LazyMoves, Zenon
  <2>2. mem.hold[h] # None /\ mem.hold[h] \in HoldRec
    BY Zenon DEF LazyExpire, Overdue, Pending, Stored, StoreInv, Snapshot
  <2>3. n.hold[h] # None
    BY <2>1, <2>2, Zenon DEF Change, Follows, Keeps
  <2>4. n.hold[h].status = "EXPIRED"
    BY <2>1, <2>2, Zenon DEF ExpiredHold, HoldRec
  <2>5. unsaved' = {}
    BY <1>1, Zenon DEF LazyExpire, NoteUnsaved
  <2> QED BY <1>1, <2>1, <2>3, <2>4, <2>5, Zenon DEF Answers
<1> QED BY <1>1, Zenon DEF LazyExpire

(* decide answers with the hold it has decided.                            *)
LEMMA DecideAnswers ==
    ASSUME RelayConstants, StoreInv, NotesInv, NEW p \in posts, NEW o, Decide(p, o)
    PROVE  p.hold \in Holds /\ (told' = told \/ Answers(p.hold, "APPROVED"))
<1>1. p.hold \in Holds /\ mem.hold[p.hold] # None
  BY Zenon DEF Decide, Pending, Stored
<1>2. CASE o = "ok" /\ Tell(p.hold, "APPROVED", TRUE)
  <2>1. PICK n : /\ Change(n) /\ mem' = n
                 /\ n.hold[p.hold].status \in {"APPROVED", "DENIED"}
    BY <1>2, DecideMoves, Zenon
  <2>2. n.hold[p.hold] # None
    BY <1>1, <2>1, Zenon DEF Change, Follows, Keeps
  <2>3. unsaved' = {}
    BY <1>2, Zenon DEF Decide, NoteUnsaved
  <2> QED BY <1>1, <1>2, <2>1, <2>2, <2>3, Zenon DEF Answers, Lifecycle
<1> QED BY <1>1, <1>2, Zenon DEF Decide

(* A read of a settled hold answers with it.                               *)
LEMMA ReadAnswers ==
    ASSUME NEW h \in Stored, mem' = mem, unsaved' = unsaved,
           mem.hold[h].status # "PENDING",
           Tell(h, mem.hold[h].status, h \notin unsaved)
    PROVE  Answers(h, mem.hold[h].status)
BY Zenon DEF Answers, Stored

(* Every step answers nobody or tells of a settled hold.                   *)
LEMMA NextAnswers ==
    ASSUME RelayConstants, StoreInv, NotesInv, [Next]_(vars)
    PROVE  told' = told \/ \E h \in Holds : \E status : Answers(h, status)
<1>1. CASE \E o \in Outcomes, h \in Holds : LazyExpire(h, o)
  BY <1>1, LazyAnswers, Zenon
<1>2. CASE \E o \in Outcomes, p \in posts : Decide(p, o)
  BY <1>2, DecideAnswers, Zenon
<1>3. CASE \E a \in Agents, k \in Keys : Retry(a, k)
  <2>1. PICK h \in Stored : /\ mem.hold[h].status # "PENDING"
                            /\ Tell(h, mem.hold[h].status, h \notin unsaved)
    BY <1>3, Zenon DEF Retry, ByKey
  <2>2. mem' = mem /\ unsaved' = unsaved /\ h \in Holds
    BY <1>3, Zenon DEF Retry, storeVars, Stored
  <2> QED BY <2>1, <2>2, ReadAnswers, Zenon
<1>4. CASE \E h \in Holds : GetHold(h)
  <2>1. PICK h \in Holds : /\ h \in Stored \ Pending
                           /\ Tell(h, mem.hold[h].status, h \notin unsaved)
    BY <1>4, Zenon DEF GetHold
  <2>2. mem' = mem /\ unsaved' = unsaved /\ mem.hold[h].status # "PENDING"
    BY <1>4, <2>1, Zenon DEF GetHold, storeVars, Pending
  <2> QED BY <2>1, <2>2, ReadAnswers, Zenon
<1>5. CASE \/ \E o \in Outcomes, a \in Agents, k \in Keys, act \in Actions,
                 d \in Deferreds \cup {None}, h \in Holds : CreateHold(a, k, act, d, h, o)
           \/ \E o \in Outcomes, d \in Devices :
                 RevokeSelf(d, o) \/ \E a \in Agents : ClaimDevice(a, d, o)
           \/ Sweep
  BY <1>5, Zenon DEF CreateHold, RevokeSelf, ClaimDevice, Sweep
<1>6. CASE \/ UNCHANGED vars
           \/ \E h \in Holds : Wait(h)
           \/ \E w \in waiting : PollEnds(w)
           \/ \E d \in Devices, h \in Holds, v \in Verdicts : Sign(d, h, v)
           \/ \E d \in Devices, h \in Holds, r \in receipts : PostDecision(d, h, r)
           \/ \E p \in posts : RefuseDecision(p)
           \/ Tick \/ Stop \/ Restart
  BY <1>6, Zenon DEF vars, Wait, PollEnds, Sign, PostDecision,
                     RefuseDecision, Tick, Stop, Restart
<1> QED BY <1>1, <1>2, <1>3, <1>4, <1>5, <1>6, Zenon DEF Next

(* Every step keeps what was told in the file.                             *)
LEMMA NextTold ==
    ASSUME RelayConstants, StoreInv, NotesInv, ToldInv, [Next]_(vars)
    PROVE  ToldInv'
<1> DEFINE InFile(t) == /\ t.hold \in Holds /\ disk'.hold[t.hold] # None
                        /\ disk'.hold[t.hold].status # "PENDING"
                        /\ Lifecycle(disk'.hold[t.hold].status) = t.lifecycle
<1>1. PICK n : Change(n) /\ Moves(n)
  BY NextMoves, Zenon
<1>2. /\ \A h \in Holds \ unsaved' : mem'.hold[h] = disk'.hold[h]
      /\ Follows(disk.hold, disk'.hold)
  BY <1>1, MovesTogether, Zenon
<1>3. ASSUME NEW t \in told, t.saved
      PROVE  InFile(t)
  BY <1>2, <1>3 DEF ToldInv, Follows, Keeps
<1>4. ASSUME NEW t \in told', t \notin told, t.saved
      PROVE  InFile(t)
  <2>1. PICK h \in Holds : \E status : Answers(h, status)
    BY <1>4, NextAnswers, Zenon
  <2>2. PICK status : Answers(h, status)
    BY <2>1, Zenon
  <2>3. PICK saved \in BOOLEAN : Tell(h, status, saved) /\ (saved => h \notin unsaved')
    BY <2>2, Zenon DEF Answers
  <2>4. t = [hold |-> h, lifecycle |-> Lifecycle(status), saved |-> saved]
    BY <1>4, <2>3, Zenon DEF Tell
  <2>5. mem'.hold[h] = disk'.hold[h]
    BY <1>2, <1>4, <2>3, <2>4, Zenon
  <2> QED BY <2>2, <2>4, <2>5, Zenon DEF Answers
<1> QED BY <1>2, <1>3, <1>4, Zenon DEF ToldInv

(* What an agent was told of a hold is in the file and stays there, over   *)
(* any number of failed puts and crashes: the answer comes after the put   *)
(* (decide, lazyExpire, holdView).  Excepted is the answer about a hold    *)
(* whose own put threw, given before another put has succeeded.            *)
THEOREM AnswersStayDurable == RelayConstants => (Spec => []ToldIsDurable)
<1> SUFFICES ASSUME RelayConstants
             PROVE  Spec => []ToldIsDurable
  BY Zenon
<1>1. Init => ToldInv
  BY Zenon DEF Init, StoreInit, ToldInv
<1>2. StoreInv /\ NotesInv /\ ToldInv /\ [Next]_(vars) => ToldInv'
  BY NextTold
<1>3. ToldInv => ToldIsDurable
  BY DEF ToldInv, ToldIsDurable
<1> QED BY <1>1, <1>2, <1>3, RelayInvariance, PTL DEF Spec

-----------------------------------------------------------------------------
(* The manifests of the tenants.                                           *)

Pub == INSTANCE RelayManifest

(* "No manifest" is not one.                                               *)
ManifestConstants == None \notin Pub!Manifest /\ MaxVersion \in Nat

(* A publish of this era is the tenant's record, or an earlier version.    *)
Supersedes(p, rec) ==
    /\ rec # None
    /\ rec.version >= p.record.version
    /\ rec.version = p.record.version =>
           rec.content = p.record.content /\ rec.delegation = p.record.delegation

ManifestType ==
    /\ mem \in [Tenants -> Pub!Manifest \cup {None}]
    /\ disk = mem
    /\ regenesis \in [Tenants -> Nat]
    /\ published \subseteq [tenant : Tenants, record : {r \in Pub!Manifest : r.bounded}, era : Nat]

(* A tenant is opened anew at most once: its record is bounded from then.  *)
ManifestInv ==
    /\ ManifestType
    /\ \A t \in Tenants : regenesis[t] > 0 => mem[t] # None /\ mem[t].bounded
    /\ \A p \in published : p.era <= regenesis[p.tenant]
    /\ \A p \in published : p.era = regenesis[p.tenant] => Supersedes(p, mem[p.tenant])
    /\ Pub!NoEquivocation

(* What a publish does that is not refused: to a tenant whose record no    *)
(* publish can have made; to any other; a repetition.                      *)
Anew(t, rec) ==
    /\ mem[t] # None /\ mem[t].version > MaxSaneVersion /\ ~mem[t].bounded
    /\ mem' = [mem EXCEPT ![t] = rec]
    /\ regenesis' = [regenesis EXCEPT ![t] = @ + 1]
Advances(t, rec) ==
    /\ mem[t] # None => rec.version > mem[t].version
    /\ mem' = [mem EXCEPT ![t] = rec]
    /\ regenesis' = regenesis
Repeats(t, rec) ==
    /\ mem[t] # None
    /\ rec.version = mem[t].version
    /\ rec.content = mem[t].content /\ rec.delegation = mem[t].delegation
    /\ mem' = mem /\ regenesis' = regenesis

Publishes(t, rec) ==
    /\ rec \in Pub!Manifest /\ rec.bounded
    /\ Anew(t, rec) \/ Advances(t, rec) \/ Repeats(t, rec)
    /\ \/ published' = published
       \/ published' = published \cup {[tenant |-> t, record |-> rec, era |-> regenesis'[t]]}

(* Nothing happens to a manifest: a put that failed, a stop, a restart.    *)
KeepsManifests == mem' = mem /\ regenesis' = regenesis /\ published' = published

(* The record of a publish is a bounded manifest of the version asked.     *)
LEMMA RecordIsBounded ==
    ASSUME ManifestConstants, NEW cur \in Pub!Manifest \cup {None}, NEW v \in 0..MaxVersion,
           NEW c \in Contents, NEW d \in Delegations \cup {None},
           NEW rec, rec = Pub!RecordFor(cur, v, c, d)
    PROVE  rec \in Pub!Manifest /\ rec.bounded
<1>1. (IF cur # None /\ d = None /\ v = cur.version THEN cur.delegation ELSE d)
          \in Delegations \cup {None}
  BY Zenon DEF Pub!Manifest
<1> QED BY <1>1, Zenon DEF Pub!RecordFor, Pub!Manifest

(* putManifest publishes, or fails and leaves everything alone.            *)
LEMMA PutPublishes ==
    ASSUME ManifestConstants, ManifestType, NEW t \in Tenants, NEW v \in 0..MaxVersion,
           NEW c \in Contents, NEW d \in Delegations \cup {None}, NEW o,
           Pub!PutManifest(t, v, c, d, o)
    PROVE  disk' = mem' /\ (KeepsManifests \/ \E rec : Publishes(t, rec))
<1> DEFINE rec == Pub!RecordFor(mem[t], v, c, d)
           new == [mem EXCEPT ![t] = rec]
<1>1. mem[t] \in Pub!Manifest \cup {None} /\ disk = mem
  BY Zenon DEF ManifestType
<1>2. rec \in Pub!Manifest /\ rec.bounded
  BY <1>1, RecordIsBounded, Zenon
<1>3. \/ published' = published
      \/ published' = published \cup {[tenant |-> t, record |-> rec, era |-> regenesis'[t]]}
  BY Zenon DEF Pub!PutManifest, Pub!Answer
<1>4. o # "ok" => published' = published
  BY Zenon DEF Pub!PutManifest
<1> HIDE DEF rec
<1>5. ASSUME Pub!PutCopy(new, o)
      PROVE  \/ mem' = new /\ disk' = new /\ o # "failed"
             \/ mem' = mem /\ disk' = disk /\ o = "failed"
  BY <1>5, Zenon DEF Pub!PutCopy, Pub!Persisted, Pub!RolledBackTo, Pub!DiesWith
<1>6. CASE Pub!Unreachable(mem[t]) /\ Pub!PutCopy(new, o)
           /\ IF o = "failed" THEN UNCHANGED regenesis
              ELSE regenesis' = [regenesis EXCEPT ![t] = @ + 1]
  BY <1>1, <1>2, <1>3, <1>4, <1>5, <1>6, Zenon DEF Pub!Unreachable, Publishes, Anew, KeepsManifests
<1>7. CASE ~Pub!Unreachable(mem[t]) /\ Pub!Classify(mem[t], rec) = "stored"
           /\ Pub!PutCopy(new, o) /\ UNCHANGED regenesis
  <2>1. mem[t] # None => rec.version > mem[t].version
    BY <1>7, Zenon DEF Pub!Classify
  <2> QED BY <1>1, <1>2, <1>3, <1>4, <1>5, <1>7, <2>1, Zenon DEF Publishes, Advances, KeepsManifests
<1>8. CASE ~Pub!Unreachable(mem[t]) /\ Pub!Classify(mem[t], rec) = "idempotent"
           /\ o = "ok" /\ UNCHANGED <<Pub!storeVars, regenesis>>
  <2>1. /\ mem[t] # None
        /\ ~(rec.version > mem[t].version) /\ ~(rec.version < mem[t].version)
        /\ rec.content = mem[t].content /\ rec.delegation = mem[t].delegation
    BY <1>8 DEF Pub!Classify
  <2>2. rec.version = mem[t].version
    BY <2>1, <1>1, <1>2 DEF Pub!Manifest, ManifestConstants
  <2> QED BY <1>1, <1>2, <1>3, <1>8, <2>1, <2>2, Zenon DEF Publishes, Repeats, Pub!storeVars
<1>9. \/ /\ Pub!Unreachable(mem[t]) /\ Pub!PutCopy(new, o)
         /\ IF o = "failed" THEN UNCHANGED regenesis
            ELSE regenesis' = [regenesis EXCEPT ![t] = @ + 1]
      \/ ~Pub!Unreachable(mem[t]) /\ Pub!Classify(mem[t], rec) = "stored"
           /\ Pub!PutCopy(new, o) /\ UNCHANGED regenesis
      \/ ~Pub!Unreachable(mem[t]) /\ Pub!Classify(mem[t], rec) = "idempotent"
           /\ o = "ok" /\ UNCHANGED <<Pub!storeVars, regenesis>>
  BY Zenon DEF Pub!PutManifest, rec
<1> QED BY <1>6, <1>7, <1>8, <1>9, Zenon

(* Every step publishes or leaves the manifests alone.                     *)
LEMMA NextPublishes ==
    ASSUME ManifestConstants, ManifestType, [Pub!Next]_(Pub!vars)
    PROVE  disk' = mem' /\ (KeepsManifests \/ \E t \in Tenants : \E rec : Publishes(t, rec))
<1>1. CASE \E t \in Tenants, v \in 0..MaxVersion, c \in Contents,
              d \in Delegations \cup {None}, o \in Pub!Outcomes : Pub!PutManifest(t, v, c, d, o)
  BY <1>1, PutPublishes, Zenon
<1>2. CASE UNCHANGED Pub!vars
  BY <1>2, Zenon DEF Pub!vars, Pub!storeVars, KeepsManifests, ManifestType
<1>3. CASE Pub!Stop \/ Pub!Restart
  BY <1>3, Zenon DEF Pub!Stop, Pub!Restart, Pub!Crash, Pub!DiesWith, Pub!Close,
       Pub!RemoveLock, Pub!Open, KeepsManifests, ManifestType
<1> QED BY <1>1, <1>2, <1>3, Zenon DEF Pub!Next

(* A publish keeps the types.                                              *)
LEMMA PublishTyped ==
    ASSUME ManifestType, NEW t \in Tenants, NEW rec, Publishes(t, rec), disk' = mem'
    PROVE  ManifestType'
<1>1. mem' \in [Tenants -> Pub!Manifest \cup {None}]
  BY DEF ManifestType, Publishes, Anew, Advances, Repeats
<1>2. regenesis' \in [Tenants -> Nat]
  BY DEF ManifestType, Publishes, Anew, Advances, Repeats
<1>3. regenesis'[t] \in Nat
  BY <1>2, Zenon
<1>4. published' \subseteq [tenant : Tenants, record : {r \in Pub!Manifest : r.bounded}, era : Nat]
  BY <1>3 DEF ManifestType, Publishes
<1> QED BY <1>1, <1>2, <1>4, Zenon DEF ManifestType

(* A publish keeps what is said of tenants opened anew, of publishes of    *)
(* the present era, and of two publishes of one version.                   *)
LEMMA PublishKeeps ==
    ASSUME ManifestConstants, ManifestInv, NEW t \in Tenants, NEW rec, Publishes(t, rec), disk' = mem'
    PROVE  ManifestInv'
<1>1. ManifestType /\ ManifestType'
  BY PublishTyped, Zenon DEF ManifestInv
<1>2. rec \in Pub!Manifest /\ rec.bounded /\ rec # None /\ rec.version \in Nat
  <2>1. rec \in Pub!Manifest /\ rec.bounded /\ rec # None
    BY Zenon DEF Publishes, ManifestConstants
  <2> QED BY <2>1 DEF Pub!Manifest, ManifestConstants
<1>3. /\ \A u \in Tenants : u # t => mem'[u] = mem[u] /\ regenesis'[u] = regenesis[u]
      /\ mem'[t] = rec \/ (Repeats(t, rec) /\ mem'[t] = mem[t])
      /\ regenesis'[t] = regenesis[t] \/ (Anew(t, rec) /\ regenesis'[t] = regenesis[t] + 1)
  BY <1>1, Zenon DEF ManifestType, Publishes, Anew, Advances, Repeats
<1>4. regenesis[t] \in Nat /\ \A p \in published : p.tenant \in Tenants /\ p.era \in Nat
                                /\ p.record \in Pub!Manifest /\ p.record.bounded
  BY <1>1, Zenon DEF ManifestType
<1>5. \A u \in Tenants : regenesis'[u] > 0 => mem'[u] # None /\ mem'[u].bounded
  BY <1>2, <1>3, <1>4, Zenon DEF ManifestInv, Repeats
<1>6. ASSUME NEW p \in published
      PROVE  /\ p.era <= regenesis'[p.tenant]
             /\ p.era = regenesis'[p.tenant] => Supersedes(p, mem'[p.tenant])
  <2>1. CASE p.tenant # t
    BY <2>1, <1>3, <1>4, Zenon DEF ManifestInv
  <2>2. CASE p.tenant = t
    <3>1. p.era <= regenesis[t] /\ (p.era = regenesis[t] => Supersedes(p, mem[t]))
      BY <2>2, Zenon DEF ManifestInv
    <3>2. CASE Anew(t, rec)
      <4>1. regenesis'[t] = regenesis[t] + 1
        BY <3>2, <1>1, Zenon DEF Anew, ManifestType
      <4> QED BY <2>2, <3>1, <4>1, <1>4
    <3>3. CASE Advances(t, rec)
      <4>1. regenesis'[t] = regenesis[t] /\ mem'[t] = rec
        BY <3>3, <1>1, Zenon DEF Advances, ManifestType
      <4>2. Supersedes(p, mem[t]) => Supersedes(p, rec)
        <5> SUFFICES ASSUME Supersedes(p, mem[t])
                     PROVE  Supersedes(p, rec)
          OBVIOUS
        <5>1. mem[t] \in Pub!Manifest
          BY <1>1, Zenon DEF ManifestType, Supersedes
        <5>2. rec.version > mem[t].version /\ mem[t].version >= p.record.version
          BY <3>3, Zenon DEF Advances, Supersedes
        <5>3. mem[t].version \in Nat /\ p.record.version \in Nat
          BY <1>4, <5>1 DEF Pub!Manifest, ManifestConstants
        <5> QED BY <5>2, <5>3, <1>2 DEF Supersedes
      <4> QED BY <2>2, <3>1, <4>1, <4>2, Zenon
    <3>4. CASE Repeats(t, rec)
      BY <2>2, <3>1, <3>4, Zenon DEF Repeats
    <3> QED BY <3>2, <3>3, <3>4, Zenon DEF Publishes
  <2> QED BY <2>1, <2>2, Zenon
<1> DEFINE q == [tenant |-> t, record |-> rec, era |-> regenesis'[t]]
<1>7. q.tenant = t /\ q.record = rec /\ q.era = regenesis'[t] /\ regenesis'[t] \in Nat
  BY <1>1, Zenon DEF ManifestType
<1>8. \A p \in published' : p \in published \/ p = q
  BY Zenon DEF Publishes
<1> HIDE DEF q
<1>9. q.era <= regenesis'[q.tenant] /\ Supersedes(q, mem'[q.tenant])
  <2>1. q.era <= regenesis'[q.tenant]
    BY <1>7
  <2>2. mem'[t] # None
    BY <1>2, <1>3, Zenon DEF Repeats
  <2>3. mem'[t].version = rec.version /\ mem'[t].content = rec.content /\ mem'[t].delegation = rec.delegation
    BY <1>3, Zenon DEF Repeats
  <2> QED BY <2>1, <2>2, <2>3, <1>2, <1>7 DEF Supersedes
<1>10. ASSUME NEW p \in published, p.tenant = t, p.era = regenesis'[t], p.record.version = rec.version
       PROVE  p.record = rec
  <2>1. p.era <= regenesis[t] /\ (p.era = regenesis[t] => Supersedes(p, mem[t]))
    BY <1>10, Zenon DEF ManifestInv
  <2>2. ~Anew(t, rec)
    <3>1. Anew(t, rec) => regenesis'[t] = regenesis[t] + 1
      BY <1>1, Zenon DEF Anew, ManifestType
    <3> QED BY <3>1, <2>1, <1>4, <1>10
  <2>3. regenesis'[t] = regenesis[t] /\ Supersedes(p, mem[t])
    BY <2>1, <2>2, <1>3, <1>10, Zenon
  <2>4. mem[t] \in Pub!Manifest
    BY <2>3, <1>1, Zenon DEF ManifestType, Supersedes
  <2>5. mem[t].version \in Nat
    BY <2>4 DEF Pub!Manifest, ManifestConstants
  <2>6. ~Advances(t, rec)
    BY <2>3, <2>5, <1>2, <1>10 DEF Advances, Supersedes
  <2>7. p.record.content = rec.content /\ p.record.delegation = rec.delegation
    BY <2>2, <2>3, <2>6, <1>10, Zenon DEF Publishes, Repeats, Supersedes
  <2> QED BY <2>7, <1>2, <1>4, <1>10 DEF Pub!Manifest
<1>11. Pub!NoEquivocation'
  <2> SUFFICES ASSUME NEW p \in published', NEW r \in published', p.tenant = r.tenant,
                      p.era = r.era, p.record.version = r.record.version
               PROVE  p.record = r.record
    BY Zenon DEF Pub!NoEquivocation
  <2>1. CASE p \in published /\ r \in published
    BY <2>1, Zenon DEF ManifestInv, Pub!NoEquivocation
  <2>2. CASE p \in published /\ r = q
    BY <2>2, <1>7, <1>10, Zenon
  <2>3. CASE p = q /\ r \in published
    BY <2>3, <1>7, <1>10, Zenon
  <2> QED BY <1>8, <2>1, <2>2, <2>3, Zenon
<1>12. \A p \in published' : p.era <= regenesis'[p.tenant]
  BY <1>6, <1>8, <1>9, Zenon
<1>13. \A p \in published' : p.era = regenesis'[p.tenant] => Supersedes(p, mem'[p.tenant])
  BY <1>6, <1>8, <1>9, Zenon
<1> QED BY <1>1, <1>5, <1>11, <1>12, <1>13, Zenon DEF ManifestInv, Supersedes

(* The invariant is inductive.                                             *)
LEMMA ManifestInvariance == ManifestConstants => (Pub!Spec => []ManifestInv)
<1> SUFFICES ASSUME ManifestConstants
             PROVE  Pub!Spec => []ManifestInv
  BY Zenon
<1>1. Pub!Init => ManifestInv
  <2> SUFFICES ASSUME Pub!Init
               PROVE  ManifestInv
    BY Zenon
  <2>1. PICK start \in [Tenants -> Pub!Legacy \cup {None}] : mem = start /\ disk = start
    BY Zenon DEF Pub!Init, Pub!StoreInit
  <2>2. mem \in [Tenants -> Pub!Manifest \cup {None}] /\ disk = mem
    BY <2>1 DEF Pub!Legacy
  <2>3. regenesis = [t \in Tenants |-> 0] /\ published = {}
    BY Zenon DEF Pub!Init
  <2> QED BY <2>2, <2>3 DEF ManifestInv, ManifestType, Pub!NoEquivocation
<1>2. ManifestInv /\ [Pub!Next]_(Pub!vars) => ManifestInv'
  <2> SUFFICES ASSUME ManifestInv, [Pub!Next]_(Pub!vars)
               PROVE  ManifestInv'
    BY Zenon
  <2>1. disk' = mem' /\ (KeepsManifests \/ \E t \in Tenants : \E rec : Publishes(t, rec))
    BY NextPublishes, Zenon DEF ManifestInv
  <2>2. CASE KeepsManifests
    BY <2>1, <2>2, Zenon DEF KeepsManifests, ManifestInv, ManifestType, Supersedes, Pub!NoEquivocation
  <2> QED BY <2>1, <2>2, PublishKeeps, Zenon
<1> QED BY <1>1, <1>2, PTL DEF Pub!Spec

(* Two publishes of one version of a tenant that the relay accepted are of *)
(* the same manifest and delegation, for any number of tenants, publishes, *)
(* failed writes and restarts (classifyManifestPut).                       *)
THEOREM ManifestsAgree == ManifestConstants => (Pub!Spec => []Pub!NoEquivocation)
<1>1. ManifestInv => Pub!NoEquivocation
  BY Zenon DEF ManifestInv
<1> QED BY <1>1, ManifestInvariance, PTL

(* An accepted publish is in the file, as that record or as a later one,   *)
(* over every crash (putManifest persists before it answers).              *)
THEOREM PublishesStay == ManifestConstants => (Pub!Spec => []Pub!PublishedIsDurable)
<1>1. ManifestInv => Pub!PublishedIsDurable
  BY Zenon DEF ManifestInv, ManifestType, Supersedes, Pub!PublishedIsDurable
<1> QED BY <1>1, ManifestInvariance, PTL

(* A tenant's version only grows, except that a record from before the     *)
(* bound gives way once (putManifest, storedIsUnreachable).                *)
THEOREM VersionsOnlyGrow ==
    ManifestConstants => (Pub!Spec => [][Pub!VersionsGrow]_(Pub!vars))
<1> SUFFICES ASSUME ManifestConstants
             PROVE  Pub!Spec => [][Pub!VersionsGrow]_(Pub!vars)
  BY Zenon
<1>1. ManifestInv /\ [Pub!Next]_(Pub!vars) => Pub!VersionsGrow
  <2> SUFFICES ASSUME ManifestInv, [Pub!Next]_(Pub!vars), NEW u \in Tenants, mem[u] # None
               PROVE  \/ mem'[u] # None /\ mem'[u].version >= mem[u].version
                      \/ ~mem[u].bounded /\ mem[u].version > MaxSaneVersion /\ regenesis[u] = 0
    BY Zenon DEF Pub!VersionsGrow
  <2>1. ManifestType /\ mem[u] \in Pub!Manifest /\ regenesis[u] \in Nat
    BY Zenon DEF ManifestInv, ManifestType
  <2>2. mem[u].version \in Nat
    BY <2>1 DEF Pub!Manifest, ManifestConstants
  <2>3. CASE mem'[u] = mem[u]
    BY <2>2, <2>3
  <2>4. ASSUME NEW t \in Tenants, NEW rec, Publishes(t, rec), mem'[u] # mem[u]
        PROVE  \/ mem'[u] # None /\ mem'[u].version >= mem[u].version
               \/ ~mem[u].bounded /\ mem[u].version > MaxSaneVersion /\ regenesis[u] = 0
    <3>1. t = u /\ mem'[u] = rec /\ ~Repeats(t, rec)
      BY <2>1, <2>4, Zenon DEF ManifestType, Publishes, Anew, Advances, Repeats
    <3>2. rec # None /\ rec \in Pub!Manifest
      BY <2>4, Zenon DEF Publishes, ManifestConstants
    <3>3. rec.version \in Nat
      BY <3>2 DEF Pub!Manifest, ManifestConstants
    <3>4. CASE Anew(t, rec)
      <4>1. ~(regenesis[u] > 0)
        BY <3>1, <3>4, Zenon DEF ManifestInv, Anew
      <4> QED BY <3>1, <3>4, <4>1, <2>1 DEF Anew
    <3>5. CASE Advances(t, rec)
      BY <3>1, <3>2, <3>3, <3>5, <2>2 DEF Advances
    <3> QED BY <2>4, <3>1, <3>4, <3>5, Zenon DEF Publishes
  <2>5. KeepsManifests \/ \E t \in Tenants : \E rec : Publishes(t, rec)
    BY <2>1, NextPublishes, Zenon
  <2> QED BY <2>3, <2>4, <2>5, Zenon DEF KeepsManifests
<1> QED BY <1>1, ManifestInvariance, PTL DEF Pub!Spec
=============================================================================
