---------------------------- MODULE RelayManifest ----------------------------
(***************************************************************************)
(* The key manifests an agent publishes to the relay for its tenant        *)
(* (putManifest and getTrust of packages/relay/src/engine.ts, and          *)
(* classifyManifestPut of store.ts), over the file store.                  *)
(*                                                                         *)
(* A tenant may start with a record of a relay that did not bound the      *)
(* version: the one record that may be replaced by a lower version.        *)
(***************************************************************************)
EXTENDS RelayStore, FiniteSets

CONSTANTS
    Tenants, Contents, Delegations, None,
    MaxVersionJump, MaxGenesisVersion, MaxSaneVersion,
    MaxVersion      \* bound of the model

VARIABLES
    published,      \* history: publishes answered 200
    regenesis       \* history: how often a tenant was opened anew

vars == <<storeVars, published, regenesis>>

Manifest == [version : 0..MaxVersion, content : Contents,
             delegation : Delegations \cup {None}, bounded : BOOLEAN]

Legacy == {r \in Manifest : ~r.bounded}

Init ==
    /\ \E start \in [Tenants -> Legacy \cup {None}] : StoreInit(start)
    /\ published = {}
    /\ regenesis = [t \in Tenants |-> 0]

\* Mutant: a high version alone shows that no publish produced the record.
UnreachableByNumber(cur) == cur # None /\ cur.version > MaxSaneVersion

(* storedIsUnreachable                                                     *)
Unreachable(cur) ==
    cur # None /\ cur.version > MaxSaneVersion /\ ~cur.bounded

(* The advance of one publish is bounded.                                  *)
InBounds(cur, v) ==
    IF cur = None \/ Unreachable(cur)
    THEN v <= MaxGenesisVersion
    ELSE v <= cur.version + MaxVersionJump

(* The record of a publish: an omitted delegation of a retry is the stored *)
(* one.                                                                    *)
RecordFor(cur, v, c, d) ==
    [version |-> v, content |-> c,
     delegation |-> IF cur # None /\ d = None /\ v = cur.version
                    THEN cur.delegation ELSE d,
     bounded |-> TRUE]

(* classifyManifestPut                                                     *)
Classify(cur, rec) ==
    IF cur = None THEN "stored"
    ELSE IF rec.version > cur.version THEN "stored"
    ELSE IF rec.version < cur.version THEN "stale"
    ELSE IF rec.content = cur.content /\ rec.delegation = cur.delegation
         THEN "idempotent" ELSE "equivocation"

Answer(t, rec) == published' = published \cup {[tenant |-> t, record |-> rec,
                                                era |-> regenesis'[t]]}

(* putManifest of the engine, and of the store.                            *)
PutManifest(t, v, c, d, o) ==
    LET cur == mem[t]
        rec == RecordFor(cur, v, c, d)
        new == [mem EXCEPT ![t] = rec]
    IN  /\ up
        /\ InBounds(cur, v)
        /\ \/ /\ Unreachable(cur)
              /\ PutCopy(new, o)
              /\ IF o = "failed" THEN UNCHANGED regenesis
                 ELSE regenesis' = [regenesis EXCEPT ![t] = @ + 1]
           \/ /\ ~Unreachable(cur) /\ Classify(cur, rec) = "stored"
              /\ PutCopy(new, o)
              /\ UNCHANGED regenesis
           \/ /\ ~Unreachable(cur) /\ Classify(cur, rec) = "idempotent"
              /\ o = "ok"
              /\ UNCHANGED <<storeVars, regenesis>>
        /\ IF o = "ok" THEN Answer(t, rec) ELSE UNCHANGED published

Stop == (Crash \/ Close) /\ UNCHANGED <<published, regenesis>>
Restart == (RemoveLock \/ Open) /\ UNCHANGED <<published, regenesis>>

Next ==
    \/ \E t \in Tenants, v \in 0..MaxVersion, c \in Contents,
          d \in Delegations \cup {None}, o \in Outcomes : PutManifest(t, v, c, d, o)
    \/ Stop
    \/ Restart

Spec == Init /\ [][Next]_vars

-----------------------------------------------------------------------------
(* A version only grows, except where a record from before the bound is   *)
(* replaced: "no sequence of publishes can manufacture the condition", and *)
(* a tenant "recovers exactly once ... the path closes behind it"          *)
(* (putManifest, engine.ts:1147), over failed writes and crashes.          *)
VersionsGrow ==
    \A t \in Tenants : up /\ mem[t] # None =>
        \/ mem'[t] # None /\ mem'[t].version >= mem[t].version
        \/ ~mem[t].bounded /\ mem[t].version > MaxSaneVersion /\ regenesis[t] = 0

(* Two publishes of one version of a tenant that were both accepted have   *)
(* the same manifest and delegation (classifyManifestPut).                 *)
NoEquivocation ==
    \A p, q \in published :
        p.tenant = q.tenant /\ p.era = q.era /\ p.record.version = q.record.version
            => p.record = q.record

(* An accepted publish is in the file: after any crash the tenant's record *)
(* is that one or a later one (persist before the answer).                 *)
PublishedIsDurable ==
    \A p \in published :
        p.era = regenesis[p.tenant]
            => disk[p.tenant] # None /\ disk[p.tenant].version >= p.record.version
=============================================================================
