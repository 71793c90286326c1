---------------------------- MODULE Equivocation ----------------------------
(***************************************************************************)
(* The monitor of the witness federation                                   *)
(* (packages/tsa-anchor/src/equivocation.mjs): scanForEquivocation looks   *)
(* for contradictions in a pool of anchors, verifyEquivocationProof checks *)
(* a finding elsewhere, checkpointCorroboration counts the witnesses of a  *)
(* checkpoint's head.                                                      *)
(*                                                                         *)
(* A pool is a sequence of anchors.  o holds the options: history (the     *)
(* presented chain's entries, or None), stamped (the anchors with a time   *)
(* stamp on record) and the four bounds.  A stamp that does not verify     *)
(* changes no verdict, and the digest of the trust set is a hint: both are *)
(* left out, as is input that does not parse.                              *)
(***************************************************************************)
EXTENDS Completeness

CONSTANT MaxUnique      \* MAX_VERIFICATION_UNIQUE_ANCHORS

\* The elements of a sequence in the order they are first met, as the keys of
\* a Map are listed.
Keys(s) == FoldLeft(LAMBDA seen, x : IF Contains(seen, x) THEN seen ELSE Append(seen, x), <<>>, s)

\* The image of a sequence.
Each(s, Op(_)) == [i \in DOMAIN s |-> Op(s[i])]

-----------------------------------------------------------------------------
\* Admission.

admitTrustSet(trustSet) == TrustSetOk(trustSet)

\* What an anchor counts for.  In a pool the signer is looked up by the kid the
\* anchor carries; in a proof from elsewhere a kid that is not pinned gives way
\* to whichever pinned key made the signature.
admitAnchor(a, trustSet, elsewhere) ==
    LET w == Range(trustSet.witnesses)
        Signs(pin) == verifyEd25519(pin.pubkey, "anchor", anchorSigningInput(a), a.sig)
        named == {pin \in w : pin.kid = a.kid}
        pins == IF named = {} /\ elsewhere THEN {pin \in w : Signs(pin)} ELSE named
    IN  IF a.form = "bad" THEN [why |-> "malformed"]
        ELSE IF pins = {} THEN [why |-> "unpinned"]
        ELSE IF \E pin \in pins : ~ Signs(pin) THEN [why |-> "badSignature"]
        ELSE LET pin == CHOOSE p \in pins : TRUE
             IN  [why |-> "ok", anchor |-> a, chain |-> a.chain, seq |-> a.highestSeq,
                  headHash |-> a.headHash, kid |-> pin.kid, pubkey |-> pin.pubkey]

frontierKey(rec) == <<rec.chain, rec.seq>>

\* The bounds are ceilings, never switches.
BoundsOk(o) == o.maxAnchors >= 1 /\ o.maxHistory >= 1 /\ o.maxFindings >= 1 /\ o.maxBranches >= 2

\* What is refused before anything is examined.
Unscannable(pool, trustSet, o) ==
    \/ ~ BoundsOk(o)
    \/ ~ admitTrustSet(trustSet)
    \/ Len(pool) > o.maxAnchors
    \/ o.history # None /\ Len(o.history) > o.maxHistory

\* The admitted anchors, in the order of the pool.
prepare(pool, trustSet) ==
    SelectSeq(Each(pool, LAMBDA a : admitAnchor(a, trustSet, FALSE)), LAMBDA adm : adm.why = "ok")

\* Stamps are verified for a fixed number of anchors, or none.
OverStamped(records, o) ==
    Cardinality({rec.anchor : rec \in Range(records)} \intersect o.stamped) > MaxUnique

\* Mutant: the presented entry is looked up by its number alone.
PresentedBySeq(entries, key) ==
    LET at == {i \in DOMAIN entries : entries[i].seq = key[2]}
    IN  IF at = {} THEN None ELSE entries[Min(at)]

\* The presented entry of a frontier, the first of several (None: none).
addHistory(entries, key) ==
    LET at == {i \in DOMAIN entries : frontierKey(entries[i]) = key}
    IN  IF at = {} THEN None ELSE entries[Min(at)]

-----------------------------------------------------------------------------
\* The scan.

\* A branch of a finding: the anchor, and what is said about it.
branchOf(rec) == [anchor |-> rec.anchor, headHash |-> rec.headHash, witnessKid |-> rec.kid,
                  anchorHash |-> rec.anchor]

branchesOf(recs, o) == Each(SubSeq(recs, 1, Min({Len(recs), o.maxBranches})), branchOf)

\* Two records of a frontier with different heads and different keys, in the
\* order of the heads; which two of several changes no verdict.
findCrossKeyPair(recs) ==
    LET pairs == {p \in (DOMAIN recs) \X (DOMAIN recs) :
                    /\ p[1] < p[2]
                    /\ recs[p[1]].headHash # recs[p[2]].headHash
                    /\ recs[p[1]].pubkey # recs[p[2]].pubkey}
    IN  IF pairs = {} THEN <<>>
        ELSE LET p == CHOOSE q \in pairs : TRUE IN <<recs[p[1]], recs[p[2]]>>

\* A finding before it is cut: who is named, and the records that contradict.
Finding(kind, named, presented, recs) ==
    [kind |-> kind, chain |-> recs[1].chain, seq |-> recs[1].seq, attributedTo |-> named,
     presented |-> presented, recs |-> recs]

\* The contradictions of one frontier: keys that signed two heads, and two keys
\* that signed one each.  recs are its records, head by head.
SameFrontier(recs) ==
    LET By(key) == SelectSeq(recs, LAMBDA rec : rec.pubkey = key)
        \* one record per head
        Heads(key) == Each(Keys(Each(By(key), LAMBDA rec : rec.headHash)),
                           LAMBDA h : SelectSeq(By(key), LAMBDA rec : rec.headHash = h)[1])
        torn == SelectSeq(Each(Keys(Each(recs, LAMBDA rec : rec.pubkey)), Heads),
                          LAMBDA mine : Len(mine) >= 2)
        pair == findCrossKeyPair(recs)
    IN  Each(torn, LAMBDA mine : Finding("WITNESS_EQUIVOCATION", mine[1].kid, None, mine))
          \o (IF pair = <<>> THEN <<>> ELSE <<Finding("CHAIN_FORK", None, None, pair)>>)

\* The contradictions between the heads signed and the one presented.
AgainstHistory(heads, entries) ==
    LET Presented(recs) == addHistory(entries, frontierKey(recs[1]))
        bad == SelectSeq(heads, LAMBDA recs : Presented(recs) # None
                                              /\ Presented(recs).hash # recs[1].headHash)
    IN  Each(bad, LAMBDA recs : Finding("HISTORY_CONTRADICTION", None,
                                        [Presented(recs) EXCEPT !.chain = None], recs))

\* Findings cut to the bounds, and whether anything was.
CutTo(o, all) ==
    LET kept == SubSeq(all, 1, Min({Len(all), o.maxFindings}))
        Cut(f) == [x \in (DOMAIN f \ {"recs"}) \union {"branches"} |->
                      IF x = "branches" THEN branchesOf(f.recs, o) ELSE f[x]]
    IN  [findings |-> Each(kept, Cut),
         truncated |-> Len(all) > o.maxFindings \/ \E f \in Range(kept) : Len(f.recs) > o.maxBranches]

\* All findings in the records of one chain, or of any (chain None): those of
\* every frontier, then those against the presented history.
scanRecords(records, entries, chain, o) ==
    LET mine == SelectSeq(records, LAMBDA rec : chain \in {None, rec.chain})
        At(key) == SelectSeq(mine, LAMBDA rec : frontierKey(rec) = key)
        ByHead(key) == Each(Keys(Each(At(key), LAMBDA rec : rec.headHash)),
                            LAMBDA h : SelectSeq(At(key), LAMBDA rec : rec.headHash = h))
        heads == Each(Keys(Each(mine, frontierKey)), ByHead)
    IN  CutTo(o, FlattenSeq(Each(heads, LAMBDA hs : SameFrontier(FlattenSeq(hs))))
                   \o FlattenSeq(Each(heads, LAMBDA hs : AgainstHistory(hs, entries))))

\* A contradiction outranks an unreadable pool, and only a pool that was read in
\* full and agrees is clean.
Answer(pool, trustSet, o, records, scanned) ==
    LET unusable == \E a \in Range(pool) :
                       admitAnchor(a, trustSet, FALSE).why \in {"malformed", "badSignature"}
    IN  IF Unscannable(pool, trustSet, o) THEN "INVALID_INPUT"
        ELSE IF OverStamped(records, o) THEN "RESOURCE_LIMIT"
        ELSE IF scanned.findings # <<>> THEN "EQUIVOCATION"
        ELSE IF records = <<>> THEN "NO_EVIDENCE"
        ELSE IF unusable THEN "INCOMPLETE_POOL"
        ELSE "CLEAN"

Report(verdict, scanned) ==
    [verdict |-> verdict,
     clean |-> verdict = "CLEAN" /\ ~ scanned.truncated,
     findings |-> IF verdict = "EQUIVOCATION" THEN scanned.findings ELSE <<>>,
     truncated |-> scanned.truncated]

scanForEquivocation(pool, trustSet, o) ==
    LET records == prepare(pool, trustSet)
        scanned == scanRecords(records, IF o.history = None THEN <<>> ELSE o.history, None, o)
    IN  Report(Answer(pool, trustSet, o, records, scanned), scanned)

\* The entries of a presented chain.
historyFromReceipts(list) ==
    Each(SelectSeq(list, LAMBDA r : r.form \notin {"bad", "noObject"}),
         LAMBDA r : [chain |-> r.chain, seq |-> r.seq, hash |-> r.hash])

-----------------------------------------------------------------------------
\* A finding at its recipient.

Rejected == [ok |-> FALSE, transferable |-> FALSE]

\* What a branch claims of the anchor it carries.
ClaimsHold(b) ==
    b.headHash = b.anchor.headHash /\ b.witnessKid = b.anchor.kid /\ b.anchorHash = b.anchor

\* The records of the keys that signed two heads.
Culprits(recs) ==
    {i \in DOMAIN recs : \E j \in DOMAIN recs :
        recs[i].pubkey = recs[j].pubkey /\ recs[i].headHash # recs[j].headHash}

\* Those of the key that is met last, which is the one named.
LastCulprits(recs) ==
    LET Met(i) == Min({j \in DOMAIN recs : recs[j].pubkey = recs[i].pubkey})
    IN  {i \in Culprits(recs) : \A j \in Culprits(recs) : Met(j) <= Met(i)}

\* The finding is derived again from the anchors it carries and the
\* recipient's own pins; its claims are compared, never believed.
verifyEquivocationProof(proof, trustSet) ==
    LET recs == Each(proof.branches, LAMBDA b : admitAnchor(b.anchor, trustSet, TRUE))
        Accept(transferable, key) ==
            [ok |-> TRUE, transferable |-> transferable, kind |-> proof.kind,
             chain |-> recs[1].chain, seq |-> recs[1].seq, attributedToPubkey |-> key]
        oneFrontier == \A i \in DOMAIN recs : frontierKey(recs[i]) = frontierKey(recs[1])
        named == LastCulprits(recs)
    IN  IF \/ ~ admitTrustSet(trustSet)
           \/ proof.branches = <<>> \/ Len(proof.branches) > MaxUnique
           \/ \E i \in DOMAIN recs : recs[i].why # "ok" \/ ~ ClaimsHold(proof.branches[i])
        THEN Rejected
        ELSE IF proof.kind = "HISTORY_CONTRADICTION"
        THEN IF proof.presented.chain \in {None, recs[1].chain}
                /\ proof.presented.seq = recs[1].seq
                /\ proof.presented.hash # recs[1].headHash
             THEN Accept(FALSE, None) ELSE Rejected
        ELSE IF ~ oneFrontier THEN Rejected
        ELSE IF proof.kind = "WITNESS_EQUIVOCATION"
        THEN IF named # {} THEN Accept(TRUE, recs[CHOOSE i \in named : TRUE].pubkey) ELSE Rejected
        ELSE IF findCrossKeyPair(recs) # <<>> THEN Accept(TRUE, None) ELSE Rejected

-----------------------------------------------------------------------------
\* Checkpoints.

\* How many independent witnesses anchored the head a checkpoint endorses.  The
\* endorsed head is the presented one at its own number, before the history.
checkpointCorroboration(cp, pool, trustSet, o, fresh) ==
    LET records == prepare(pool, trustSet)
        entries == <<[chain |-> cp.chain, seq |-> cp.highestSeq, hash |-> cp.headHash]>>
                     \o (IF o.history = None THEN <<>> ELSE o.history)
        Current(a) == fresh = None \/ (fresh.now - fresh.maxAge <= a.ts /\ a.ts <= fresh.now + fresh.skew)
        exact == {rec \in Range(records) : rec.chain = cp.chain /\ rec.seq = cp.highestSeq
                                            /\ rec.headHash = cp.headHash}
        confirming == {rec.pubkey : rec \in {r \in exact : Current(r.anchor)}}
        staleKeys == {rec.pubkey : rec \in exact} \ confirming
    IN  IF cp.form = "bad" \/ Unscannable(pool, trustSet, o) THEN "INVALID_INPUT"
        ELSE IF OverStamped(records, o) THEN "RESOURCE_LIMIT"
        ELSE IF scanRecords(records, entries, cp.chain, o).findings # <<>> THEN "EQUIVOCATION"
        ELSE IF Cardinality(confirming) >= trustSet.quorum THEN "CORROBORATED"
        ELSE IF fresh # None /\ Cardinality(confirming) + Cardinality(staleKeys) >= trustSet.quorum
        THEN "STALE"
        ELSE "NOT_CORROBORATED"
=============================================================================
