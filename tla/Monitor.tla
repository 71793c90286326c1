------------------------------ MODULE Monitor -------------------------------
(***************************************************************************)
(* The monitor over the anchors of Notary: what it accuses, what a finding *)
(* proves at a recipient, what it says of a checkpoint, compared with what *)
(* was really signed.                                                      *)
(***************************************************************************)
EXTENDS Notary, Equivocation

CONSTANT Alias      \* the names another organisation gives the witnesses

\* Two trust sets of this verifier, the second without one of the witnesses.
Pins(kids, Name(_)) ==
    [witnesses |-> SetToSeq({[kid |-> Name(w), pubkey |-> KeyOf[w]] : w \in kids}), quorum |-> Quorum]
TrustSets == {Pins(Witnesses, LAMBDA w : w), Pins(Witnesses \ {CHOOSE w \in Witnesses : TRUE}, LAMBDA w : w)}

\* Recipients of a finding: the same pins, and another organisation's, which
\* uses none of these names for another witness.
Recipients == {Pins(Witnesses, LAMBDA w : w), Pins(Witnesses, LAMBDA w : Alias[w])}

\* An anchor changed after it was signed: its date, the name of its signer,
\* its head, its shape.
Spoilt(a) ==
    {[a EXCEPT !.ts = @ + 1], [a EXCEPT !.form = "bad"]}
      \union {[a EXCEPT !.kid = w] : w \in Witnesses \ {a.kid}}
      \union {[a EXCEPT !.headHash = b.headHash] : b \in anchors \ {a}}

\* The pools a verifier may collect: the anchors in every order, and repeated,
\* or with one of them changed.  (A pool that lacks one is the pool before it
\* was signed.)
Pools ==
    LET q == SetToSeq(anchors) IN
    SetToSeqs(anchors) \union {q \o q} \union {<<a>> \o q : a \in UNION {Spoilt(x) : x \in anchors}}

Default == [history |-> None, stamped |-> {}, maxAnchors |-> 2 * MaxAnchors, maxHistory |-> MaxReceipts,
            maxFindings |-> 9, maxBranches |-> MaxUnique]
ScanOptions ==
    {Default, [Default EXCEPT !.maxFindings = 1], [Default EXCEPT !.stamped = anchors],
     [Default EXCEPT !.maxAnchors = MaxAnchors]}
      \union {[Default EXCEPT !.history = historyFromReceipts(Branch(r)), !.maxBranches = n] :
                 r \in receipts, n \in {MaxUnique, MaxUnique + 1}}

\* What pinned witnesses really signed of a pool.
Stated(pool, trustSet) ==
    {a \in anchors \intersect Range(pool) : \E w \in Range(trustSet.witnesses) : w.kid = a.kid}

Clash(a, b) == a.chain = b.chain /\ a.highestSeq = b.highestSeq /\ a.headHash # b.headHash
Denies(a, e) == a.chain = e.chain /\ a.highestSeq = e.seq /\ a.headHash # e.hash
SignedBy(a, key) == KeyOf[a.kid] = key

\* The scan accuses exactly where signed statements contradict each other or
\* the presented chain, whatever the order, the repetitions and the spoilt
\* entries of the pool and however few findings it may list; it says clean
\* only of a pool it could read to the end; and it names a witness only for
\* two heads that this witness signed at one place of one chain.
ScanIsTrue(result, pool, trustSet, o) ==
    LET S == Stated(pool, trustSet)
        entries == IF o.history = None THEN {} ELSE Range(o.history)
        contradicted == \/ \E a, b \in S : Clash(a, b)
                        \/ \E a \in S, e \in entries : Denies(a, e)
        readable == \A a \in Range(pool) :
                       a \in anchors \/ (a.form # "bad" /\ \A w \in Range(trustSet.witnesses) : w.kid # a.kid)
        refused == Len(pool) > o.maxAnchors
        limited == Cardinality(S \intersect o.stamped) > MaxUnique
    IN  /\ result.verdict = "EQUIVOCATION" <=> contradicted /\ ~ refused /\ ~ limited
        /\ result.clean <=> S # {} /\ readable /\ ~ contradicted /\ ~ refused /\ ~ limited
        /\ \A f \in Range(result.findings) :
              f.kind = "WITNESS_EQUIVOCATION" =>
                 \E a, b \in S : /\ Clash(a, b) /\ a.kid = f.attributedTo /\ b.kid = f.attributedTo
                                 /\ a.chain = f.chain /\ a.highestSeq = f.seq
        /\ result.verdict = "EQUIVOCATION" /\ ~ result.truncated =>
              \A a, b \in S : Clash(a, b) =>
                 \E f \in Range(result.findings) :
                    /\ f.chain = a.chain /\ f.seq = a.highestSeq
                    /\ IF a.kid = b.kid THEN f.attributedTo = a.kid ELSE f.kind = "CHAIN_FORK"

\* A finding is evidence: every recipient that pins the signers derives the
\* same contradiction, and the same key, from the finding alone, though it
\* calls the witnesses by other names and the finding was cut to its bound.
\* A finding with more branches than the verifier reads convinces nobody: a
\* caller may set maxBranches above it.
FindingsTravel(findings) ==
    \A f \in Range(findings), recipient \in Recipients :
       LET result == verifyEquivocationProof(f, recipient) IN
       /\ result.ok <=> Len(f.branches) <= MaxUnique
       /\ result.ok =>
             /\ result.transferable <=> f.kind # "HISTORY_CONTRADICTION"
             /\ result.chain = f.chain /\ result.seq = f.seq
             /\ result.attributedToPubkey = IF f.attributedTo = None THEN None ELSE KeyOf[f.attributedTo]

AccusesTruly(result, pool, trustSet, o) ==
    ScanIsTrue(result, pool, trustSet, o) /\ FindingsTravel(result.findings)

\* Findings somebody may put together from a genuine anchor and any other,
\* with a claim about it that may be of another anchor.
Assembled ==
    LET Branches(a) == {[anchor |-> a, headHash |-> b.headHash, witnessKid |-> a.kid, anchorHash |-> a] :
                           b \in anchors}
        genuine == UNION {Branches(a) : a \in anchors}
        any == genuine \union
               UNION {{[anchor |-> x, headHash |-> x.headHash, witnessKid |-> x.kid, anchorHash |-> x] :
                          x \in Spoilt(a)} : a \in anchors}
    IN  {[kind |-> kind, presented |-> [chain |-> None, seq |-> 0, hash |-> None], branches |-> <<b, c>>] :
            kind \in {"WITNESS_EQUIVOCATION", "CHAIN_FORK", "HISTORY_CONTRADICTION"},
            b \in genuine, c \in any}

\* No finding that verifies is false: its branches are statements really
\* signed (the name next to a signature is not part of it), its claims are
\* true of them, and a key is convicted only by two heads it signed at one
\* place.
ProofIsTrue(proof, recipient) ==
    LET result == verifyEquivocationProof(proof, recipient)
        States(b, a) == b.anchor.sig = a.sig /\ b.anchor = [a EXCEPT !.kid = b.anchor.kid]
        S == {a \in anchors : \E b \in Range(proof.branches) : States(b, a)}
    IN  result.ok =>
          /\ \A b \in Range(proof.branches) : \E a \in S : States(b, a) /\ b.headHash = a.headHash
          /\ result.transferable =>
                \E a, b \in S :
                   /\ Clash(a, b) /\ a.chain = result.chain /\ a.highestSeq = result.seq
                   /\ IF result.kind = "CHAIN_FORK" THEN KeyOf[a.kid] # KeyOf[b.kid]
                      ELSE SignedBy(a, result.attributedToPubkey) /\ SignedBy(b, result.attributedToPubkey)

\* A checkpoint's head is corroborated exactly when a quorum of witnesses
\* anchored it within the window and no pinned witness contradicts the chain;
\* contradictions on other chains do not count against it; and a head the
\* acceptance rule confirms is corroborated, unless the chain forked elsewhere.
CorroborationIsTrue(r, pool, trustSet, fresh) ==
    LET verdict == checkpointCorroboration(buildCheckpoint(r, now, r.kid), pool, trustSet, Default, fresh)
        S == {a \in Stated(pool, trustSet) : a.chain = r.chain}
        exact == {a \in S : a.highestSeq = r.seq /\ a.headHash = r.hash}
        forked == \/ \E a, b \in S : Clash(a, b)
                  \/ \E a \in S : a.highestSeq = r.seq /\ a.headHash # r.hash
        current == {a.kid : a \in {b \in exact : fresh = None \/ b.ts = now}}
    IN  /\ verdict = "EQUIVOCATION" <=> forked
        /\ verdict = "CORROBORATED" <=> ~ forked /\ Cardinality(current) >= Quorum
        /\ verdict = "STALE" <=> /\ ~ forked /\ Cardinality(current) < Quorum
                                 /\ Cardinality({a.kid : a \in exact}) >= Quorum
        /\ verifyCompletenessParsed(r, pool, trustSet, fresh) = "QUORUM_CONFIRMED" =>
              verdict \in {"CORROBORATED", "EQUIVOCATION"}

\* The monitor accuses truly, its findings convince every recipient that reads
\* so many branches and nothing else does, and corroboration is what it says
\* (scanForEquivocation, verifyEquivocationProof, checkpointCorroboration).
MonitorIsTrue ==
    /\ \A pool \in Pools, trustSet \in TrustSets, o \in ScanOptions :
          AccusesTruly(scanForEquivocation(pool, trustSet, o), pool, trustSet, o)
    /\ \A proof \in Assembled, recipient \in Recipients : ProofIsTrue(proof, recipient)
    /\ \A r \in receipts, pool \in Pools, trustSet \in TrustSets,
          fresh \in {None, [now |-> now, maxAge |-> 0, skew |-> 0]} :
          CorroborationIsTrue(r, pool, trustSet, fresh)
=============================================================================
