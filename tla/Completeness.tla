---------------------------- MODULE Completeness ----------------------------
(***************************************************************************)
(* The witness federation: anchorForChainHead (src/federation/anchor.ts),  *)
(* verifyCompleteness (src/federation/acceptance.ts) and the composition   *)
(* verifyChainWitnessed (src/federation/verify-witnessed.ts).  A trust set *)
(* is a sequence of pinned witnesses with a quorum, a snapshot a sequence  *)
(* of anchors, in any order and with any repetitions.                      *)
(***************************************************************************)
EXTENDS Receipts

\* The options of a verifyChain that is given none.
NoOptions(max) ==
    [keyring |-> None, checkpoint |-> None, identityManifest |-> None, maxReceipts |-> max,
     requireTenantConsistency |-> TRUE, requireNFC |-> FALSE]

\* The receipt of highest seq, the first of several (None: no head).
deriveHead(list) ==
    IF list = <<>> THEN None
    ELSE LET top == Max({list[i].seq : i \in DOMAIN list})
         IN  list[Min({i \in DOMAIN list : list[i].seq = top})]

\* A witness anchors the head of a chain it has verified itself; it has no
\* keyring and keeps no memory of what it anchored before (None: refused).
anchorForChainHead(list, ts, kid, max) ==
    IF verifyParsedChain(list, NoOptions(max)).status \notin {"VALID", "UNVERIFIED"} THEN None
    ELSE buildAnchor(deriveHead(list), ts, kid)

\* At least two witnesses, distinct in kid and in key, and a quorum of more
\* than one of them.
TrustSetOk(trustSet) ==
    LET w == trustSet.witnesses IN
    /\ Len(w) >= 2
    /\ 1 < trustSet.quorum /\ trustSet.quorum <= Len(w)
    /\ \A i, j \in DOMAIN w : i # j => w[i].kid # w[j].kid /\ w[i].pubkey # w[j].pubkey

\* What one anchor says of the head ("dropped": nothing).  Age costs an
\* anchor its confirmation, never its contradiction.
AnchorClass(a, head, trustSet, fresh) ==
    LET pins == {w \in Range(trustSet.witnesses) : w.kid = a.kid}
        current == fresh = None \/ (fresh.now - fresh.maxAge <= a.ts /\ a.ts <= fresh.now + fresh.skew)
    IN  IF \/ a.form = "bad" \/ pins = {} \/ a.chain # head.chain
           \/ \E w \in pins : ~ verifyEd25519(w.pubkey, "anchor", anchorSigningInput(a), a.sig)
           \/ a.highestSeq < head.seq
        THEN "dropped"
        ELSE IF a.highestSeq > head.seq THEN "beyond"
        ELSE IF a.headHash # head.hash THEN "divergent"
        ELSE IF current THEN "confirm"
        ELSE "stale"

isContradiction(class) == class \in {"beyond", "divergent"}

\* Mutant: the later anchor replaces the earlier one.
LaterAnswer(prior, class) == IF class = "dropped" THEN prior ELSE class

\* A witness's second answer joined to its first: a contradiction is never
\* taken back, and a current confirmation outweighs a stale one.
JoinAnswers(prior, class) ==
    IF class = "dropped" \/ prior = class THEN prior
    ELSE IF prior = "dropped" THEN class
    ELSE IF isContradiction(prior) \/ isContradiction(class) THEN "divergent"
    ELSE "confirm"

\* What a pinned witness says of the head, over its anchors in the order of
\* the snapshot.
WitnessClass(kid, head, anchors, trustSet, fresh) ==
    FoldLeft(LAMBDA prior, a :
                IF a.kid = kid THEN JoinAnswers(prior, AnchorClass(a, head, trustSet, fresh)) ELSE prior,
             "dropped", anchors)

\* The acceptance rule: contradictions first, then the quorum of current
\* confirmations.  head is None when none could be derived.
verifyCompletenessParsed(head, anchors, trustSet, fresh) ==
    LET answers == [i \in DOMAIN trustSet.witnesses |->
                       WitnessClass(trustSet.witnesses[i].kid, head, anchors, trustSet, fresh)]
        Count(class) == Cardinality({i \in DOMAIN answers : answers[i] = class})
    IN  IF head = None \/ ~ TrustSetOk(trustSet) THEN "INVALID_INPUT"
        ELSE IF Count("divergent") > 0 THEN "FORK"
        ELSE IF Count("beyond") > 0 THEN "TRUNCATED"
        ELSE IF Count("confirm") >= trustSet.quorum THEN "QUORUM_CONFIRMED"
        ELSE IF fresh # None /\ Count("confirm") + Count("stale") >= trustSet.quorum THEN "STALE"
        ELSE "NOT_ESTABLISHED"

\* The chain verdict and the classification of the same list's head; strict
\* NFC cannot be asked for here.
verifyChainWitnessed(list, o, anchors, trustSet, fresh) ==
    [chain |-> verifyParsedChain(list, [o EXCEPT !.requireNFC = FALSE]).status,
     witness |-> verifyCompletenessParsed(IF Len(list) <= o.maxReceipts THEN deriveHead(list) ELSE None,
                                          anchors, trustSet, fresh)]
=============================================================================
