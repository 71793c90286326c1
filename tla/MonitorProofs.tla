---------------------------- MODULE MonitorProofs ----------------------------
(***************************************************************************)
(* What a monitor may rely on.  Historical attribution outlives the keys,  *)
(* for any producers, witnesses, keys and activations: a retirement        *)
(* reaches the verdict through three places only, whether the document's   *)
(* intervals are proper, whether the witness is retired, and whether the   *)
(* checkpoint predates the retirements of the signers; the invariant is    *)
(* that every date is one of the clock.  And what a finding that verifies  *)
(* proves, for every finding, every trust set and every bound: Monitor's   *)
(* ProofIsTrue checks the same of the findings that the anchors of an      *)
(* instance allow.                                                         *)
(***************************************************************************)
EXTENDS Notary, Equivocation, TLAPS

-----------------------------------------------------------------------------
(* Equivocation.                                                           *)

\* The signature on an anchor is one of this key.
Signed(key, a) == verifyEd25519(key, "anchor", anchorSigningInput(a), a.sig)

\* Two anchors name different heads at one place of one chain.
Contradict(a, b) == a.chain = b.chain /\ a.highestSeq = b.highestSeq /\ a.headHash # b.headHash

PinnedKey(trustSet, key) == \E pin \in Range(trustSet.witnesses) : pin.pubkey = key

\* An anchor is admitted as a statement of a pinned key that signed it, and as
\* what it says (admitAnchor).
LEMMA AdmittedIsSigned ==
    ASSUME NEW a, NEW trustSet, NEW elsewhere \in BOOLEAN,
           admitAnchor(a, trustSet, elsewhere).why = "ok"
    PROVE  LET rec == admitAnchor(a, trustSet, elsewhere)
           IN  /\ rec.chain = a.chain /\ rec.seq = a.highestSeq /\ rec.headHash = a.headHash
               /\ PinnedKey(trustSet, rec.pubkey)
               /\ Signed(rec.pubkey, a)
  <1> DEFINE w == Range(trustSet.witnesses)
             Signs(pin) == verifyEd25519(pin.pubkey, "anchor", anchorSigningInput(a), a.sig)
             named == {pin \in w : pin.kid = a.kid}
             pins == IF named = {} /\ elsewhere THEN {pin \in w : Signs(pin)} ELSE named
             pin == CHOOSE p \in pins : TRUE
             rec == [why |-> "ok", anchor |-> a, chain |-> a.chain, seq |-> a.highestSeq,
                     headHash |-> a.headHash, kid |-> pin.kid, pubkey |-> pin.pubkey]
  <1>1. admitAnchor(a, trustSet, elsewhere) =
          IF a.form = "bad" THEN [why |-> "malformed"]
          ELSE IF pins = {} THEN [why |-> "unpinned"]
          ELSE IF \E p \in pins : ~ Signs(p) THEN [why |-> "badSignature"]
          ELSE rec
    BY Zenon DEF admitAnchor
  <1>2. /\ admitAnchor(a, trustSet, elsewhere) = rec
        /\ pins # {} /\ \A p \in pins : Signs(p)
    <2> HIDE DEF rec, pins, Signs
    <2>1. [why |-> "malformed"].why # "ok" /\ [why |-> "unpinned"].why # "ok"
          /\ [why |-> "badSignature"].why # "ok"
      BY Zenon
    <2> QED BY <1>1, <2>1, Zenon
  <1>3. pins \subseteq w
    BY Zenon
  <1>4. pin \in w /\ Signs(pin)
    <2> HIDE DEF pins, w, Signs
    <2> QED BY <1>2, <1>3, Zenon
  <1>5. rec.pubkey = pin.pubkey /\ rec.chain = a.chain /\ rec.seq = a.highestSeq
        /\ rec.headHash = a.headHash
    BY Zenon
  <1> HIDE DEF rec, pin
  <1> QED BY <1>2, <1>4, <1>5, Zenon DEF PinnedKey, Signed

\* An anchor has the fields its signature covers.
IsAnchor(a) == {"chain", "highestSeq", "headHash"} \subseteq DOMAIN a

\* Two anchors signed as the same bytes state the same head at the same place
\* (anchorSigningInput).
LEMMA SignedIsStated ==
    ASSUME NEW a, NEW b, IsAnchor(a), IsAnchor(b), anchorSigningInput(a) = anchorSigningInput(b)
    PROVE  a.chain = b.chain /\ a.highestSeq = b.highestSeq /\ a.headHash = b.headHash
  <1>1. \A f \in {"chain", "highestSeq", "headHash"} :
          anchorSigningInput(a)[f] = a[f] /\ anchorSigningInput(b)[f] = b[f]
    BY Zenon DEF IsAnchor, anchorSigningInput
  <1> QED BY <1>1, Zenon

\* The records a recipient derives from the branches of a proof.
Rederived(proof, trustSet) ==
    [i \in DOMAIN proof.branches |-> admitAnchor(proof.branches[i].anchor, trustSet, TRUE)]

\* A proof of a signed contradiction that verifies was derived from admitted
\* records of one frontier, by the rule of its kind (verifyEquivocationProof).
LEMMA AcceptedByItsRule ==
    ASSUME NEW proof, NEW trustSet,
           verifyEquivocationProof(proof, trustSet).ok, proof.kind # "HISTORY_CONTRADICTION"
    PROVE  LET recs == Rederived(proof, trustSet)
               key == verifyEquivocationProof(proof, trustSet).attributedToPubkey
           IN  /\ \A i \in DOMAIN recs : recs[i].why = "ok" /\ frontierKey(recs[i]) = frontierKey(recs[1])
               /\ IF proof.kind = "WITNESS_EQUIVOCATION"
                  THEN \E i \in LastCulprits(recs) : key = recs[i].pubkey
                  ELSE findCrossKeyPair(recs) # <<>>
  <1> DEFINE recs == Rederived(proof, trustSet)
             result == verifyEquivocationProof(proof, trustSet)
             Accept(transferable, key) ==
                 [ok |-> TRUE, transferable |-> transferable, kind |-> proof.kind,
                  chain |-> recs[1].chain, seq |-> recs[1].seq, attributedToPubkey |-> key]
             oneFrontier == \A i \in DOMAIN recs : frontierKey(recs[i]) = frontierKey(recs[1])
             named == LastCulprits(recs)
             unusable == \/ ~ admitTrustSet(trustSet)
                         \/ proof.branches = <<>> \/ Len(proof.branches) > MaxUnique
                         \/ \E i \in DOMAIN recs : recs[i].why # "ok" \/ ~ ClaimsHold(proof.branches[i])
             denied == /\ proof.presented.chain \in {None, recs[1].chain}
                       /\ proof.presented.seq = recs[1].seq
                       /\ proof.presented.hash # recs[1].headHash
             forked == findCrossKeyPair(recs) # <<>>
             culprit == recs[CHOOSE i \in named : TRUE].pubkey
  <1>1. result =
          IF unusable THEN Rejected
          ELSE IF proof.kind = "HISTORY_CONTRADICTION"
          THEN IF denied THEN Accept(FALSE, None) ELSE Rejected
          ELSE IF ~ oneFrontier THEN Rejected
          ELSE IF proof.kind = "WITNESS_EQUIVOCATION"
          THEN IF named # {} THEN Accept(TRUE, culprit) ELSE Rejected
          ELSE IF forked THEN Accept(TRUE, None) ELSE Rejected
    BY Zenon DEF verifyEquivocationProof, Rederived, Each
  <1>2. ~ Rejected.ok
    BY Zenon DEF Rejected
  <1>3. Accept(TRUE, culprit).attributedToPubkey = culprit
    BY Zenon
  <1>4. named # {} => \E i \in named : culprit = recs[i].pubkey
    BY Zenon
  <1>5. /\ ~ unusable /\ oneFrontier
        /\ proof.kind = "WITNESS_EQUIVOCATION" => named # {} /\ result = Accept(TRUE, culprit)
        /\ proof.kind # "WITNESS_EQUIVOCATION" => forked
    <2> HIDE DEF unusable, denied, oneFrontier, named, forked, culprit, Accept
    <2> QED BY <1>1, <1>2, <1>3, Zenon
  <1> QED BY <1>3, <1>4, <1>5, Zenon

\* What the records of a frontier say, the anchors say.
LEMMA RecordsContradict ==
    ASSUME NEW proof, NEW trustSet,
           NEW i \in DOMAIN proof.branches, NEW j \in DOMAIN proof.branches,
           Rederived(proof, trustSet)[i].why = "ok", Rederived(proof, trustSet)[j].why = "ok",
           frontierKey(Rederived(proof, trustSet)[i]) = frontierKey(Rederived(proof, trustSet)[j]),
           Rederived(proof, trustSet)[i].headHash # Rederived(proof, trustSet)[j].headHash
    PROVE  LET recs == Rederived(proof, trustSet)
           IN  /\ Contradict(proof.branches[i].anchor, proof.branches[j].anchor)
               /\ Signed(recs[i].pubkey, proof.branches[i].anchor) /\ PinnedKey(trustSet, recs[i].pubkey)
               /\ Signed(recs[j].pubkey, proof.branches[j].anchor) /\ PinnedKey(trustSet, recs[j].pubkey)
  <1> DEFINE Rec(k) == admitAnchor(proof.branches[k].anchor, trustSet, TRUE)
  <1>1. Rederived(proof, trustSet)[i] = Rec(i) /\ Rederived(proof, trustSet)[j] = Rec(j)
    BY Zenon DEF Rederived
  <1>2. \A k \in {i, j} :
          /\ Rec(k).chain = proof.branches[k].anchor.chain
          /\ Rec(k).seq = proof.branches[k].anchor.highestSeq
          /\ Rec(k).headHash = proof.branches[k].anchor.headHash
          /\ PinnedKey(trustSet, Rec(k).pubkey)
          /\ Signed(Rec(k).pubkey, proof.branches[k].anchor)
    <2> TAKE k \in {i, j}
    <2>1. Rec(k).why = "ok" /\ TRUE \in BOOLEAN
      BY <1>1, Zenon
    <2> QED BY <2>1, AdmittedIsSigned, Zenon
  <1>3. Rec(i).chain = Rec(j).chain /\ Rec(i).seq = Rec(j).seq
    BY <1>1, Zenon DEF frontierKey
  <1> HIDE DEF Rec
  <1> QED BY <1>1, <1>2, <1>3 DEF Contradict

-----------------------------------------------------------------------------
\* A conviction is sound, whatever was put into the proof and whatever names
\* the recipient uses: the key it names is pinned and signed two anchors of the
\* proof that name different heads at one place of one chain
\* (verifyEquivocationProof, WITNESS_EQUIVOCATION).
THEOREM ConvictionIsSound ==
    ASSUME NEW proof, NEW trustSet,
           verifyEquivocationProof(proof, trustSet).ok, proof.kind = "WITNESS_EQUIVOCATION"
    PROVE  LET key == verifyEquivocationProof(proof, trustSet).attributedToPubkey
           IN  /\ PinnedKey(trustSet, key)
               /\ \E i, j \in DOMAIN proof.branches :
                     /\ Contradict(proof.branches[i].anchor, proof.branches[j].anchor)
                     /\ Signed(key, proof.branches[i].anchor)
                     /\ Signed(key, proof.branches[j].anchor)
  <1> DEFINE recs == Rederived(proof, trustSet)
             key == verifyEquivocationProof(proof, trustSet).attributedToPubkey
  <1>1. /\ \A i \in DOMAIN recs : recs[i].why = "ok" /\ frontierKey(recs[i]) = frontierKey(recs[1])
        /\ \E i \in LastCulprits(recs) : key = recs[i].pubkey
    BY AcceptedByItsRule, Zenon
  <1>2. DOMAIN recs = DOMAIN proof.branches
    BY Zenon DEF Rederived
  <1>3. PICK i \in Culprits(recs) : key = recs[i].pubkey
    BY <1>1, Zenon DEF LastCulprits
  <1>4. PICK j \in DOMAIN recs : recs[i].pubkey = recs[j].pubkey /\ recs[i].headHash # recs[j].headHash
    BY <1>3, Zenon DEF Culprits
  <1>5. i \in DOMAIN proof.branches /\ j \in DOMAIN proof.branches
    BY <1>2, <1>3, <1>4, Zenon DEF Culprits
  <1>6. /\ recs[i].why = "ok" /\ recs[j].why = "ok"
        /\ frontierKey(recs[i]) = frontierKey(recs[j])
    BY <1>1, <1>2, <1>5, Zenon
  <1>7. /\ Contradict(proof.branches[i].anchor, proof.branches[j].anchor)
        /\ Signed(recs[i].pubkey, proof.branches[i].anchor) /\ PinnedKey(trustSet, recs[i].pubkey)
        /\ Signed(recs[j].pubkey, proof.branches[j].anchor)
    BY <1>4, <1>5, <1>6, RecordsContradict, Zenon
  <1> QED BY <1>3, <1>4, <1>5, <1>7, Zenon

\* A witness is never convicted, by any proof at any recipient, if what it
\* issued never contradicts itself and every signature of it in the proof is on
\* something it issued (verifyEquivocationProof).
COROLLARY HonestNeverConvicted ==
    ASSUME NEW honest, NEW Issued, NEW proof, NEW trustSet,
           \A a, b \in Issued : ~ Contradict(a, b),
           \A i \in DOMAIN proof.branches :
              Signed(honest, proof.branches[i].anchor) =>
                 \E a \in Issued : anchorSigningInput(a) = anchorSigningInput(proof.branches[i].anchor),
           \A i \in DOMAIN proof.branches : IsAnchor(proof.branches[i].anchor),
           \A a \in Issued : IsAnchor(a),
           verifyEquivocationProof(proof, trustSet).ok, proof.kind = "WITNESS_EQUIVOCATION"
    PROVE  verifyEquivocationProof(proof, trustSet).attributedToPubkey # honest
  <1> SUFFICES ASSUME verifyEquivocationProof(proof, trustSet).attributedToPubkey = honest
               PROVE  FALSE
    BY Zenon
  <1>1. PICK i \in DOMAIN proof.branches, j \in DOMAIN proof.branches :
          /\ Contradict(proof.branches[i].anchor, proof.branches[j].anchor)
          /\ Signed(honest, proof.branches[i].anchor)
          /\ Signed(honest, proof.branches[j].anchor)
    BY ConvictionIsSound, Zenon
  <1>2. PICK a \in Issued : anchorSigningInput(a) = anchorSigningInput(proof.branches[i].anchor)
    BY <1>1, Zenon
  <1>3. PICK b \in Issued : anchorSigningInput(b) = anchorSigningInput(proof.branches[j].anchor)
    BY <1>1, Zenon
  <1>4. Contradict(a, b)
    BY <1>1, <1>2, <1>3, SignedIsStated DEF Contradict
  <1> QED BY <1>4, Zenon

\* A proven fork is two different pinned keys that signed different heads at one
\* place, never one witness counted twice under two names
\* (verifyEquivocationProof, CHAIN_FORK).
THEOREM ForkIsOfTwoKeys ==
    ASSUME NEW proof, NEW trustSet,
           verifyEquivocationProof(proof, trustSet).ok, proof.kind = "CHAIN_FORK"
    PROVE  \E i, j \in DOMAIN proof.branches :
              /\ Contradict(proof.branches[i].anchor, proof.branches[j].anchor)
              /\ \E p, q :
                    /\ p # q /\ PinnedKey(trustSet, p) /\ PinnedKey(trustSet, q)
                    /\ Signed(p, proof.branches[i].anchor)
                    /\ Signed(q, proof.branches[j].anchor)
  <1> DEFINE recs == Rederived(proof, trustSet)
             pairs == {p \in (DOMAIN recs) \X (DOMAIN recs) :
                         /\ p[1] < p[2]
                         /\ recs[p[1]].headHash # recs[p[2]].headHash
                         /\ recs[p[1]].pubkey # recs[p[2]].pubkey}
  <1>1. /\ \A i \in DOMAIN recs : recs[i].why = "ok" /\ frontierKey(recs[i]) = frontierKey(recs[1])
        /\ findCrossKeyPair(recs) # <<>>
    BY AcceptedByItsRule, Zenon
  <1>2. DOMAIN recs = DOMAIN proof.branches
    BY Zenon DEF Rederived
  <1>3. pairs # {}
    BY <1>1, Zenon DEF findCrossKeyPair
  <1>4. PICK i \in DOMAIN recs, j \in DOMAIN recs :
          recs[i].headHash # recs[j].headHash /\ recs[i].pubkey # recs[j].pubkey
    BY <1>3, Zenon
  <1>5. /\ recs[i].why = "ok" /\ recs[j].why = "ok"
        /\ frontierKey(recs[i]) = frontierKey(recs[j])
    BY <1>1, <1>4, Zenon
  <1>6. /\ Contradict(proof.branches[i].anchor, proof.branches[j].anchor)
        /\ Signed(recs[i].pubkey, proof.branches[i].anchor) /\ PinnedKey(trustSet, recs[i].pubkey)
        /\ Signed(recs[j].pubkey, proof.branches[j].anchor) /\ PinnedKey(trustSet, recs[j].pubkey)
    BY <1>2, <1>4, <1>5, RecordsContradict, Zenon
  <1> QED BY <1>2, <1>4, <1>6, Zenon

-----------------------------------------------------------------------------
(* Attribution.                                                            *)

(* An absent option is neither a keyring document nor a parsed one.        *)
NoneIsNoDocument ==
    /\ \A l, k : None # [lifecycle |-> l, keys |-> k]
    /\ \A o, k, r, v, d : None # [ok |-> o, keyring |-> k, retiredKids |-> r,
                                  validFrom |-> v, retiredAt |-> d]

NotaryConstants ==
    /\ Activation \in [Kids -> Nat \union {None}]
    /\ Retirable \subseteq Kids
    /\ None \notin Nat
    /\ NoneIsNoDocument

DatesOK ==
    /\ now \in Nat
    /\ retiredAt \in [Kids -> Nat \union {None}]
    /\ \A cp \in checkpoints : cp.ts \in Nat

ProperIntervals(retired) ==
    \A kid \in Kids :
       ~ (Activation[kid] # None /\ retired[kid] # None /\ Activation[kid] >= retired[kid])

Trust(retired) ==
    [ok |-> TRUE,
     keyring |-> [kid \in Kids |-> KeyOf[kid]],
     retiredKids |-> {kid \in Kids : retired[kid] # None},
     validFrom |-> [kid \in Kids |-> Activation[kid]],
     retiredAt |-> [kid \in Kids |-> retired[kid]]]

(* k is retired at t, and nothing else happens.                            *)
RetiresAt(k, t, retired, later) ==
    /\ later \in [Kids -> Nat \union {None}]
    /\ \A kid \in Kids : later[kid] = IF kid = k THEN t ELSE retired[kid]

(* What the operator's document parses to.                                 *)
LEMMA OperatorTrust ==
    ASSUME NEW retired
    PROVE  parseVerificationKeyring(OperatorKeyring(retired)) =
               IF Kids # {} /\ ProperIntervals(retired) THEN Trust(retired) ELSE [ok |-> FALSE]
<1> DEFINE doc == OperatorKeyring(retired)
<1>1. /\ doc.lifecycle = TRUE
      /\ DOMAIN doc.keys = Kids
      /\ \A kid \in Kids : /\ doc.keys[kid].key = KeyOf[kid]
                           /\ doc.keys[kid].validFrom = Activation[kid]
                           /\ doc.keys[kid].retiredAt = retired[kid]
  BY Zenon DEF OperatorKeyring
<1> HIDE DEF doc
<1>2. CASE Kids # {} /\ ProperIntervals(retired)
  <2>1. parseVerificationKeyring(doc) =
          [ok |-> TRUE,
           keyring |-> [kid \in DOMAIN doc.keys |-> doc.keys[kid].key],
           retiredKids |-> {kid \in DOMAIN doc.keys : doc.lifecycle /\ doc.keys[kid].retiredAt # None},
           validFrom |-> [kid \in DOMAIN doc.keys |->
                             IF doc.lifecycle THEN doc.keys[kid].validFrom ELSE None],
           retiredAt |-> [kid \in DOMAIN doc.keys |->
                             IF doc.lifecycle THEN doc.keys[kid].retiredAt ELSE None]]
    BY <1>1, <1>2 DEF parseVerificationKeyring, ProperIntervals
  <2>2. [kid \in DOMAIN doc.keys |-> doc.keys[kid].key] = [kid \in Kids |-> KeyOf[kid]]
    BY <1>1, Zenon
  <2>3. {kid \in DOMAIN doc.keys : doc.lifecycle /\ doc.keys[kid].retiredAt # None}
           = {kid \in Kids : retired[kid] # None}
    BY <1>1, Zenon
  <2>4. [kid \in DOMAIN doc.keys |-> IF doc.lifecycle THEN doc.keys[kid].validFrom ELSE None]
           = [kid \in Kids |-> Activation[kid]]
    BY <1>1, Zenon
  <2>5. [kid \in DOMAIN doc.keys |-> IF doc.lifecycle THEN doc.keys[kid].retiredAt ELSE None]
           = [kid \in Kids |-> retired[kid]]
    BY <1>1, Zenon
  <2> QED BY <1>2, <2>1, <2>2, <2>3, <2>4, <2>5, Zenon DEF doc, Trust
<1>3. CASE ~ (Kids # {} /\ ProperIntervals(retired))
  <2>1. parseVerificationKeyring(doc) = [ok |-> FALSE]
    BY <1>1, <1>3, Zenon DEF parseVerificationKeyring, ProperIntervals
  <2> QED BY <1>3, <2>1, Zenon DEF doc
<1> QED BY <1>2, <1>3, Zenon

(* A chain that verifies under a trust's retained keys names no other key. *)
LEMMA ValidSigners ==
    ASSUME NEW list, NEW o, NEW trust,
           DOMAIN trust.keyring = Kids,
           IntegrityStatus(list, o, trust) = "VALID"
    PROVE  \A s \in DOMAIN Ordered(list) : Ordered(list)[s].kid \in Kids
<1> DEFINE p == [keyring |-> RetainedKeyring(trust), checkpoint |-> None,
                 identityManifest |-> o.identityManifest, maxReceipts |-> o.maxReceipts,
                 requireTenantConsistency |-> o.requireTenantConsistency,
                 requireNFC |-> o.requireNFC]
           parsed == parseVerificationKeyring(p.keyring)
           used == IF p.keyring = None THEN None ELSE parsed
<1>1. verifyParsedChain(list, p).status = "VALID"
  BY Zenon DEF IntegrityStatus
<1>2. DOMAIN parsed.keyring = Kids /\ p.checkpoint = None
  BY Zenon DEF parseVerificationKeyring, RetainedKeyring
<1> HIDE DEF p
<1>3. VerdictInOrder(Ordered(list), p, used).status = "VALID"
  BY <1>1, Zenon DEF verifyParsedChain, fail, Result
<1> HIDE DEF used
<1>4. used # None /\ \A s \in DOMAIN Ordered(list) : WalkVerdict(Ordered(list), s, p, used) = "ok"
  <2> DEFINE failing == {s \in DOMAIN Ordered(list) : WalkVerdict(Ordered(list), s, p, used) # "ok"}
  <2>1. \A s : WalkVerdict(Ordered(list), s, p, used) # "VALID"
    BY Zenon DEF WalkVerdict
  <2>2. failing = {}
    BY <1>3, <2>1, Zenon DEF VerdictInOrder, fail, Result
  <2>3. used # None
    BY <1>2, <1>3, <2>2, Zenon DEF VerdictInOrder, fail, Result
  <2> QED BY <2>2, <2>3, Zenon
<1>5. used = parsed
  BY <1>4, Zenon DEF used
<1> HIDE DEF parsed
<1> QED BY <1>2, <1>4, <1>5, Zenon DEF WalkVerdict

(* A retirement after the checkpoint's instant, of a key other than the    *)
(* witness's, changes nothing about what the checkpoint witnesses.         *)
LEMMA WitnessOutlives ==
    ASSUME NoneIsNoDocument,
           NEW ordered, NEW cp, NEW k \in Kids, NEW t \in Nat,
           cp.ts \in Nat, cp.ts < t, cp.kid # k,
           \A s \in DOMAIN ordered : ordered[s].kid \in Kids,
           NEW retired \in [Kids -> Nat \union {None}],
           NEW later, RetiresAt(k, t, retired, later),
           WitnessVerdict(ordered, cp, Trust(retired), Trust(retired)).through # None
    PROVE  WitnessVerdict(ordered, cp, Trust(later), Trust(later))
              = WitnessVerdict(ordered, cp, Trust(retired), Trust(retired))
<1> DEFINE old == Trust(retired)
           new == Trust(later)
           foundOld == verifyCheckpointParsed(cp, retainedPublicMaterial(old))
           foundNew == verifyCheckpointParsed(cp, retainedPublicMaterial(new))
<1>1. /\ new.keyring = old.keyring /\ DOMAIN old.keyring = Kids
      /\ new.validFrom = old.validFrom
      /\ new.retiredKids \subseteq old.retiredKids \union {k}
      /\ \A kid \in Kids : new.retiredAt[kid] = IF kid = k THEN t ELSE old.retiredAt[kid]
  BY Zenon DEF Trust, RetiresAt
<1>2. /\ retainedPublicMaterial(old) # None /\ retainedPublicMaterial(new) # None
      /\ retainedPublicMaterial(old).keyring = old.keyring
      /\ retainedPublicMaterial(new).keyring = old.keyring
      /\ retainedPublicMaterial(old).retiredKids = {}
      /\ retainedPublicMaterial(new).retiredKids = {}
  BY Zenon DEF Trust, retainedPublicMaterial, NoneIsNoDocument
<1> HIDE DEF old, new
<1>3. foundNew = foundOld
  BY <1>2, Zenon DEF verifyCheckpointParsed
<1>4. /\ cp.form # "noObject" /\ foundOld = "ok"
      /\ WitnessKeySeparated(ordered, cp, old, old)
      /\ cp.kid \notin old.retiredKids
      /\ ~ BeforeActivation(ordered, cp, old, old)
      /\ ~ AfterRetirement(ordered, cp, old)
  BY Zenon DEF WitnessVerdict, Refused, old
<1>5. cp.kid \in Kids
  BY <1>1, <1>2, <1>4, Zenon DEF verifyCheckpointParsed
<1>6. WitnessKeySeparated(ordered, cp, new, new)
  BY <1>1, <1>4, Zenon DEF WitnessKeySeparated
<1>7. cp.kid \notin new.retiredKids
  BY <1>1, <1>4, Zenon
<1>8. ~ BeforeActivation(ordered, cp, new, new)
  BY <1>1, <1>4, Zenon DEF BeforeActivation
<1>9. ~ AfterRetirement(ordered, cp, new)
  <2>1. \A s \in Covered(ordered, cp) : ordered[s].kid \in Kids
    BY Zenon DEF Covered
  <2>2. ~ (cp.ts >= t)
    OBVIOUS
  <2> QED BY <1>1, <1>4, <2>1, <2>2, Zenon DEF AfterRetirement
<1> QED BY <1>3, <1>4, <1>6, <1>7, <1>8, <1>9, Zenon DEF WitnessVerdict, old, new

(* The same of the whole verdict.                                          *)
LEMMA RetirementKeepsVerdict ==
    ASSUME NotaryConstants,
           NEW list, NEW cp, NEW k \in Kids, NEW t \in Nat,
           cp.ts \in Nat, cp.ts < t, cp.kid # k,
           Activation[k] # None => Activation[k] < t,
           NEW retired \in [Kids -> Nat \union {None}],
           NEW later, RetiresAt(k, t, retired, later),
           Historical(list, cp, retired).through # None
    PROVE  Historical(list, cp, later) = Historical(list, cp, retired)
<1> DEFINE Opts(r) == [keyring |-> OperatorKeyring(r), checkpointKeyring |-> OperatorKeyring(r),
                       checkpoint |-> cp, identityManifest |-> None, maxReceipts |-> MaxReceipts,
                       requireTenantConsistency |-> TRUE, requireNFC |-> FALSE]
<1>1. OperatorKeyring(retired) # None /\ OperatorKeyring(later) # None
  BY Zenon DEF OperatorKeyring, NotaryConstants, NoneIsNoDocument
<1>2. Kids # {} /\ ProperIntervals(retired)
  <2> SUFFICES ASSUME ~ (Kids # {} /\ ProperIntervals(retired)) PROVE FALSE
    BY Zenon
  <2>1. parseVerificationKeyring(OperatorKeyring(retired)) = [ok |-> FALSE]
    BY OperatorTrust, Zenon
  <2> QED BY <2>1, <1>1 DEF Historical, verifyHistoricalChain, Refused
<1>3. ProperIntervals(later)
  BY <1>2 DEF ProperIntervals, NotaryConstants, RetiresAt
<1>4. /\ parseVerificationKeyring(OperatorKeyring(retired)) = Trust(retired)
      /\ parseVerificationKeyring(OperatorKeyring(later)) = Trust(later)
  BY <1>2, <1>3, OperatorTrust, Zenon
<1>5. Trust(retired).ok /\ Trust(later).ok /\ Trust(retired).keyring = Trust(later).keyring
      /\ DOMAIN Trust(retired).keyring = Kids
  BY Zenon DEF Trust
<1>6. IntegrityStatus(list, Opts(later), Trust(later)) = IntegrityStatus(list, Opts(retired), Trust(retired))
  <2>1. RetainedKeyring(Trust(later)) = RetainedKeyring(Trust(retired))
    BY <1>5, Zenon DEF RetainedKeyring
  <2> QED BY <2>1, Zenon DEF IntegrityStatus
<1>7. /\ IntegrityStatus(list, Opts(retired), Trust(retired)) = "VALID" /\ cp # None
      /\ Historical(list, cp, retired)
            = WitnessVerdict(Ordered(list), cp, Trust(retired), Trust(retired))
  BY <1>1, <1>4, <1>5, Zenon DEF Historical, verifyHistoricalChain, Refused
<1>8. Historical(list, cp, later) = WitnessVerdict(Ordered(list), cp, Trust(later), Trust(later))
  BY <1>1, <1>4, <1>5, <1>6, <1>7, Zenon DEF Historical, verifyHistoricalChain
<1>9. \A s \in DOMAIN Ordered(list) : Ordered(list)[s].kid \in Kids
  BY <1>5, <1>7, ValidSigners, Zenon
<1> HIDE DEF Opts
<1>10. WitnessVerdict(Ordered(list), cp, Trust(retired), Trust(retired)).through # None
  BY <1>7, Zenon
<1>11. NoneIsNoDocument
  BY Zenon DEF NotaryConstants
<1> DEFINE ordered == Ordered(list)
<1>12. WitnessVerdict(ordered, cp, Trust(later), Trust(later))
          = WitnessVerdict(ordered, cp, Trust(retired), Trust(retired))
  <2> HIDE DEF ordered
  <2>1. \A s \in DOMAIN ordered : ordered[s].kid \in Kids
    BY <1>9, Zenon DEF ordered
  <2>2. WitnessVerdict(ordered, cp, Trust(retired), Trust(retired)).through # None
    BY <1>10, Zenon DEF ordered
  <2> QED BY <1>11, <2>1, <2>2, WitnessOutlives, SMTT(30)
<1> QED BY <1>7, <1>8, <1>12, Zenon

(* Every date is one of the clock.                                         *)
LEMMA DatesInvariant == NotaryConstants /\ Spec => []DatesOK
<1>1. Init => DatesOK
  BY DEF Init, DatesOK
<1>2. NotaryConstants /\ DatesOK /\ [Next]_ntVars => DatesOK'
  <2> SUFFICES ASSUME NotaryConstants, DatesOK, [Next]_ntVars PROVE DatesOK'
    BY Zenon
  <2> USE DEF DatesOK
  <2>1. CASE \E input \in Inputs, prev \in receipts \union {None} : Build(input, prev)
    BY <2>1, Zenon DEF Build, Sign
  <2>2. CASE \E input \in Foreign, prev \in receipts \union {None} : BuildElsewhere(input, prev)
    BY <2>2, Zenon DEF BuildElsewhere, Sign
  <2>3. CASE \E head \in receipts, ts \in 0 .. now, kid \in Clerks : Checkpoint(head, ts, kid)
    <3>1. PICK head \in receipts, ts \in 0 .. now, kid \in Clerks : Checkpoint(head, ts, kid)
      BY <2>3, Zenon
    <3>2. buildCheckpoint(head, ts, kid).ts \in Nat
      BY DEF buildCheckpoint
    <3> QED BY <3>1, <3>2, Zenon DEF Checkpoint
  <2>4. CASE \E S \in SUBSET receipts, kid \in Witnesses : S # {} /\ Anchor(SetToSeq(S), kid)
    BY <2>4, Zenon DEF Anchor
  <2>5. CASE \E kid \in Retirable : Retire(kid)
    BY <2>5, Zenon DEF Retire
  <2>6. CASE Tick
    BY <2>6 DEF Tick
  <2>7. CASE UNCHANGED ntVars
    BY <2>7, Zenon DEF ntVars
  <2> QED BY <2>1, <2>2, <2>3, <2>4, <2>5, <2>6, <2>7, Zenon DEF Next
<1>3. NotaryConstants => NotaryConstants'
  BY Zenon DEF NotaryConstants, NoneIsNoDocument, Kids
<1> QED BY <1>1, <1>2, <1>3, PTL DEF Spec

(* What verifyHistoricalChain attributes as of a past instant it goes on   *)
(* attributing, through every step of every actor, until the witness       *)
(* itself is retired: a retirement, of any key and at any time, takes back *)
(* nothing that was witnessed before it.                                   *)
THEOREM AttributionOutlivesKeys == NotaryConstants /\ Spec => HistoryOutlivesKeys
<1>1. NotaryConstants /\ DatesOK /\ [Next]_ntVars =>
         \A r \in receipts, cp \in checkpoints : AttributionSurvives(Branch(r), cp)
  <2> SUFFICES ASSUME NotaryConstants, DatesOK, [Next]_ntVars,
                      NEW r \in receipts, NEW cp \in checkpoints,
                      cp.ts < now, retiredAt'[cp.kid] = None,
                      Historical(Branch(r), cp, retiredAt).through # None
               PROVE  Historical(Branch(r), cp, retiredAt') = Historical(Branch(r), cp, retiredAt)
    BY Zenon DEF AttributionSurvives
  <2>1. CASE UNCHANGED retiredAt
    BY <2>1, Zenon
  <2>2. CASE \E kid \in Retirable : Retire(kid)
    <3>1. PICK kid \in Retirable : Retire(kid)
      BY <2>2, Zenon
    <3>2. /\ retiredAt' = [retiredAt EXCEPT ![kid] = now] /\ kid \in Kids
          /\ Activation[kid] # None => Activation[kid] < now
      BY <3>1, Zenon DEF Retire, NotaryConstants
    <3>3. RetiresAt(kid, now, retiredAt, retiredAt') /\ now \in Nat /\ cp.ts \in Nat
          /\ retiredAt \in [Kids -> Nat \union {None}]
      BY <3>2, Zenon DEF RetiresAt, DatesOK
    <3>4. cp.kid # kid
      BY <3>2, <3>3, Zenon DEF NotaryConstants
    <3> QED BY <3>2, <3>3, <3>4, RetirementKeepsVerdict
  <2> QED BY <2>1, <2>2, Zenon DEF Next, ntVars, Build, BuildElsewhere, Sign, Checkpoint, Anchor, Tick
<1>2. NotaryConstants => NotaryConstants'
  BY Zenon DEF NotaryConstants, NoneIsNoDocument, Kids
<1> QED BY <1>1, <1>2, DatesInvariant, PTL DEF Spec, HistoryOutlivesKeys

(* What a witness is taken to say depends neither on the order in which    *)
(* two of its anchors are read nor on one being read twice (the fold of    *)
(* verifyCompletenessParsed over the snapshot).                            *)
THEOREM SnapshotOrderIsIrrelevant ==
    ASSUME NEW prior \in {"dropped", "confirm", "stale", "beyond", "divergent"},
           NEW a \in {"dropped", "confirm", "stale", "beyond", "divergent"},
           NEW b \in {"dropped", "confirm", "stale", "beyond", "divergent"}
    PROVE  /\ JoinAnswers(JoinAnswers(prior, a), b) = JoinAnswers(JoinAnswers(prior, b), a)
           /\ JoinAnswers(JoinAnswers(prior, a), a) = JoinAnswers(prior, a)
BY Zenon DEF JoinAnswers, isContradiction
=============================================================================
