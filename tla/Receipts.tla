------------------------------ MODULE Receipts ------------------------------
(***************************************************************************)
(* The documents of a receipt chain and the offline verifiers that read    *)
(* them: buildReceipt and buildCheckpoint (src/builder.ts), buildAnchor    *)
(* (src/federation/anchor.ts), parseVerificationKeyring                    *)
(* (src/verification-keyring.ts), verifyChain and verifyHistoricalChain    *)
(* (src/verify.ts), verifyCompleteness (src/federation/acceptance.ts).     *)
(*                                                                         *)
(* A hash is the text that was hashed and a signature names its key and    *)
(* its message: both are injective, as SHA-256 and Ed25519 are to this     *)
(* code.  The shape of a parsed document is one field, form: "ok" (it      *)
(* passes the schema and its strings are NFC), "nonNfc", "bad" (a field is  *)
(* not what the schema wants) or "noObject".                               *)
(* Options, keyrings and lists that do not even parse are refused before   *)
(* any of this and are left out, as are warnings, which change no verdict. *)
(***************************************************************************)
EXTENDS Integers, Sequences, FiniteSets, FiniteSetsExt, SequencesExt

CONSTANTS
    None,           \* an absent field or option
    KeyOf           \* the key material behind a kid

-----------------------------------------------------------------------------
\* Hashing and signing.

\* A signature by key over a message of a domain.
signEd25519(key, domain, message) == [by |-> key, domain |-> domain, over |-> message]

\* A signature is accepted for its own key, domain and message only.
verifyEd25519(key, domain, message, sig) == sig = signEd25519(key, domain, message)

\* What a receipt's hash covers: everything but chain.hash and sig.value.
receiptHashInput(r) == [f \in DOMAIN r \ {"hash", "sig"} |-> r[f]]

\* What a checkpoint's signature covers: everything but sig.value.
checkpointHashInput(cp) == [f \in DOMAIN cp \ {"sig"} |-> cp[f]]

\* What a witness signs: the frontier, without the signature block.
anchorSigningInput(a) == [f \in DOMAIN a \ {"sig", "kid"} |-> a[f]]

\* The next receipt after prev: the sequence number and the hash it links to
\* come from prev, the hash covers both and the kid.  input holds the
\* caller's fields; a builder refuses one that is not NFC.
buildReceipt(input, prev, kid) ==
    LET draft == [agent |-> input.agent, tenant |-> input.tenant, chain |-> input.chain,
                  form |-> input.form, note |-> input.note, kid |-> kid,
                  seq |-> IF prev = None THEN 0 ELSE prev.seq + 1,
                  prevHash |-> IF prev = None THEN None ELSE prev.hash]
    IN  [f \in DOMAIN draft \union {"hash", "sig"} |->
            CASE f = "hash" -> draft
              [] f = "sig" -> signEd25519(KeyOf[kid], "receipt", draft)
              [] OTHER -> draft[f]]

\* A signed statement that head is the head of its chain at ts.
buildCheckpoint(head, ts, kid) ==
    LET draft == [chain |-> head.chain, highestSeq |-> head.seq, headHash |-> head.hash,
                  ts |-> ts, kid |-> kid, form |-> "ok"]
    IN  [f \in DOMAIN draft \union {"sig"} |->
            IF f = "sig" THEN signEd25519(KeyOf[kid], "checkpoint", draft) ELSE draft[f]]

\* The same statement co-signed by a witness, in a domain of its own.
buildAnchor(head, ts, kid) ==
    LET frontier == [chain |-> head.chain, highestSeq |-> head.seq,
                     headHash |-> head.hash, ts |-> ts, form |-> "ok"]
    IN  [f \in DOMAIN frontier \union {"kid", "sig"} |->
            CASE f = "kid" -> kid
              [] f = "sig" -> signEd25519(KeyOf[kid], "anchor", frontier)
              [] OTHER -> frontier[f]]

-----------------------------------------------------------------------------
\* Keyrings.

\* A keyring document maps kids to a key, an activation and a retirement
\* (None: not declared).  A static map declares neither; a lifecycle must
\* name a key, and each interval must be a proper one.
parseVerificationKeyring(doc) ==
    IF doc.lifecycle /\ \/ DOMAIN doc.keys = {}
                        \/ \E kid \in DOMAIN doc.keys :
                              LET e == doc.keys[kid] IN
                              e.validFrom # None /\ e.retiredAt # None /\ e.validFrom >= e.retiredAt
    THEN [ok |-> FALSE]
    ELSE [ok |-> TRUE,
          keyring |-> [kid \in DOMAIN doc.keys |-> doc.keys[kid].key],
          retiredKids |-> {kid \in DOMAIN doc.keys : doc.lifecycle /\ doc.keys[kid].retiredAt # None},
          validFrom |-> [kid \in DOMAIN doc.keys |->
                            IF doc.lifecycle THEN doc.keys[kid].validFrom ELSE None],
          retiredAt |-> [kid \in DOMAIN doc.keys |->
                            IF doc.lifecycle THEN doc.keys[kid].retiredAt ELSE None]]

\* The trust of a keyring whose retirements are set aside.
retainedPublicMaterial(trust) == [trust EXCEPT !.retiredKids = {}]

\* The static keyring document that holds a trust's public keys.
RetainedKeyring(trust) ==
    [lifecycle |-> FALSE,
     keys |-> [kid \in DOMAIN trust.keyring |->
                  [key |-> trust.keyring[kid], validFrom |-> None, retiredAt |-> None]]]

\* A checkpoint against a trust (None: no keyring was supplied).
verifyCheckpointParsed(cp, trust) ==
    IF cp.form # "ok" THEN "malformed checkpoint"
    ELSE IF trust = None \/ cp.kid \notin DOMAIN trust.keyring THEN "unverified"
    ELSE IF ~ verifyEd25519(trust.keyring[cp.kid], "checkpoint", checkpointHashInput(cp), cp.sig)
         THEN "bad checkpoint signature"
    ELSE IF cp.kid \in trust.retiredKids THEN "retired signing key"
    ELSE "ok"

-----------------------------------------------------------------------------
\* The verdict on a chain for current use.

\* A result; tailChecked is claimed by a verdict that accepts, never by a
\* refusal.
Result(status, tailChecked) == [status |-> status, tailChecked |-> tailChecked]
fail(status) == Result(status, FALSE)

\* The sequence numbers are 0 .. n-1, each once.
Contiguous(list) == {list[i].seq : i \in DOMAIN list} = 0 .. Len(list) - 1

\* The receipts by sequence number: ordered[s + 1] has seq s.
Ordered(list) == [s \in DOMAIN list |-> CHOOSE r \in Range(list) : r.seq = s - 1]

\* Mutant: an absent tenant ends the comparison.
AdjacentSplice(ordered) ==
    \E s \in 2 .. Len(ordered) :
       /\ None \notin {ordered[s - 1].tenant, ordered[s].tenant}
       /\ ordered[s - 1].tenant # ordered[s].tenant

\* A receipt names another tenant than the last receipt before it that names
\* one: an absent tenant neither splices nor resets.
TenantSplice(ordered) ==
    \E s \in DOMAIN ordered :
       /\ ordered[s].tenant # None
       /\ LET named == {p \in 1 .. s - 1 : ordered[p].tenant # None}
          IN  named # {} /\ ordered[Max(named)].tenant # ordered[s].tenant

\* The agent may sign with the kid (identityManifest, checked only once the
\* signature is authenticated).
Authorised(o, agent, kid) ==
    o.identityManifest # None => /\ agent \in DOMAIN o.identityManifest
                                 /\ kid \in o.identityManifest[agent]

\* The walk's verdict on the receipt with seq s - 1: hash, NFC, the key its
\* agent has used so far, signature, identity, linkage, in that order.
WalkVerdict(ordered, s, o, trust) ==
    LET r == ordered[s]
        pinned == {ordered[p].kid : p \in {p \in 1 .. s - 1 : ordered[p].agent = r.agent}}
        linked == IF s = 1 THEN r.prevHash = None
                  ELSE r.prevHash # None /\ r.prevHash = ordered[s - 1].hash
    IN  IF r.hash # receiptHashInput(r) THEN "TAMPERED"
        ELSE IF r.form = "nonNfc" /\ o.requireNFC THEN "MALFORMED"
        ELSE IF pinned # {} /\ r.kid \notin pinned THEN "TAMPERED"
        ELSE IF trust # None /\ \/ r.kid \notin DOMAIN trust.keyring
                                \/ ~ verifyEd25519(trust.keyring[r.kid], "receipt",
                                                   receiptHashInput(r), r.sig)
             THEN "TAMPERED"
        ELSE IF trust # None /\ ~ Authorised(o, r.agent, r.kid) THEN "UNTRUSTED"
        ELSE IF ~ linked THEN "TAMPERED"
        ELSE "ok"

\* The verdict on the checkpoint presented with a chain whose walk passed.
\* A retired key's authentic checkpoint counts as authenticated here; its
\* retirement is judged last.
TailVerdict(ordered, o, trust) ==
    LET cp == o.checkpoint
        head == Last(ordered)
        found == verifyCheckpointParsed(cp, trust)
        authentic == found \in {"ok", "retired signing key"}
    IN  IF cp.form = "noObject" THEN fail("MALFORMED")
        ELSE IF found = "malformed checkpoint" THEN fail("TAMPERED")
        ELSE IF trust # None /\ ~ authentic THEN fail("TAMPERED")
        ELSE IF cp.chain # head.chain THEN fail("TAMPERED")
        ELSE IF cp.highestSeq # head.seq \/ cp.headHash # head.hash THEN fail("TAMPERED")
        ELSE IF trust # None /\ ~ Authorised(o, ordered[1].agent, cp.kid) THEN fail("UNTRUSTED")
        ELSE Result("ok", authentic)

\* The walk, the checkpoint and the retirements, once the list is in order.
\* A retired key that signed a receipt or the checkpoint is a verdict only
\* when nothing else failed.
VerdictInOrder(ordered, o, trust) ==
    LET failing == {s \in DOMAIN ordered : WalkVerdict(ordered, s, o, trust) # "ok"}
        tail == IF o.checkpoint = None THEN Result("ok", FALSE)
                ELSE TailVerdict(ordered, o, trust)
        signers == {ordered[s].kid : s \in DOMAIN ordered}
                       \union (IF o.checkpoint = None THEN {} ELSE {o.checkpoint.kid})
    IN  IF failing # {} THEN fail(WalkVerdict(ordered, Min(failing), o, trust))
        ELSE IF tail.status # "ok" THEN tail
        ELSE IF trust = None THEN Result("UNVERIFIED", tail.tailChecked)
        ELSE IF signers \intersect trust.retiredKids # {} THEN fail("KEY_RETIRED")
        ELSE Result("VALID", tail.tailChecked)

\* A parsed list against the options: keyring, checkpoint, identityManifest
\* (each None or a document), maxReceipts, requireTenantConsistency,
\* requireNFC.
verifyParsedChain(list, o) ==
    LET parsed == parseVerificationKeyring(o.keyring)
    IN  IF Len(list) = 0 \/ Len(list) > o.maxReceipts THEN fail("MALFORMED")
        ELSE IF \E i \in DOMAIN list : list[i].form = "bad" THEN fail("MALFORMED")
        ELSE IF \E i \in DOMAIN list : list[i].chain # list[1].chain THEN fail("TAMPERED")
        ELSE IF ~ Contiguous(list) THEN fail("TAMPERED")
        ELSE IF o.requireTenantConsistency /\ TenantSplice(Ordered(list)) THEN fail("TAMPERED")
        ELSE IF o.keyring # None /\ ~ parsed.ok THEN fail("MALFORMED")
        ELSE VerdictInOrder(Ordered(list), o, IF o.keyring = None THEN None ELSE parsed)

-----------------------------------------------------------------------------
\* The verdict on a chain as historical evidence.

\* A refusal, and an attribution of the receipts through seq as of an instant.
Refused(classification, code) ==
    [classification |-> classification, code |-> code, through |-> None, asOf |-> None]
AttributedAsOf(classification, code, cp) ==
    [classification |-> classification, code |-> code, through |-> cp.highestSeq, asOf |-> cp.ts]

\* What the chain verifier says of the list under the retained public keys,
\* without the checkpoint.
IntegrityStatus(list, o, trust) ==
    verifyParsedChain(list, [keyring |-> RetainedKeyring(trust), checkpoint |-> None,
                             identityManifest |-> o.identityManifest, maxReceipts |-> o.maxReceipts,
                             requireTenantConsistency |-> o.requireTenantConsistency,
                             requireNFC |-> o.requireNFC]).status

\* The witness shares neither its kid nor its key with a receipt's signer.
WitnessKeySeparated(ordered, cp, trust, witness) ==
    \A s \in DOMAIN ordered :
       /\ cp.kid # ordered[s].kid
       /\ witness.keyring[cp.kid] # trust.keyring[ordered[s].kid]

\* The places of the receipts a checkpoint covers.
Covered(ordered, cp) == {s \in DOMAIN ordered : s <= cp.highestSeq + 1}

\* The checkpoint is dated before a key it relies on was activated.
BeforeActivation(ordered, cp, trust, witness) ==
    \/ witness.validFrom[cp.kid] # None /\ cp.ts < witness.validFrom[cp.kid]
    \/ \E s \in Covered(ordered, cp) :
          trust.validFrom[ordered[s].kid] # None /\ cp.ts < trust.validFrom[ordered[s].kid]

\* Mutant: the instant of the retirement itself still counts as before it.
PastRetirement(ordered, cp, trust) ==
    \E s \in Covered(ordered, cp) :
       trust.retiredAt[ordered[s].kid] # None /\ cp.ts > trust.retiredAt[ordered[s].kid]

\* Mutant: a retirement is judged without the checkpoint's time.
EverRetired(ordered, cp, trust) ==
    \E s \in Covered(ordered, cp) : trust.retiredAt[ordered[s].kid] # None

\* The checkpoint does not strictly predate the retirement of a key that
\* signed a receipt it covers.
AfterRetirement(ordered, cp, trust) ==
    \E s \in Covered(ordered, cp) :
       trust.retiredAt[ordered[s].kid] # None /\ cp.ts >= trust.retiredAt[ordered[s].kid]

\* The checkpoint against an intact chain: its witness, its place on the
\* chain, its time.
WitnessVerdict(ordered, cp, trust, witness) ==
    LET found == verifyCheckpointParsed(cp, retainedPublicMaterial(witness))
        head == Last(ordered)
        anchored == IF cp.highestSeq = head.seq THEN "HEAD_ANCHORED" ELSE "PREFIX_ANCHORED"
    IN  IF cp.form = "noObject" THEN Refused("INVALID", "WITNESS_MALFORMED")
        ELSE IF found = "unverified" THEN Refused("UNVERIFIED", "WITNESS_KEY_NOT_TRUSTED")
        ELSE IF found = "malformed checkpoint" THEN Refused("INVALID", "WITNESS_MALFORMED")
        ELSE IF found # "ok" THEN Refused("INVALID", "WITNESS_INTEGRITY_FAILURE")
        ELSE IF ~ WitnessKeySeparated(ordered, cp, trust, witness)
             THEN Refused("UNVERIFIED", "WITNESS_KEY_NOT_SEPARATE")
        ELSE IF cp.kid \in witness.retiredKids THEN Refused("UNVERIFIED", "WITNESS_KEY_RETIRED")
        ELSE IF cp.chain # head.chain THEN Refused("CONFLICT", "CHECKPOINT_CONFLICT")
        ELSE IF cp.highestSeq > head.seq THEN Refused("CONFLICT", "CHECKPOINT_AHEAD")
        ELSE IF ordered[cp.highestSeq + 1].hash # cp.headHash
             THEN Refused("CONFLICT", "CHECKPOINT_CONFLICT")
        ELSE IF BeforeActivation(ordered, cp, trust, witness)
             THEN Refused("UNVERIFIED", "CHECKPOINT_BEFORE_ACTIVATION")
        ELSE IF AfterRetirement(ordered, cp, trust)
             THEN Refused("UNVERIFIED", "CHECKPOINT_AFTER_RETIREMENT")
        ELSE AttributedAsOf(IF anchored = "HEAD_ANCHORED" THEN "VERIFIED" ELSE "PARTIAL", anchored, cp)

\* The options are those of verifyParsedChain and checkpointKeyring, the
\* only trust root a witness is looked up in.
verifyHistoricalChain(list, o) ==
    LET trust == parseVerificationKeyring(o.keyring)
        witness == parseVerificationKeyring(o.checkpointKeyring)
        status == IntegrityStatus(list, o, trust)
    IN  IF o.keyring = None THEN Refused("UNVERIFIED", "RECEIPT_ROOT_NOT_PROVIDED")
        ELSE IF ~ trust.ok THEN Refused("INVALID", "RECEIPT_ROOT_INVALID")
        ELSE IF status = "TAMPERED" THEN Refused("INVALID", "RECEIPT_INTEGRITY_FAILURE")
        ELSE IF status = "UNTRUSTED" THEN Refused("INVALID", "RECEIPT_IDENTITY_UNTRUSTED")
        ELSE IF status # "VALID" THEN Refused("INVALID", "RECEIPT_MALFORMED")
        ELSE IF o.checkpoint = None THEN Refused("UNVERIFIED", "NO_WITNESS")
        ELSE IF o.checkpointKeyring = None THEN Refused("UNVERIFIED", "WITNESS_ROOT_NOT_PROVIDED")
        ELSE IF ~ witness.ok THEN Refused("UNVERIFIED", "WITNESS_ROOT_INVALID")
        ELSE WitnessVerdict(Ordered(list), o.checkpoint, trust, witness)
=============================================================================
