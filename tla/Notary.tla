------------------------------- MODULE Notary -------------------------------
(***************************************************************************)
(* Producers, witnesses and the operator of the trust root around one set  *)
(* of receipts.  Producers build receipts on whatever receipt they take    *)
(* for the head (so branches happen), keys are retired while their holders *)
(* can still sign, witnesses checkpoint and anchor heads.  What a verifier *)
(* may be handed is any list of these receipts, in any order, incomplete,  *)
(* repeated, or with a copy altered after signing.                         *)
(***************************************************************************)
EXTENDS Completeness

CONSTANTS
    Inputs,             \* what producers put in a receipt, and the kid they sign with
    Foreign,            \* the same for producers other than this package's builder
    Clerks,             \* the kids that sign checkpoints
    Witnesses, Quorum,  \* the kids that anchor, and how many must agree
    Activation,         \* the activation instant of a kid, or None
    Retirable,          \* the kids an operator may retire
    Producers,          \* the kids of a keyring that knows the producers only
    Manifest,           \* the kids each agent may sign with
    MaxReceipts, MaxCheckpoints, MaxAnchors, MaxTime

VARIABLES
    receipts,           \* the receipts built so far
    parent,             \* the receipt each one was built on, or None
    builtAt,            \* the instant each one was first built
    checkpoints,        \* the checkpoints signed so far
    anchors,            \* the anchors signed so far
    retiredAt,          \* the instant the operator retired each kid, or None
    now

ntVars == <<receipts, parent, builtAt, checkpoints, anchors, retiredAt, now>>

Kids == DOMAIN KeyOf

Init ==
    /\ receipts = {} /\ parent = <<>> /\ builtAt = <<>>
    /\ checkpoints = {} /\ anchors = {}
    /\ retiredAt = [kid \in Kids |-> None]
    /\ now = 0

\* A receipt, the receipts it was built on, and those from genesis on.
Ancestry(r) ==
    LET Older(S) == S \union {parent[x] : x \in {y \in S : parent[y] # None}}
    IN  FoldLeft(LAMBDA S, i : Older(S), {r}, [i \in 1 .. r.seq |-> i])

\* A chain of receipts as a list from genesis to its head.
Branch(r) == [s \in 1 .. r.seq + 1 |-> CHOOSE x \in Ancestry(r) : x.seq = s - 1]

\* The receipt is signed on top of what its producer takes for the head; the
\* builder checks neither that no other receipt was built there nor that
\* its key is current.
Sign(input, prev) ==
    LET r == buildReceipt(input, prev, input.kid) IN
    /\ Cardinality(receipts) < MaxReceipts
    /\ r \notin receipts
    /\ receipts' = receipts \union {r}
    /\ parent' = [x \in receipts' |-> IF x = r THEN prev ELSE parent[x]]
    /\ builtAt' = [x \in receipts' |-> IF x = r THEN now ELSE builtAt[x]]
    /\ UNCHANGED <<checkpoints, anchors, retiredAt, now>>

Build(input, prev) == input.form = "ok" /\ Sign(input, prev)

BuildElsewhere(input, prev) == Sign(input, prev)

\* A holder of kid signs that head is the head.  It dates its statement by
\* its clock, unless its key signed the very receipts: then it is a party to
\* them, and nothing ties it to a clock.
Checkpoint(head, ts, kid) ==
    /\ Cardinality(checkpoints) < MaxCheckpoints
    /\ ts = now \/ \E r \in Ancestry(head) : KeyOf[r.kid] = KeyOf[kid]
    /\ checkpoints' = checkpoints \union {buildCheckpoint(head, ts, kid)}
    /\ UNCHANGED <<receipts, parent, builtAt, anchors, retiredAt, now>>

\* A witness is shown a list and anchors its head, or refuses.
Anchor(list, kid) ==
    LET a == anchorForChainHead(list, now, kid, MaxReceipts) IN
    /\ Cardinality(anchors) < MaxAnchors
    /\ a # None
    /\ anchors' = anchors \union {a}
    /\ UNCHANGED <<receipts, parent, builtAt, checkpoints, retiredAt, now>>

\* The operator retires a key, now.
Retire(kid) ==
    /\ retiredAt[kid] = None
    /\ Activation[kid] # None => Activation[kid] < now
    /\ retiredAt' = [retiredAt EXCEPT ![kid] = now]
    /\ UNCHANGED <<receipts, parent, builtAt, checkpoints, anchors, now>>

Tick ==
    /\ now < MaxTime
    /\ now' = now + 1
    /\ UNCHANGED <<receipts, parent, builtAt, checkpoints, anchors, retiredAt>>

Next ==
    \/ \E prev \in receipts \union {None} :
          \/ \E input \in Inputs : Build(input, prev)
          \/ \E input \in Foreign : BuildElsewhere(input, prev)
    \/ \E head \in receipts, ts \in 0 .. now, kid \in Clerks : Checkpoint(head, ts, kid)
    \/ \E S \in SUBSET receipts, kid \in Witnesses : S # {} /\ Anchor(SetToSeq(S), kid)
    \/ \E kid \in Retirable : Retire(kid)
    \/ Tick

Spec == Init /\ [][Next]_ntVars

-----------------------------------------------------------------------------
\* What a verifier may be handed.

\* A receipt changed after it was signed: its content, its content and its
\* hash, or its shape.
Altered(r) ==
    LET changed == [r EXCEPT !.note = "altered"]
    IN  {changed, [changed EXCEPT !.hash = receiptHashInput(changed)], [r EXCEPT !.form = "bad"]}

\* Some of the receipts built, in one order or another.
Selections == {SetToSeq(S) : S \in SUBSET receipts}

\* The same, with one repeated or altered.
Lists ==
    Selections
      \union {Append(l, l[1]) : l \in Selections \ {<<>>}}
      \union UNION {UNION {{[l EXCEPT ![i] = x] : x \in Altered(l[i])} : i \in DOMAIN l} :
                       l \in Selections}

\* The operator's lifecycle document with these retirements.
OperatorKeyring(retired) ==
    [lifecycle |-> TRUE,
     keys |-> [kid \in Kids |-> [key |-> KeyOf[kid], validFrom |-> Activation[kid],
                                 retiredAt |-> retired[kid]]]]

\* A static keyring of some kids.
StaticKeyring(kids) ==
    [lifecycle |-> FALSE,
     keys |-> [kid \in kids |-> [key |-> KeyOf[kid], validFrom |-> None, retiredAt |-> None]]]

Keyrings ==
    {None, OperatorKeyring(retiredAt), StaticKeyring(Producers), [lifecycle |-> TRUE, keys |-> <<>>]}

\* A checkpoint changed after it was signed.
Checkpoints ==
    {None} \union checkpoints \union {[cp EXCEPT !.ts = @ + 1] : cp \in checkpoints}
           \union {[cp EXCEPT !.form = "bad"] : cp \in checkpoints}

Options ==
    {[keyring |-> keyring, checkpoint |-> cp, identityManifest |-> manifest,
      maxReceipts |-> MaxReceipts, requireTenantConsistency |-> strict, requireNFC |-> strict] :
        keyring \in Keyrings, cp \in Checkpoints, manifest \in {None, Manifest}, strict \in BOOLEAN}

-----------------------------------------------------------------------------
\* Properties.

\* The list is the whole history of one receipt, nothing twice.
IsBranch(list) ==
    \E r \in receipts : Range(list) = Ancestry(r) /\ Len(list) = r.seq + 1

\* What a verifier should accept, said of what was really built: a whole
\* branch on one chain, of one tenant, by producers that kept to one key of
\* the keyring each (their own, under a manifest), with a checkpoint of its
\* very head by a key of the keyring (the opener's, under a manifest).
Acceptable(list, o) ==
    LET keys == o.keyring.keys
        Ok(agent, kid) == o.identityManifest = None \/ kid \in o.identityManifest[agent]
    IN  /\ o.keyring # None /\ keys # <<>>
        /\ IsBranch(list)
        /\ \A r, q \in Range(list) :
              /\ r.chain = q.chain
              /\ r.agent = q.agent => r.kid = q.kid
              /\ o.requireTenantConsistency => r.tenant = q.tenant \/ None \in {r.tenant, q.tenant}
        /\ \A r \in Range(list) :
              /\ r.kid \in DOMAIN keys
              /\ Ok(r.agent, r.kid)
              /\ o.requireNFC => r.form = "ok"
        /\ o.checkpoint # None =>
              /\ o.checkpoint \in checkpoints
              /\ o.checkpoint.kid \in DOMAIN keys
              /\ \E r \in Range(list) : o.checkpoint.headHash = r.hash /\ Len(list) = r.seq + 1
              /\ \E r \in Range(list) : r.seq = 0 /\ Ok(r.agent, o.checkpoint.kid)

\* A key that signed something in the list is retired in the keyring.
RetiredSigner(list, o) ==
    \E kid \in {r.kid : r \in Range(list)}
                  \union (IF o.checkpoint = None THEN {} ELSE {o.checkpoint.kid}) :
       o.keyring.keys[kid].retiredAt # None

\* verifyChain says VALID of exactly the lists it should accept under current
\* keys, KEY_RETIRED of exactly those whose only fault is a retired key, and
\* claims a checked tail only where a VALID verdict rests on a checkpoint.
\* Nothing a list may have wrong (an altered copy, a gap, a second branch, a
\* borrowed identity, a dropped tail) hides behind another check's answer or
\* behind a retirement.
VerdictIsTrue ==
    \A list \in Lists, o \in Options :
       LET result == verifyParsedChain(list, o) IN
       /\ result.status = "VALID" <=> Acceptable(list, o) /\ ~ RetiredSigner(list, o)
       /\ result.status = "KEY_RETIRED" <=> Acceptable(list, o) /\ RetiredSigner(list, o)
       /\ result.tailChecked <=> result.status = "VALID" /\ o.checkpoint # None

\* Historical verification under the operator's document, for receipts and
\* witnesses alike.
Historical(list, cp, retired) ==
    verifyHistoricalChain(list,
        [keyring |-> OperatorKeyring(retired), checkpointKeyring |-> OperatorKeyring(retired),
         checkpoint |-> cp, identityManifest |-> None, maxReceipts |-> MaxReceipts,
         requireTenantConsistency |-> TRUE, requireNFC |-> FALSE])

\* What verifyHistoricalChain attributes was really there: a whole branch
\* whose receipts through the named one were built by the named instant and
\* before their keys were retired, whatever a holder of a retired key built,
\* or dated, afterwards.  VERIFIED, not PARTIAL, exactly when that covers the
\* list.
AttributionIsEarned ==
    \A list \in Selections, cp \in Checkpoints :
       LET h == Historical(list, cp, retiredAt) IN
       h.through # None =>
          /\ IsBranch(list)
          /\ \A r \in Range(list) :
                r.seq <= h.through =>
                   /\ builtAt[r] <= h.asOf
                   /\ retiredAt[r.kid] # None => builtAt[r] < retiredAt[r.kid]
                   /\ Activation[r.kid] # None => Activation[r.kid] <= h.asOf
          /\ h.classification = "VERIFIED" <=> Len(list) = h.through + 1

\* Attribution outlives the keys: what is attributed as of a past instant
\* stays attributed through every later step (a retirement, more receipts on
\* another branch, other checkpoints), until the witness itself is retired.
AttributionSurvives(list, cp) ==
    LET h == Historical(list, cp, retiredAt) IN
    cp.ts < now /\ retiredAt'[cp.kid] = None /\ h.through # None => Historical(list, cp, retiredAt') = h
HistoryOutlivesKeys ==
    [][\A r \in receipts, cp \in checkpoints : AttributionSurvives(Branch(r), cp)]_ntVars

\* Snapshots a verifier may collect: every anchor, in some order, repeated, or
\* with one altered after it was signed.  (A snapshot that lacks an anchor is
\* one of a state in which it was not signed.)
Snapshots ==
    UNION {{q, q \o q, <<[q[1] EXCEPT !.ts = @ + 1]>> \o Tail(q)} :
              q \in SetToSeqs(anchors) \ {<<>>}}

\* The pinned witnesses, and the same with one key under two names.
Pinned == [witnesses |-> SetToSeq({[kid |-> w, pubkey |-> KeyOf[w]] : w \in Witnesses}),
           quorum |-> Quorum]
Doubled == [Pinned EXCEPT !.witnesses = Append(@, [kid |-> None, pubkey |-> @[1].pubkey])]

\* The witness rule's answer is the truth about the anchors really signed,
\* in whatever order, number and state they arrive: QUORUM_CONFIRMED only of
\* a head that a quorum of witnesses anchored within the window and that no
\* collected anchor contradicts; a contradiction is reported however old it
\* is, and silence, lag or staleness never pass for agreement.  One key
\* pinned under two names is refused, not counted twice (verifyChainWitnessed,
\* verifyCompleteness).
AnswerIsTrue ==
    \A r \in receipts, snapshot \in Snapshots, fresh \in {None, [now |-> now, maxAge |-> 0, skew |-> 0]} :
       LET answer == verifyChainWitnessed(Branch(r), NoOptions(MaxReceipts), snapshot, Pinned, fresh)
           Signed(w) == {a \in anchors \intersect Range(snapshot) : a.kid = w /\ a.chain = r.chain}
           Confirms(a) == a.highestSeq = r.seq /\ a.headHash = r.hash
           Current(a) == fresh = None \/ a.ts = now
           Beyond(w) == \E a \in Signed(w) : a.highestSeq > r.seq
           Divergent(w) == \/ \E a \in Signed(w) : a.highestSeq = r.seq /\ a.headHash # r.hash
                           \/ Beyond(w) /\ \E a \in Signed(w) : a.highestSeq = r.seq
           confirmed == {w \in Witnesses : \E a \in Signed(w) : Confirms(a) /\ Current(a)}
           agreed == {w \in Witnesses : \E a \in Signed(w) : Confirms(a)}
       IN  /\ answer.witness = IF \E w \in Witnesses : Divergent(w) THEN "FORK"
                               ELSE IF \E w \in Witnesses : Beyond(w) THEN "TRUNCATED"
                               ELSE IF Cardinality(confirmed) >= Quorum THEN "QUORUM_CONFIRMED"
                               ELSE IF Cardinality(agreed) >= Quorum THEN "STALE"
                               ELSE "NOT_ESTABLISHED"
           /\ verifyCompletenessParsed(r, snapshot, Doubled, fresh) = "INVALID_INPUT"
=============================================================================
