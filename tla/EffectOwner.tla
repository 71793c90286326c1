----------------------------- MODULE EffectOwner -----------------------------
(***************************************************************************)
(* Effect-owned actions: GateEngine.commit (packages/gate/src/engine.ts)   *)
(* and the in-memory ledger owner (packages/gate/src/effect-owner.ts) over *)
(* the Gate.  The gate executes an approved transfer itself: it writes the *)
(* ledger row and moves the balances in one step, then mirrors the         *)
(* consumption onto the grant in the shared store, which may fail.  The    *)
(* ledger lives in the process and is lost with it; the store is not.      *)
(***************************************************************************)
EXTENDS Gate

CONSTANTS
    Accounts,          \* the accounts of the ledger
    Opening,           \* their opening balances
    From, To, Amount,  \* what an effect-owned action moves
    SelfMinted         \* boot identifiers that processes with an owner mint

\* What is assumed of the constants.
OwnerAssumption ==
    /\ Opening \in [Accounts -> Nat]
    /\ Amount \in [Owned -> Nat]
    /\ \A b \in Owned : From[b] # To[b]
    /\ SelfMinted \subseteq Boots

VARIABLES
    rows,       \* per process: the ledger rows its owner recorded
    balances,   \* per process: the balances of its ledger
    booted,     \* boot identifiers in use so far
    moved       \* history: how often a hold's transfer was executed

ownerVars == <<rows, balances, booted, moved>>
allVars == <<vars, ownerVars>>

Row == [hold : HoldIds, grant : GrantIds, outcome : {"EXECUTED", "REFUSED"}]

\* The engine and its owner are built for one boot: an owner without a record in
\* the store runs only under an identifier nothing else ever had.
OwnerInit ==
    /\ Init
    /\ \A e \in Engines :
          trust[e].boot \in IF e \in OwnerEngines THEN SelfMinted ELSE Boots \ SelfMinted
    /\ \A e, f \in OwnerEngines : e # f => trust[e].boot # trust[f].boot
    /\ rows = [e \in OwnerEngines |-> {}]
    /\ balances = [e \in OwnerEngines |-> Opening]
    /\ booted = {trust[e].boot : e \in Engines}
    /\ moved = [h \in HoldIds |-> 0]

-----------------------------------------------------------------------------
\* The owner

\* find
Recorded(e, h) == {r \in rows[e] : r.hold = h}

\* O2: one row per envelope, per decision and per grant.
Consumed(e, h, g) == \E r \in rows[e] : r.hold = h \/ r.grant = g

\* verifyEffectAuthority: what was signed, by this trust root and this boot.
EffectAuthority(e, h) ==
    /\ Audience(e, h)
    /\ OfThisBoot(e, h)

\* O6 and O7: unknown accounts and missing funds are recorded as refused.
Outcome(e, b) ==
    IF {From[b], To[b]} \subseteq Accounts /\ balances[e][From[b]] >= Amount[b]
    THEN "EXECUTED" ELSE "REFUSED"

Move(bal, b) == [bal EXCEPT ![From[b]] = @ - Amount[b], ![To[b]] = @ + Amount[b]]

-----------------------------------------------------------------------------
\* The engine's commit

\* Mutants: the grant's record is looked at before the ledger's, or instead of
\* it; a hold of an earlier boot is committed.
StateFirst(e, h) ==
    IF holds[h].status # "APPROVED" THEN "HOLD_NOT_APPROVED"
    ELSE IF grants[holds[h].grant].status # "UNUSED" THEN "GRANT_NOT_UNUSED"
    ELSE IF Recorded(e, h) # {} THEN (CHOOSE w \in Recorded(e, h) : TRUE).outcome
    ELSE "COMMITS"
BootForgotten(e, h) ==
    IF Recorded(e, h) # {} THEN (CHOOSE w \in Recorded(e, h) : TRUE).outcome
    ELSE IF holds[h].status # "APPROVED" THEN "HOLD_NOT_APPROVED"
    ELSE IF grants[holds[h].grant].status # "UNUSED" THEN "GRANT_NOT_UNUSED"
    ELSE "COMMITS"

\* How commit answers for an effect-owned hold of the caller, with an owner
\* configured, its checks in the order of the code: replay first.
CommitAnswer(e, h) ==
    LET r == holds[h]
        g == grants[r.grant]
    IN  IF Recorded(e, h) # {}
        THEN IF \E w \in Recorded(e, h) : w.grant = r.grant
             THEN (CHOOSE w \in Recorded(e, h) : TRUE).outcome
             ELSE "EFFECT_AUTHORITY_CONSUMED"
        ELSE IF r.status # "APPROVED" THEN "HOLD_NOT_APPROVED"
        ELSE IF g.status # "UNUSED" \/ g.reportedAt # "null" THEN "GRANT_NOT_UNUSED"
        ELSE IF ~Binding(e, h) THEN "REFUSED_BY_TRUST"
        ELSE IF ~EffectAuthority(e, h) THEN "HOLD_FROM_DEAD_BOOT"
        ELSE IF Consumed(e, h, r.grant) THEN "EFFECT_AUTHORITY_CONSUMED"
        ELSE IF now >= g.expiresAt \/ now >= r.expiresAt THEN "GRANT_EXPIRED"
        ELSE "COMMITS"

\* commit with its owner's commitOnce: the row, the balances and the answer are
\* one step, since nobody else moves the records it has read: the hold is settled
\* and no wrapper can reserve its grant.  An executed transfer goes on to mirror
\* its consumption, which is claimGrantReported and putGrant, as in a report.  The
\* lazy expiry of an overdue hold is ExpireHold, and ends in a refusal here.
CommitHold(e, a, h) ==
    LET b == holds[h].body
        g == holds[h].grant
        outcome == Outcome(e, b)
    IN
    /\ op[e] = Idle
    /\ holds[h] # Absent
    /\ holds[h].agent = a
    /\ b \in Owned
    /\ CommitAnswer(e, h) = "COMMITS"
    /\ rows' = [rows EXCEPT ![e] = @ \cup {[hold |-> h, grant |-> g, outcome |-> outcome]}]
    /\ IF outcome = "EXECUTED"
       THEN /\ balances' = [balances EXCEPT ![e] = Move(@, b)]
            /\ moved' = [moved EXCEPT ![h] = @ + 1]
            /\ op' = [op EXCEPT ![e] = [kind |-> "report", id |-> g]]
       ELSE UNCHANGED <<balances, moved, op>>
    /\ UNCHANGED <<now, restarts, trust, store, history, booted>>

\* mirrorGrantConsumed: the store refuses one of the two writes; the answer is
\* still the row's.
MirrorFails(e) ==
    /\ op[e].kind \in {"report", "consume"}
    /\ holds[grants[op[e].id].hold].body \in Owned
    /\ Finish(e)
    /\ UNCHANGED <<store, history, ownerVars>>

-----------------------------------------------------------------------------
\* The whole

\* An engine with an owner mints its boot identifier itself and starts now
\* (EFFECT_OWNER_SUPERVISOR_BOOT_UNSAFE, EFFECT_OWNER_TRUST_IN_USE).
BootAllowed(e, t) ==
    IF e \in OwnerEngines THEN t.boot \in SelfMinted \ booted /\ t.start = now
    ELSE t.boot \notin SelfMinted

\* The ledger starts again with the process.
RestartOwner(e, t) ==
    /\ BootAllowed(e, t)
    /\ Restart(e, t)
    /\ booted' = booted \cup {t.boot}
    /\ IF e \in OwnerEngines
       THEN /\ rows' = [rows EXCEPT ![e] = {}]
            /\ balances' = [balances EXCEPT ![e] = Opening]
       ELSE UNCHANGED <<rows, balances>>
    /\ UNCHANGED moved

GateStep ==
    \/ \E e \in Engines : Request(e) \/ Sweep(e) \/ Write(e) \/ SignerFails(e)
    \/ Tick

OwnerNext ==
    \/ GateStep /\ UNCHANGED ownerVars
    \/ \E e \in OwnerEngines, a \in Agents, h \in HoldIds : CommitHold(e, a, h)
    \/ \E e \in OwnerEngines : MirrorFails(e)
    \/ \E e \in Engines, t \in BootTrust : RestartOwner(e, t)

OwnerSpec == OwnerInit /\ [][OwnerNext]_allVars

-----------------------------------------------------------------------------
\* Properties

\* A committed effect is never answered as refused afterwards, whatever expired
\* or was mirrored since: the owner that recorded it answers with its row
\* (commit: replay first).
CommittedIsAnswered ==
    \A e \in OwnerEngines : \A r \in rows[e] : CommitAnswer(e, r.hold) = r.outcome

\* The grant of an effect-owned action reads consumed only if its transfer was
\* executed, and no wrapper ever reserved it (mirrorGrantConsumed).
MirrorIsTrue ==
    \A g \in GrantIds : Exists(g) /\ holds[grants[g].hold].body \in Owned =>
        /\ grants[g].status # "RESERVED"
        /\ grants[g].status = "REPORTED" \/ grants[g].consumption = "signed" =>
              moved[grants[g].hold] = 1

\* An execution is either the gate's or the wrapper's.
Executions ==
    [h \in HoldIds |-> IF holds[h].status = "APPROVED"
                       THEN reserved[holds[h].grant] + moved[h] ELSE 0]

OwnedAuthority == INSTANCE HoldAuthority
    WITH Holds <- HoldIds, state <- AuthorityState, uses <- Executions

\* A human approval is worth one execution, whether the gate commits the action
\* itself or a wrapper reserves the grant (commit, commitOnce, reserve).
CommitImplementsAuthority == OwnedAuthority!Spec

=============================================================================
