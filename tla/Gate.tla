-------------------------------- MODULE Gate --------------------------------
(***************************************************************************)
(* The NOA Gate: GateEngine (packages/gate/src/engine.ts) over the Store   *)
(* interface (packages/gate/src/store.ts).                                 *)
(*                                                                         *)
(* An agent asks the gate to hold an action, an approver decides the hold, *)
(* an approval issues one execution grant, the agent reserves the grant    *)
(* before it acts and reports afterwards.  Several gate processes may      *)
(* share one durable store: a read returns a detached copy, a put writes   *)
(* the whole record, and only settleHold, claimGrantStatus and             *)
(* claimGrantReported compare and swap.  So a handler is a first step that *)
(* reads, checks and signs, and later steps, one per write to the store;   *)
(* op[e] is what process e carries from one to the next.  The handlers are *)
(* synchronous, so a process carries at most one.                          *)
(***************************************************************************)
EXTENDS Naturals, FiniteSets

CONSTANTS
    Engines,        \* gate processes sharing the store
    OwnerEngines,   \* those configured with an effect owner
    Agents, Keys,   \* callers, and their idempotency keys
    Bodies, Owned,  \* the held actions; those the gate commits itself
    Chains,         \* chain names an agent may send
    Omitted,        \* a request that names no chain
    HoldIds, GrantIds,
    Boots, Roots,   \* boot identifiers; tenant, gate key and key-manifest epoch
    Rosters,        \* pinned rosters: when they end, which actions they admit
    Ttls, GrantTtl, \* hold lifetimes within the configured range; the grant's
    SweepWindow,    \* uncertaintySweepWindowMs
    MaxPending,     \* maxPendingPerAgent
    BootSkew,       \* MAX_BOOT_START_SKEW_MS
    None,
    MaxTime, MaxRestarts   \* bounds of the model: the clock, process restarts

ASSUME ConstantsAssumption ==
    /\ OwnerEngines \subseteq Engines
    /\ Owned \subseteq Bodies
    /\ Omitted \notin Chains
    /\ None \notin HoldIds \cup GrantIds \cup Roots \cup Nat
    /\ Rosters \subseteq [end : Nat, admits : SUBSET Bodies]
    /\ Ttls \subseteq Nat
    /\ GrantTtl \in Nat
    /\ SweepWindow \in Nat
    /\ MaxPending \in Nat
    /\ BootSkew \in Nat
    /\ MaxTime \in Nat
    /\ MaxRestarts \in Nat

VARIABLES
    now,        \* the clock of the processes
    restarts,   \* how many restarts happened
    trust,      \* the trust root each process booted with
    holds,      \* the store: hold records
    byIdem,     \* the store: the index by agent and idempotency key
    grants,     \* the store: grant records
    op,         \* the handler each process is in the middle of
    shown,      \* history: terminal hold views handed to callers
    reserved    \* history: how often reserve answered 200 for a grant

store == <<holds, byIdem, grants>>
history == <<shown, reserved>>
vars == <<now, restarts, trust, store, op, history>>

-----------------------------------------------------------------------------
\* Records

Settled == {"APPROVED", "DENIED", "EXPIRED", "CANCELLED_LOCAL_STATE_LOST"}

HoldStatus == {"PENDING"} \cup Settled

GrantStatus == {"UNUSED", "RESERVED", "REPORTED"}

\* What a lookup of an unknown hold or grant returns.
Absent == [status |-> "ABSENT"]

Trust == [boot : Boots, start : Nat, root : Roots, roster : Rosters]

\* `sent' is the chain of the request, `chain' the chain the hold is on; `by'
\* is the trust root that signed the Hold Resolution.
HoldRecord ==
    [status : HoldStatus, agent : Agents, key : Keys, body : Bodies,
     sent : Chains \cup {Omitted}, chain : Chains \cup HoldIds,
     boot : Boots, root : Roots, createdAt : Nat, expiresAt : Nat,
     decidedAt : Nat \cup {None}, by : Roots \cup {None},
     grant : GrantIds \cup {None}]

GrantRecord ==
    [status : GrantStatus, hold : HoldIds, expiresAt : Nat,
     reservedAt : Nat \cup {None}, reportedAt : {"null", "set"},
     claimedResult : {"null", "FAILED_BEFORE_DISPATCH"},
     consumption : {"null", "signed"}, uncertainty : {"null", "signed"}]

Idle == [kind |-> "idle"]

Operation ==
    {Idle}
      \cup [kind : {"create"}, id : HoldIds, rec : HoldRecord]
      \cup [kind : {"settle"}, id : HoldIds, next : HoldRecord,
            gid : GrantIds \cup {None}, grant : GrantRecord \cup {Absent}]
      \cup [kind : {"reserve", "report"}, id : GrantIds]
      \cup [kind : {"hint", "corroborate", "consume"}, id : GrantIds,
            rec : GrantRecord]

View(h, r) == [hold |-> h, status |-> r.status, grant |-> r.grant]

TypeOK ==
    /\ now \in Nat
    /\ restarts \in Nat
    /\ trust \in [Engines -> Trust]
    /\ holds \in [HoldIds -> HoldRecord \cup {Absent}]
    /\ byIdem \in [Agents -> [Keys -> HoldIds \cup {None}]]
    /\ grants \in [GrantIds -> GrantRecord \cup {Absent}]
    /\ op \in [Engines -> Operation]
    /\ shown \subseteq [hold : HoldIds, status : Settled,
                        grant : GrantIds \cup {None}]
    /\ reserved \in [GrantIds -> Nat]

Init ==
    /\ now = 0
    /\ restarts = 0
    /\ trust \in [Engines -> [boot : Boots, start : {0}, root : Roots,
                              roster : Rosters]]
    /\ holds = [h \in HoldIds |-> Absent]
    /\ byIdem = [a \in Agents |-> [k \in Keys |-> None]]
    /\ grants = [g \in GrantIds |-> Absent]
    /\ op = [e \in Engines |-> Idle]
    /\ shown = {}
    /\ reserved = [g \in GrantIds |-> 0]

-----------------------------------------------------------------------------
\* Checks

Pending(h) == holds[h].status = "PENDING"

Exists(g) == grants[g].status \in GrantStatus

\* envelopeAudienceRefusal: tenant, gate kid and key-manifest epoch.
Audience(e, h) == holds[h].root = trust[e].root

\* The roster that lets this process create or spend authority.
RosterCurrent(e) == now < trust[e].roster.end

\* envelopeBindingRefusal
Binding(e, h) == RosterCurrent(e) /\ Audience(e, h)

\* pinnedClassRefusal
Admits(e, b) == b \in trust[e].roster.admits

\* Mutant: the boot identifier is trusted on its own.
BootById(e, h) == holds[h].boot = trust[e].boot

\* frozenBeforeBoot, and the comparison of the boot identifiers beside it.
OfThisBoot(e, h) ==
    /\ holds[h].boot = trust[e].boot
    /\ holds[h].createdAt >= trust[e].start

Overdue(h) == now >= holds[h].expiresAt

Holding == {op[e].id : e \in {f \in Engines : op[f].kind = "create"}}

Minting == {op[e].gid : e \in {f \in Engines : op[f].kind = "settle"}}

\* newId: an identifier nothing has, and no handler is about to give out.
FreshHold(h) == holds[h] = Absent /\ h \notin Holding

FreshGrant(g) == grants[g] = Absent /\ g \notin Minting

\* A request without a chain is put on a new one, here named by its hold.
ChainOf(h, c) == IF c = Omitted THEN h ELSE c

PendingOf(a) == {h \in HoldIds : Pending(h) /\ holds[h].agent = a}

\* Mutant: the check for an unresolved hold on the chain is missing.
ChainUnchecked(a, c) == FALSE

hasPendingOnChain(a, c) == \E h \in PendingOf(a) : holds[h].chain = c

\* Mutant: the pending limits are checked before the idempotency key.
LimitsFirst(e, a, k, b, c, h) ==
    IF hasPendingOnChain(a, ChainOf(h, c)) THEN "HOLD_ALREADY_PENDING"
    ELSE IF byIdem[a][k] = None THEN "CREATED"
    ELSE IF holds[byIdem[a][k]].body = b THEN "IDEMPOTENT"
    ELSE "IDEMPOTENCY_CONFLICT"

\* How createHold answers a request, its checks in the order of the code;
\* h is the identifier a new hold would get.
CreateAnswer(e, a, k, b, c, h) ==
    LET found == byIdem[a][k] IN
    IF ~RosterCurrent(e) THEN "ROSTER_EXPIRED"
    ELSE IF ~Admits(e, b) THEN "RISK_CLASS_NOT_IN_ROSTER"
    ELSE IF b \in Owned /\ e \notin OwnerEngines THEN "EFFECT_OWNER_UNCONFIGURED"
    ELSE IF found # None
         THEN IF holds[found].body = b /\ holds[found].chain = ChainOf(h, c)
              THEN "IDEMPOTENT" ELSE "IDEMPOTENCY_CONFLICT"
    ELSE IF hasPendingOnChain(a, ChainOf(h, c)) THEN "HOLD_ALREADY_PENDING"
    ELSE IF Cardinality(PendingOf(a)) >= MaxPending THEN "MAX_PENDING_EXCEEDED"
    ELSE "CREATED"

-----------------------------------------------------------------------------
\* Store: the three compare-and-swap primitives, as what the caller wins and
\* the record it leaves.

\* Mutant: the swap does not compare.
SettleAlways(h) == TRUE
SettleWins(h) == holds[h].status = "PENDING"

\* Mutant: the swap does not compare.
ClaimAlways(g) == Exists(g)

ClaimStatusWins(g) == grants[g].status = "UNUSED"

ClaimReportedWins(g) == Exists(g) /\ grants[g].reportedAt = "null"

-----------------------------------------------------------------------------
\* Handlers: each begins with a step that reads, checks and signs.

Begin(e, o) ==
    /\ op[e] = Idle
    /\ op' = [op EXCEPT ![e] = o]
    /\ UNCHANGED <<now, restarts, trust, store, history>>

Finish(e) ==
    /\ op' = [op EXCEPT ![e] = Idle]
    /\ UNCHANGED <<now, restarts, trust>>

NewHold(e, a, k, b, c, ttl, h) ==
    [status |-> "PENDING", agent |-> a, key |-> k, body |-> b,
     sent |-> c, chain |-> ChainOf(h, c),
     boot |-> trust[e].boot, root |-> trust[e].root,
     createdAt |-> now, expiresAt |-> now + ttl,
     decidedAt |-> None, by |-> None, grant |-> None]

CreateHold(e, a, k, b, c, ttl, h) ==
    /\ FreshHold(h)
    /\ CreateAnswer(e, a, k, b, c, h) = "CREATED"
    /\ Begin(e, [kind |-> "create", id |-> h,
                 rec |-> NewHold(e, a, k, b, c, ttl, h)])

\* The settled copy of hold h that process e hands to settleHold.
SettledAs(e, h, status, g) ==
    [holds[h] EXCEPT !.status = status, !.decidedAt = now,
                     !.by = trust[e].root, !.grant = g]

Settlement(e, h, status) ==
    [kind |-> "settle", id |-> h, next |-> SettledAs(e, h, status, None),
     gid |-> None, grant |-> Absent]

\* Mutants: the audience is not checked; an expired roster stops the recording.
ExpireUnowned(e, h) ==
    /\ Pending(h)
    /\ Overdue(h)
    /\ Begin(e, Settlement(e, h, "EXPIRED"))
ExpireWithRoster(e, h) == Pending(h) /\ Binding(e, h) /\ ExpireUnowned(e, h)

\* settleExpiry up to its settleHold: getHold, wait, commit and the sweep.
ExpireHold(e, h) ==
    /\ Pending(h)
    /\ Overdue(h)
    /\ Audience(e, h)
    /\ Begin(e, Settlement(e, h, "EXPIRED"))

\* Mutant: the configured lifetime alone.
GrantEndUnclamped(e, h) == now + GrantTtl

\* The grant ends with its hold, and with the roster that authorized it.
GrantEnd(e, h) ==
    LET ends == {now + GrantTtl, holds[h].expiresAt, trust[e].roster.end}
    IN  CHOOSE t \in ends : \A u \in ends : t <= u

IssueGrant(e, h) ==
    [status |-> "UNUSED", hold |-> h, expiresAt |-> GrantEnd(e, h),
     reservedAt |-> None, reportedAt |-> "null", claimedResult |-> "null",
     consumption |-> "null", uncertainty |-> "null"]

Approval(e, h, g) ==
    [kind |-> "settle", id |-> h, next |-> SettledAs(e, h, "APPROVED", g),
     gid |-> g, grant |-> IssueGrant(e, h)]

\* decide, for a decision the approver's device validly signed; g is the
\* identifier an approval's grant gets.  An overdue hold is expired instead.
DecideHold(e, h, verdict, g) ==
    /\ Pending(h)
    /\ Binding(e, h)
    /\ Overdue(h) \/ (Admits(e, holds[h].body) /\ OfThisBoot(e, h))
    /\ verdict = "APPROVE" => FreshGrant(g)
    /\ Begin(e, IF Overdue(h) THEN Settlement(e, h, "EXPIRED")
                ELSE IF verdict = "APPROVE" THEN Approval(e, h, g)
                ELSE Settlement(e, h, "DENIED"))

\* cancelLocalStateLost, by the hold's agent.
CancelHold(e, a, h) ==
    /\ Pending(h)
    /\ holds[h].agent = a
    /\ Audience(e, h)
    /\ Begin(e, Settlement(e, h, IF Overdue(h) THEN "EXPIRED"
                                 ELSE "CANCELLED_LOCAL_STATE_LOST"))

\* Mutant: an effect-owned action can be reserved.
ReservableOwned(e, g) ==
    Binding(e, grants[g].hold) /\ now < grants[g].expiresAt

Reservable(e, g) ==
    LET h == grants[g].hold IN
    /\ holds[h].body \notin Owned
    /\ holds[h].status = "APPROVED"
    /\ Binding(e, h)
    /\ now < grants[g].expiresAt

\* reserve, by the hold's agent, up to its claimGrantStatus.
ReserveGrant(e, a, g) ==
    /\ Exists(g)
    /\ holds[grants[g].hold].agent = a
    /\ Reservable(e, g)
    /\ Begin(e, [kind |-> "reserve", id |-> g])

\* Mutant: a report after the terminal one is taken.
ReportableAgain(e, g) ==
    Audience(e, grants[g].hold) /\ grants[g].status # "UNUSED"

\* What report checks before it looks at the result.
Reportable(e, g) ==
    LET h == grants[g].hold IN
    /\ Audience(e, h)
    /\ holds[h].body \notin Owned
    /\ grants[g].reportedAt = "null"
    /\ grants[g].status # "UNUSED"

\* report DISPATCHED: the attempt receipt and the consumption are signed, the
\* terminal lock is not taken yet.
ReportDispatched(e, a, g) ==
    /\ Exists(g)
    /\ holds[grants[g].hold].agent = a
    /\ Reportable(e, g)
    /\ Begin(e, [kind |-> "report", id |-> g])

\* Mutant: the last report decides what is claimed.
HintedLast(g, result) ==
    [grants[g] EXCEPT !.claimedResult = IF result = "UNKNOWN" THEN "null" ELSE result]

\* The first FAILED_BEFORE_DISPATCH claim is kept; UNKNOWN records no claim.
Hinted(g, result) ==
    IF result = "FAILED_BEFORE_DISPATCH" /\ grants[g].claimedResult = "null"
    THEN [grants[g] EXCEPT !.claimedResult = result]
    ELSE grants[g]

\* report FAILED_BEFORE_DISPATCH or UNKNOWN, up to its putGrant.
ReportHint(e, a, g, result) ==
    /\ Exists(g)
    /\ holds[grants[g].hold].agent = a
    /\ Reportable(e, g)
    /\ Begin(e, [kind |-> "hint", id |-> g, rec |-> Hinted(g, result)])

\* sweepUncertainty, for one grant of its listing.
SweepGrant(e, g) ==
    /\ Exists(g)
    /\ grants[g].status = "RESERVED"
    /\ Begin(e, [kind |-> "corroborate", id |-> g, rec |-> grants[g]])

-----------------------------------------------------------------------------
\* The writes that finish a handler.

PutHold(e) ==
    LET o == op[e] IN
    /\ o.kind = "create"
    /\ holds' = [holds EXCEPT ![o.id] = o.rec]
    /\ byIdem' = [byIdem EXCEPT ![o.rec.agent][o.rec.key] = o.id]
    /\ Finish(e)
    /\ UNCHANGED <<grants, history>>

\* settleHold.  The winner shows what it settled; a loser has signed in vain
\* and shows, if anything, the hold it reads again.
SettleHold(e) ==
    LET o == op[e] IN
    /\ o.kind = "settle"
    /\ IF SettleWins(o.id)
       THEN /\ holds' = [holds EXCEPT ![o.id] = o.next]
            /\ byIdem' = [byIdem EXCEPT ![o.next.agent][o.next.key] = o.id]
            /\ grants' = IF o.gid = None THEN grants
                         ELSE [grants EXCEPT ![o.gid] = o.grant]
            /\ shown' = shown \cup {View(o.id, o.next)}
       ELSE /\ UNCHANGED store
            /\ shown' = shown \cup {View(o.id, holds[o.id])}
    /\ Finish(e)
    /\ UNCHANGED reserved

\* claimGrantStatus(UNUSED -> RESERVED), which alone decides the answer.
ClaimStatus(e) ==
    LET o == op[e] IN
    /\ o.kind = "reserve"
    /\ IF ClaimStatusWins(o.id)
       THEN /\ grants' = [grants EXCEPT ![o.id].status = "RESERVED",
                                        ![o.id].reservedAt = now]
            /\ reserved' = [reserved EXCEPT ![o.id] = @ + 1]
       ELSE UNCHANGED <<grants, reserved>>
    /\ Finish(e)
    /\ UNCHANGED <<holds, byIdem, shown>>

\* claimGrantReported: the winner goes on with the record the store returned.
ClaimReported(e) ==
    LET o == op[e]
        won == [grants[o.id] EXCEPT !.status = "REPORTED", !.reportedAt = "set"]
    IN
    /\ o.kind = "report"
    /\ IF ClaimReportedWins(o.id)
       THEN /\ grants' = [grants EXCEPT ![o.id] = won]
            /\ op' = [op EXCEPT ![e] = [kind |-> "consume", id |-> o.id,
                                        rec |-> won]]
       ELSE /\ op' = [op EXCEPT ![e] = Idle]
            /\ UNCHANGED grants
    /\ UNCHANGED <<now, restarts, trust, holds, byIdem, shown, reserved>>

\* putGrant of the locked record with its consumption.
PutConsumption(e) ==
    LET o == op[e] IN
    /\ o.kind = "consume"
    /\ grants' = [grants EXCEPT ![o.id] = [o.rec EXCEPT !.consumption = "signed"]]
    /\ Finish(e)
    /\ UNCHANGED <<holds, byIdem, history>>

\* putGrant of the hinted record; the corroboration goes on with the same copy.
PutHint(e) ==
    LET o == op[e] IN
    /\ o.kind = "hint"
    /\ grants' = [grants EXCEPT ![o.id] = o.rec]
    /\ op' = [op EXCEPT ![e] = [o EXCEPT !.kind = "corroborate"]]
    /\ UNCHANGED <<now, restarts, trust, holds, byIdem, history>>

\* Mutants: the window is not awaited; an expired roster stops the recording.
StuckAtOnce(e, rec) == rec.status = "RESERVED"
StuckWithRoster(e, rec) ==
    /\ rec.status = "RESERVED"
    /\ Binding(e, rec.hold)
    /\ now >= rec.reservedAt + SweepWindow

Stuck(e, rec) ==
    /\ rec.status = "RESERVED"
    /\ rec.reportedAt = "null"
    /\ rec.reservedAt # None
    /\ Audience(e, rec.hold)
    /\ now >= rec.reservedAt + SweepWindow

\* corroborateUncertainty
Corroborate(e) ==
    LET o == op[e] IN
    /\ o.kind = "corroborate"
    /\ grants' = IF Stuck(e, o.rec) /\ o.rec.uncertainty = "null"
                 THEN [grants EXCEPT ![o.id] = [o.rec EXCEPT !.uncertainty = "signed"]]
                 ELSE grants
    /\ Finish(e)
    /\ UNCHANGED <<holds, byIdem, history>>

\* The signer or the sealer throws before the handler's first write, or the
\* corroboration's signature fails: the caller gets an error, nothing more is
\* written.
SignerFails(e) ==
    /\ op[e].kind \in {"create", "settle", "report", "corroborate"}
    /\ Finish(e)
    /\ UNCHANGED <<store, history>>

\* A process restarts onto the durable store, possibly with a new trust root;
\* a supervisor may hand it a boot identifier and boot start used before, or a
\* start a little ahead of the clock.
Restart(e, t) ==
    /\ restarts < MaxRestarts
    /\ t.start <= now + BootSkew
    /\ restarts' = restarts + 1
    /\ trust' = [trust EXCEPT ![e] = t]
    /\ op' = [op EXCEPT ![e] = Idle]
    /\ UNCHANGED <<now, store, history>>

Tick ==
    /\ now < MaxTime
    /\ now' = now + 1
    /\ UNCHANGED <<restarts, trust, store, op, history>>

Request(e) ==
    \/ \E a \in Agents, k \in Keys, b \in Bodies, c \in Chains \cup {Omitted},
          ttl \in Ttls, h \in HoldIds : CreateHold(e, a, k, b, c, ttl, h)
    \/ \E h \in HoldIds, v \in {"APPROVE", "DENY"}, g \in GrantIds :
          DecideHold(e, h, v, g)
    \/ \E a \in Agents, h \in HoldIds : CancelHold(e, a, h)
    \/ \E a \in Agents, g \in GrantIds : ReserveGrant(e, a, g)
    \/ \E a \in Agents, g \in GrantIds : ReportDispatched(e, a, g)
    \/ \E a \in Agents, g \in GrantIds,
          r \in {"FAILED_BEFORE_DISPATCH", "UNKNOWN"} : ReportHint(e, a, g, r)

Sweep(e) ==
    \/ \E h \in HoldIds : ExpireHold(e, h)
    \/ \E g \in GrantIds : SweepGrant(e, g)

Write(e) ==
    \/ PutHold(e)
    \/ SettleHold(e)
    \/ ClaimStatus(e)
    \/ ClaimReported(e)
    \/ PutConsumption(e)
    \/ PutHint(e)
    \/ Corroborate(e)

BootTrust ==
    [boot : Boots, start : 0..(MaxTime + BootSkew), root : Roots, roster : Rosters]

Next ==
    \/ \E e \in Engines :
          \/ Request(e)
          \/ Sweep(e)
          \/ Write(e)
          \/ SignerFails(e)
          \/ \E t \in BootTrust : Restart(e, t)
    \/ Tick

Spec == Init /\ [][Next]_vars

\* The event loop runs a due timer between any two handlers (server.ts), a
\* synchronous handler that began runs on, and a signer that is down comes
\* back: it does not refuse every attempt for ever.
Fairness ==
    /\ \A e \in Engines :
          /\ \A h \in HoldIds : SF_vars(ExpireHold(e, h))
          /\ \A g \in GrantIds : SF_vars(SweepGrant(e, g))
          /\ SF_vars(SettleHold(e))
          /\ SF_vars(Corroborate(e))
          /\ WF_vars(Write(e))
    /\ WF_vars(Tick)

FairSpec == Spec /\ Fairness

-----------------------------------------------------------------------------
\* What holds for any number of processes over one store.

\* An approval and its grant are stored together: every stored grant is the
\* one its approved hold names, and every approved hold has its grant.  Two
\* processes that approve one hold at once never leave two grants (decide,
\* settleHold).
GrantsMatchApprovals ==
    /\ \A g \in GrantIds : Exists(g) =>
          /\ holds[grants[g].hold].status = "APPROVED"
          /\ holds[grants[g].hold].grant = g
    /\ \A h \in HoldIds : holds[h].status = "APPROVED" =>
          /\ holds[h].grant \in GrantIds
          /\ Exists(holds[h].grant)
          /\ grants[holds[h].grant].hold = h

\* No caller is ever shown a terminal state the store does not hold: a process
\* that lost the race to settle drops what it signed (settleExpiry, decide,
\* cancelLocalStateLost).
ShownIsStored == \A v \in shown : View(v.hold, holds[v.hold]) = v

\* A grant is reserved with success at most once, whoever asks and however the
\* processes interleave: one human approval, one execution.  And no copy written
\* back late makes a reserved grant UNUSED again (reserve, claimGrantStatus,
\* putGrant).
ReservedOnce ==
    \A g \in GrantIds :
        /\ reserved[g] <= 1
        /\ grants[g].status \notin {"RESERVED", "REPORTED"} => reserved[g] = 0

CreateCurrent(e) ==
    LET o == op[e] IN o.kind = "create" =>
        /\ holds[o.id] = Absent
        /\ o.rec.status = "PENDING"
        /\ \A f \in Engines \ {e} : op[f].kind = "create" => op[f].id # o.id

SettleCurrent(e) ==
    LET o == op[e] IN o.kind = "settle" =>
        /\ holds[o.id] # Absent
        /\ o.next.status \in Settled
        /\ o.next.grant = o.gid
        /\ o.next.root = holds[o.id].root /\ o.next.by = o.next.root
        /\ o.next.status = "APPROVED" <=> o.gid # None
        /\ o.gid # None =>
              /\ grants[o.gid] = Absent
              /\ o.grant # Absent /\ o.grant.status = "UNUSED" /\ o.grant.hold = o.id
              /\ \A f \in Engines \ {e} : op[f].kind = "settle" => op[f].gid # o.gid

GrantCurrent(e) ==
    LET o == op[e] IN
    /\ o.kind \in {"reserve", "report"} => Exists(o.id)
    /\ o.kind \in {"hint", "corroborate", "consume"} =>
          /\ grants[o.id].status \in {"RESERVED", "REPORTED"}
          /\ o.rec.status # "UNUSED" /\ o.rec.hold = grants[o.id].hold

\* What the handlers in progress carry stays true of the store while others
\* overtake them: a hold about to be put is still unknown and a hold about to be
\* settled is known, the grant an approval is about to store is new and no one
\* else's, and a copy of a grant is of one that was reserved (createHold, decide,
\* report, corroborateUncertainty).
OpsCurrent ==
    \A e \in Engines : CreateCurrent(e) /\ SettleCurrent(e) /\ GrantCurrent(e)

\* A report is about a grant that was reserved (report).
ReportsReserved ==
    \A e \in Engines : op[e].kind = "report" =>
        grants[op[e].id].status \in {"RESERVED", "REPORTED"}

\* A grant opens before it ends and ends with its hold at the latest; a hold is
\* decided or cancelled strictly before its end and expired only from its end
\* on, whichever process settled it and however late its write came (decide,
\* settleExpiry).
AuthorityWithinHold ==
    /\ \A h \in HoldIds : holds[h].status \in Settled =>
          /\ holds[h].createdAt <= holds[h].decidedAt
          /\ holds[h].status = "EXPIRED"
                <=> holds[h].decidedAt >= holds[h].expiresAt
    /\ \A g \in GrantIds : Exists(g) =>
          /\ grants[g].expiresAt <= holds[grants[g].hold].expiresAt
          /\ holds[grants[g].hold].decidedAt < grants[g].expiresAt

\* A signed uncertainty says the grant sat RESERVED for the whole sweep window,
\* even when it was signed from a copy another process has overtaken
\* (corroborateUncertainty).
UncertaintyAfterWindow ==
    \A g \in GrantIds : Exists(g) /\ grants[g].uncertainty = "signed" =>
        /\ grants[g].reservedAt # None
        /\ now >= grants[g].reservedAt + SweepWindow

\* A hold leaves PENDING once: no step changes a settled hold (settleHold,
\* putHold).
SettledIsFinal ==
    [][\A h \in HoldIds :
          holds[h].status \in Settled => holds'[h] = holds[h]]_vars

\* Only the trust root that froze a hold ever signs its resolution: a process of
\* another tenant, gate key or key-manifest epoch leaves it as it is, expiry
\* included (envelopeAudienceRefusal in settleExpiry, decide and
\* cancelLocalStateLost).
ResolvedByItsRoot ==
    \A h \in HoldIds : holds[h].status \in Settled => holds[h].by = holds[h].root

\* A hold is approved or denied only through a process whose boot froze it, never
\* through one that came up later, even on the same boot identifier (decide,
\* frozenBeforeBoot); and an approval is spent only through the trust root that
\* asked for it (reserve, envelopeBindingRefusal).
DecidedAndSpentAtHome ==
    [][/\ \A h \in HoldIds :
            Pending(h) /\ holds'[h].status \in {"APPROVED", "DENIED"} =>
              \E e \in Engines :
                  /\ op[e].kind = "settle" /\ op[e].id = h
                  /\ holds[h].boot = trust[e].boot
                  /\ holds[h].createdAt >= trust[e].start
       /\ \A g \in GrantIds : reserved'[g] # reserved[g] =>
            \E e \in Engines :
                op[e].kind = "reserve" /\ op[e].id = g /\ Audience(e, grants[g].hold)]_vars

\* The approval each hold amounts to, as the abstract specification sees it.
AuthorityState ==
    [h \in HoldIds |-> CASE holds[h].status = "ABSENT" -> "none"
                         [] holds[h].status = "PENDING" -> "open"
                         [] holds[h].status = "APPROVED" -> "granted"
                         [] OTHER -> "closed"]

AuthorityUses ==
    [h \in HoldIds |-> IF holds[h].status = "APPROVED"
                       THEN reserved[holds[h].grant] ELSE 0]

Authority == INSTANCE HoldAuthority
    WITH Holds <- HoldIds, state <- AuthorityState, uses <- AuthorityUses

\* The gate, any number of processes over one store, implements single-use
\* authority: a hold is resolved once, and its approval admits one execution
\* (decide, settleExpiry, cancelLocalStateLost, reserve).
ImplementsAuthority == Authority!Spec

-----------------------------------------------------------------------------
\* What holds for one process, the shipped configuration over its in-memory
\* store: these rest on handlers that no other process interleaves with.

\* An agent has at most one unresolved hold on a chain and at most MaxPending
\* in all (D17 and the pending limit of createHold).
PendingHoldsLimited ==
    \A a \in Agents :
        /\ Cardinality(PendingOf(a)) <= MaxPending
        /\ \A g, h \in PendingOf(a) : holds[g].chain = holds[h].chain => g = h

\* What createHold answers to the request that created hold h, sent again.
RetryAnswers(h) ==
    LET r == holds[h] IN
    {CreateAnswer(e, r.agent, r.key, r.body, r.sent, f) :
        e \in Engines, f \in {x \in HoldIds : FreshHold(x)}}

RetryRefused ==
    {"IDEMPOTENCY_CONFLICT", "HOLD_ALREADY_PENDING", "MAX_PENDING_EXCEEDED",
     "CREATED"}

\* A request that names its chain can be sent again for as long as the roster
\* admits it: it is answered with its hold, in whatever state that is by then,
\* and never creates a second one (createHold, getHoldByIdem).
NamedRetryFindsHold ==
    \A h \in HoldIds : holds[h] # Absent /\ holds[h].sent # Omitted =>
        RetryAnswers(h) \cap RetryRefused = {}

\* The same for every request: repeating createHold with the same key and body
\* recovers the hold (NON-CLAIMS.md, NC-S9.16).
RetryFindsHold ==
    \A h \in HoldIds : holds[h] # Absent =>
        RetryAnswers(h) \cap RetryRefused = {}

\* The terminal report lock is taken once: a reported grant only ever gains its
\* consumption, it is never reopened, and no uncertainty is signed for it
\* afterwards (report, claimGrantReported, corroborateUncertainty).
ReportedIsFinal ==
    [][\A g \in GrantIds : Exists(g) /\ grants[g].reportedAt = "set" =>
          grants'[g] \in
              {grants[g], [grants[g] EXCEPT !.consumption = "signed"]}]_vars

\* A recorded claim, a signed uncertainty and a signed consumption stay on the
\* grant's record whatever is reported later (report, corroborateUncertainty).
EvidenceIsKept ==
    [][\A g \in GrantIds : Exists(g) =>
          \A f \in {"claimedResult", "uncertainty", "consumption"} :
              grants[g][f] # "null" => grants'[g][f] = grants[g][f]]_vars

\* An overdue hold does not stay PENDING while a process of its trust root is
\* up: the sweep or a read expires it, unless a decision that came in time
\* settles it (sweepExpired, settleExpiry).
OverdueSettles ==
    \A h \in HoldIds :
        Pending(h) /\ Overdue(h) ~>
            ~Pending(h) \/ \A e \in Engines : ~Audience(e, h)

=============================================================================
