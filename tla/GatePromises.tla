---------------------------- MODULE GatePromises ----------------------------
(***************************************************************************)
(* What a gate promises beyond its invariant IInv: when and where any      *)
(* number of processes may act, and what holds besides for a gate of one   *)
(* process, the shipped configuration, where no other handler comes        *)
(* between what a handler read and what it writes.                         *)
(***************************************************************************)
EXTENDS GateProofs

-----------------------------------------------------------------------------
\* Time

\* At time t, an uncertainty of this record was signed after its window.
WindowOver(r, t) ==
    r.uncertainty = "signed" =>
        r.reservedAt # None /\ t >= r.reservedAt + SweepWindow

\* Inductive for UncertaintyAfterWindow: it holds of the copies too, and a grant
\* that nobody reserved yet has no uncertainty.
WindowInv ==
    /\ \A g \in GrantIds : Exists(g) =>
          /\ WindowOver(grants[g], now)
          /\ grants[g].status = "UNUSED" => grants[g].uncertainty = "null"
    /\ \A e \in Engines :
          /\ op[e].kind = "settle" /\ op[e].gid # None => op[e].grant.uncertainty = "null"
          /\ Carries(op[e]) => WindowOver(op[e].rec, now)

\* A hold's resolution is in time, and a grant's lifetime within its hold's.
InTime(r) ==
    r.status \in Settled =>
        /\ r.createdAt <= r.decidedAt
        /\ r.status = "EXPIRED" <=> r.decidedAt >= r.expiresAt

Within(r, g) == g.expiresAt <= r.expiresAt /\ r.decidedAt < g.expiresAt

\* What an operation in progress carries at time t is in time; a copy of a grant has
\* the end of that grant.
OpTimes(o, t, end) ==
    /\ o.kind = "create" => o.rec.createdAt <= t
    /\ o.kind = "settle" =>
          /\ o.next.createdAt <= t /\ InTime(o.next)
          /\ o.gid # None => Within(o.next, o.grant)
    /\ Carries(o) => o.rec.expiresAt = end

\* Inductive for AuthorityWithinHold: the settled copies that handlers carry are
\* in time, and no copy of a grant has another end.
TimesInv ==
    /\ \A h \in HoldIds : holds[h] # Absent =>
          holds[h].createdAt <= now /\ InTime(holds[h])
    /\ \A g \in GrantIds : Exists(g) => Within(holds[grants[g].hold], grants[g])
    /\ \A e \in Engines : OpTimes(op[e], now, grants[op[e].id].expiresAt)

\* A decision in progress is of a hold of this boot, and a reservation in progress
\* of a grant of this root.
SettlesAtHome(e) ==
    op[e].kind = "settle" =>
        /\ op[e].next.boot = holds[op[e].id].boot
        /\ op[e].next.createdAt = holds[op[e].id].createdAt
        /\ op[e].next.status \in {"APPROVED", "DENIED"} => OfThisBoot(e, op[e].id)

ReservesAtHome(e) ==
    op[e].kind = "reserve" => Audience(e, grants[op[e].id].hold)

\* Inductive for DecidedAndSpentAtHome.
HomeInv == \A e \in Engines : SettlesAtHome(e) /\ ReservesAtHome(e)

-----------------------------------------------------------------------------
\* Operations and records

\* Idle is no settlement and no reservation.
LEMMA IdleKind == Idle.kind # "settle" /\ Idle.kind # "reserve"
  BY Zenon DEF Idle

\* Nor is what a creation begins, or what a report goes on to.
LEMMA OtherKinds ==
    ASSUME NEW f \in Engines, op[f] \in Operation,
           BeginsCreate(f, op'[f]) \/ OpConsumes(f) \/ OpCorroborates(f)
    PROVE  op'[f].kind # "settle" /\ op'[f].kind # "reserve"
  <1>1. CASE BeginsCreate(f, op'[f])
    BY <1>1 DEF BeginsCreate
  <1>2. CASE OpConsumes(f) \/ OpCorroborates(f)
    BY <1>2 DEF OpConsumes, OpCorroborates, Operation, Idle
  <1> QED BY <1>1, <1>2, Zenon

\* A request on a grant begins no settlement, and a reservation only of a grant
\* that may be reserved.
LEMMA OnGrantKinds ==
    ASSUME NEW f, NEW x, BeginsOnGrant(f, x)
    PROVE  x.kind # "settle" /\ (x.kind = "reserve" => Reservable(f, x.id))
  BY SMTT(20) DEF BeginsOnGrant

\* An operation that begins is at home: the handler checked the boot and the root.
LEMMA BeginsHome ==
    ASSUME IInv, NEW f \in Engines, OpBegins(f), op[f] \in Operation
    PROVE  SettlesAtHome(f)' /\ ReservesAtHome(f)'
  <1> DEFINE x == op'[f]
  <1>0. Begins(f, x) /\ trust' = trust /\ holds' = holds /\ grants' = grants
    BY Zenon DEF OpBegins, store
  <1>k. "settle" # "reserve"
    BY Zenon
  <1>1. CASE BeginsCreate(f, x)
    BY <1>1, OtherKinds, Zenon DEF SettlesAtHome, ReservesAtHome
  <1>2. ASSUME NEW h \in HoldIds, NEW s, NEW g, Pending(h),
               x.kind = "settle", x.id = h, x.next = SettledAs(f, h, s, g),
               s \in {"APPROVED", "DENIED"} => OfThisBoot(f, h)
        PROVE  SettlesAtHome(f)' /\ ReservesAtHome(f)'
    <2>1. holds[h] \in HoldRecord
      BY <1>2, KnownRecords, Zenon DEF IInv, TypeOK, Pending, HoldStatus
    <2>2. /\ x.next.status = s /\ x.next.boot = holds[h].boot
          /\ x.next.createdAt = holds[h].createdAt
      BY <1>2, <2>1, SettledAsFields
    <2> QED BY <1>0, <1>k, <1>2, <2>2, Zenon DEF SettlesAtHome, ReservesAtHome, OfThisBoot
  <1>3. CASE BeginsSettlement(f, x)
    <2>1. PICK h \in HoldIds, s \in Settled \ {"APPROVED"} :
             Pending(h) /\ (s = "DENIED" => OfThisBoot(f, h)) /\ x = Settlement(f, h, s)
      BY <1>3, Zenon DEF BeginsSettlement
    <2>2. x.kind = "settle" /\ x.id = h /\ x.next = SettledAs(f, h, s, None)
      BY <2>1 DEF Settlement
    <2> QED BY <1>2, <2>1, <2>2, Zenon
  <1>4. CASE BeginsApproval(f, x)
    <2>1. PICK h \in HoldIds, g \in GrantIds :
             Pending(h) /\ OfThisBoot(f, h) /\ x = Approval(f, h, g)
      BY <1>4, Zenon DEF BeginsApproval
    <2>2. x.kind = "settle" /\ x.id = h /\ x.next = SettledAs(f, h, "APPROVED", g)
      BY <2>1 DEF Approval
    <2> QED BY <1>2, <2>1, <2>2, Zenon
  <1>5. CASE BeginsOnGrant(f, x)
    <2>1. x.kind # "settle" /\ (x.kind = "reserve" => Reservable(f, x.id))
      BY <1>5, OnGrantKinds, Zenon
    <2> QED BY <1>0, <2>1, Zenon
               DEF SettlesAtHome, ReservesAtHome, Reservable, Binding, Audience
  <1> QED BY <1>0, <1>1, <1>3, <1>4, <1>5, Zenon DEF Begins

\* An operation in progress names a hold or a grant that the store knows.
LEMMA NamesKnown ==
    ASSUME NEW f \in Engines, op[f] \in Operation, SettleCurrent(f), GrantCurrent(f)
    PROVE  /\ op[f].kind = "settle" => op[f].id \in HoldIds /\ holds[op[f].id] # Absent
           /\ op[f].kind = "reserve" =>
                op[f].id \in GrantIds /\ grants[op[f].id] # Absent /\ Exists(op[f].id)
  <1>1. op[f].kind = "settle" => op[f].id \in HoldIds /\ holds[op[f].id] # Absent
    BY OperationKinds, Zenon DEF SettleCurrent
  <1>2. op[f].kind = "reserve" =>
           op[f].id \in GrantIds /\ grants[op[f].id] # Absent /\ Exists(op[f].id)
    BY OperationKinds DEF GrantCurrent, Exists, Absent, GrantStatus
  <1> QED BY <1>1, <1>2, Zenon

\* The hold of a known grant is known.
LEMMA HoldOfGrant ==
    ASSUME IInv, NEW g \in GrantIds, Exists(g)
    PROVE  grants[g].hold \in HoldIds /\ holds[grants[g].hold] # Absent
  <1>1. grants[g] \in GrantRecord
    BY KnownRecords, Zenon DEF IInv, TypeOK, Exists
  <1>2. holds[grants[g].hold].status = "APPROVED"
    BY Zenon DEF IInv, GrantsMatchApprovals
  <1> QED BY <1>1, <1>2 DEF GrantRecord, Absent

\* A known hold changes only as a settlement in progress says.
LEMMA HoldSettles ==
    ASSUME IInv, [Next]_vars, NEW h \in HoldIds, holds[h] # Absent, holds'[h] # holds[h]
    PROVE  \E e \in Engines :
              op[e].kind = "settle" /\ op[e].id = h /\ holds'[h] = op[e].next
  <1>1. PICK e \in Engines : Write(e)
    BY NextStore, Zenon DEF store
  <1>2. op[e].kind = "settle" /\ op[e].id = h /\ holds'[h] = op[e].next
    BY <1>1, WriteHolds, Zenon DEF IInv
  <1> QED BY <1>2, Zenon

\* A grant is spent only as a reservation in progress says.
LEMMA GrantReserves ==
    ASSUME IInv, [Next]_vars, NEW g \in GrantIds, reserved'[g] # reserved[g]
    PROVE  \E e \in Engines : op[e].kind = "reserve" /\ op[e].id = g
  <1>0. (\E e \in Engines : Write(e)) \/ UNCHANGED <<store, history>>
    BY NextStore, Zenon
  <1>h. ASSUME UNCHANGED <<store, history>> PROVE FALSE
    BY <1>h, Zenon DEF history
  <1>1. PICK e \in Engines : Write(e)
    BY <1>0, <1>h, Zenon
  <1>2. ClaimStatus(e)
    BY <1>1, Zenon DEF Write, PutHold, SettleHold, ClaimReported, PutConsumption, PutHint,
                Corroborate, history
  <1>3. op[e].kind = "reserve" /\ op[e].id = g
    BY <1>2, Zenon DEF ClaimStatus, IInv, TypeOK
  <1> QED BY <1>3, Zenon

\* At the start no handler is at work.
LEMMA InitHome == Init => HomeInv
  BY DEF Init, HomeInv, SettlesAtHome, ReservesAtHome, Idle

-----------------------------------------------------------------------------
\* The window and the lifetimes

\* The copy of a grant with a claim differs from the grant in the claim alone.
LEMMA HintedFields ==
    ASSUME NEW g \in GrantIds, grants[g] \in GrantRecord, NEW r
    PROVE  \A f \in {"status", "hold", "expiresAt", "reservedAt", "reportedAt",
                     "consumption", "uncertainty"} : Hinted(g, r)[f] = grants[g][f]
  BY Zenon DEF Hinted, GrantRecord

\* Every step keeps the window of the uncertainties.
LEMMA NextWindow ==
    ASSUME IInv, IInv', ConstantsAssumption, WindowInv, [Next]_vars
    PROVE  WindowInv'
  <1>0. /\ TypeOK /\ OpsCurrent /\ TypeOK' /\ OpsCurrent'
        /\ now \in Nat /\ now' \in Nat /\ now' >= now /\ SweepWindow \in Nat
    BY StepClock, Zenon DEF IInv, ConstantsAssumption, TypeOK
  <1>1. ASSUME NEW r \in GrantRecord, WindowOver(r, now)
        PROVE  WindowOver(r, now')
    <2>1. r.reservedAt \in Nat \cup {None}
      BY Zenon DEF GrantRecord
    <2> QED BY <1>0, <1>1, <2>1 DEF WindowOver
  <1>2. ASSUME NEW g \in GrantIds, Exists(g)'
        PROVE  /\ WindowOver(grants'[g], now')
               /\ grants'[g].status = "UNUSED" => grants'[g].uncertainty = "null"
    <2>0. grants'[g] \in GrantRecord
      BY <1>0, <1>2, KnownRecords, Zenon DEF TypeOK, Exists
    <2>1. CASE grants'[g] = grants[g]
      BY <1>1, <1>2, <2>0, <2>1, Zenon DEF WindowInv, Exists
    <2>2. CASE grants'[g] # grants[g]
      <3>1. PICK e \in Engines : Write(e)
        BY <2>2, NextStore, Zenon DEF store
      <3> DEFINE o == op[e]
      <3>2. GrantWritten(e, g) /\ o \in Operation /\ SettleCurrent(e) /\ GrantCurrent(e)
        BY <1>0, <2>2, <3>1, WriteGrants, Zenon DEF OpsCurrent, TypeOK
      <3>3. CASE o.kind = "settle" /\ o.gid = g /\ grants'[g] = o.grant
        <4>1. o.gid # None
          BY <3>3, ConstantsAssumption, Zenon DEF ConstantsAssumption
        <4> QED BY <3>3, <4>1, Zenon DEF WindowInv, WindowOver
      <3>4. CASE /\ o.kind = "reserve" /\ grants[g].status = "UNUSED"
                 /\ grants'[g] = [grants[g] EXCEPT !.status = "RESERVED", !.reservedAt = now]
        <4>1. grants[g] \in GrantRecord /\ Exists(g)
          BY <1>0, <3>4, KnownRecords, Zenon DEF TypeOK, GrantStatus, Exists
        <4>2. grants[g].uncertainty = "null"
          BY <3>4, <4>1, Zenon DEF WindowInv
        <4> QED BY <3>4, <4>1, <4>2, Zenon DEF WindowOver, GrantRecord
      <3>5. CASE /\ o.kind = "report" /\ o.id = g
                 /\ grants'[g] = [grants[g] EXCEPT !.status = "REPORTED", !.reportedAt = "set"]
        <4>1. grants[g] \in GrantRecord /\ Exists(g)
          BY <1>0, <3>2, <3>5, KnownRecords, Zenon DEF TypeOK, GrantStatus, Exists, GrantCurrent
        <4>2. WindowOver(grants[g], now')
          BY <1>1, <4>1, Zenon DEF WindowInv
        <4> QED BY <3>5, <4>1, <4>2 DEF WindowOver, GrantRecord
      <3>6. CASE /\ Carries(o) /\ o.id = g
                 /\ \/ grants'[g] = [o.rec EXCEPT !.consumption = "signed"]
                    \/ grants'[g] = o.rec
        <4>1. o.rec \in GrantRecord /\ o.rec.status # "UNUSED"
          BY <3>2, <3>6, OperationKinds, Zenon DEF GrantCurrent, Carries
        <4>2. WindowOver(o.rec, now')
          BY <1>1, <3>6, <4>1, Zenon DEF WindowInv
        <4> QED BY <3>6, <4>1, <4>2, Zenon DEF WindowOver, GrantRecord
      <3>7. CASE /\ Carries(o) /\ Stuck(e, o.rec)
                 /\ grants'[g] = [o.rec EXCEPT !.uncertainty = "signed"]
        <4>1. o.rec \in GrantRecord
          BY <3>2, <3>7, OperationKinds, Zenon DEF Carries
        <4>2. /\ grants'[g].status = "RESERVED" /\ grants'[g].reservedAt = o.rec.reservedAt
              /\ o.rec.reservedAt \in Nat /\ now >= o.rec.reservedAt + SweepWindow
          BY <3>7, <4>1, Zenon DEF Stuck, GrantRecord
        <4>3. o.rec.reservedAt # None
          BY <3>7, Zenon DEF Stuck
        <4> QED BY <1>0, <4>2, <4>3 DEF WindowOver
      <3> QED BY <3>2, <3>3, <3>4, <3>5, <3>6, <3>7, Zenon DEF GrantWritten, Carries
    <2> QED BY <2>1, <2>2, Zenon
  <1>3. ASSUME NEW f \in Engines
        PROVE  /\ op'[f].kind = "settle" /\ op'[f].gid # None => op'[f].grant.uncertainty = "null"
               /\ Carries(op'[f]) => WindowOver(op'[f].rec, now')
    <2> DEFINE o == op[f]
               x == op'[f]
    <2>0. o \in Operation /\ x \in Operation /\ GrantCurrent(f)'
      BY <1>0, Zenon DEF TypeOK, OpsCurrent
    <2>1. CASE OpStays(f)
      BY <1>1, <2>0, <2>1, OperationKinds DEF OpStays, WindowInv, Carries, Idle
    <2>2. CASE OpBegins(f)
      <3>1. CASE BeginsCreate(f, x)
        BY <3>1 DEF BeginsCreate, Carries
      <3>2. CASE BeginsSettlement(f, x)
        BY <3>2 DEF BeginsSettlement, Settlement, Carries
      <3>3. CASE BeginsApproval(f, x)
        BY <3>3 DEF BeginsApproval, Approval, IssueGrant, Carries
      <3>4. CASE BeginsOnGrant(f, x)
        <4>1. PICK g \in GrantIds : Exists(g) /\
                \/ x.kind \in {"reserve", "report"}
                \/ x.rec = grants[g]
                \/ \E r : x.rec = Hinted(g, r)
          BY <3>4 DEF BeginsOnGrant
        <4>2. x.kind # "settle"
          BY <3>4 DEF BeginsOnGrant
        <4>3. grants[g] \in GrantRecord /\ WindowOver(grants[g], now')
          BY <1>0, <1>1, <4>1, KnownRecords, Zenon DEF TypeOK, Exists, WindowInv
        <4> QED BY <4>1, <4>2, <4>3, HintedFields DEF Carries, WindowOver
      <3> QED BY <2>2, <3>1, <3>2, <3>3, <3>4, Zenon DEF OpBegins, Begins
    <2>3. CASE OpConsumes(f)
      <3>1. x.kind = "consume" /\ x.id = o.id /\ x.rec = grants'[o.id] /\ x.id \in GrantIds
        BY <2>0, <2>3, OperationKinds DEF OpConsumes
      <3>2. Exists(o.id)'
        BY <2>0, <3>1, Zenon DEF GrantCurrent, Exists, GrantStatus
      <3> QED BY <1>2, <3>1, <3>2, Zenon
    <2>4. CASE OpCorroborates(f)
      <3>1. o.kind = "hint" /\ x.kind = "corroborate" /\ x.rec = o.rec
        BY <2>0, <2>4, Zenon DEF OpCorroborates, Operation, Idle
      <3>2. o.rec \in GrantRecord /\ WindowOver(o.rec, now)
        BY <2>0, <3>1, OperationKinds, Zenon DEF WindowInv, Carries
      <3> QED BY <1>1, <3>1, <3>2, Zenon
    <2> QED BY <2>1, <2>2, <2>3, <2>4, StepOps, Zenon
  <1> QED BY <1>2, <1>3, Zenon DEF WindowInv

\* A signed uncertainty says the grant sat reserved for the whole sweep window,
\* even when it was signed from a copy that another process has overtaken, for
\* any number of processes (corroborateUncertainty).
THEOREM UncertaintyIsEarned == Spec => []UncertaintyAfterWindow
  <1>1. Init => WindowInv
    BY DEF Init, WindowInv, Exists, Absent, GrantStatus, Idle, Carries
  <1>2. IInv /\ IInv' /\ WindowInv /\ [Next]_vars => WindowInv'
    BY NextWindow, ConstantsAssumption, Zenon
  <1>3. WindowInv => UncertaintyAfterWindow
    BY Zenon DEF WindowInv, WindowOver, UncertaintyAfterWindow
  <1> QED BY <1>1, <1>2, <1>3, Invariance, PTL DEF Spec

\* A grant ends after the present, where its lifetime is positive and the hold
\* and the roster have not ended.
LEMMA GrantEndLater ==
    ASSUME TypeOK, ConstantsAssumption, GrantTtl > 0, NEW e \in Engines, NEW h \in HoldIds,
           Pending(h), ~Overdue(h), RosterCurrent(e)
    PROVE  now < GrantEnd(e, h)
  <1>1. now < now + GrantTtl /\ now < holds[h].expiresAt /\ now < trust[e].roster.end
    <2>1. holds[h] \in HoldRecord
      BY KnownRecords, Zenon DEF TypeOK, Pending, HoldStatus
    <2>2. now \in Nat /\ GrantTtl \in Nat /\ holds[h].expiresAt \in Nat
      BY <2>1, Zenon DEF TypeOK, ConstantsAssumption, HoldRecord
    <2> QED BY <2>2 DEF Overdue, RosterCurrent
  <1> QED BY <1>1, GrantEndType, Zenon

\* What a handler begins with is in time.
LEMMA BeginsInTime ==
    ASSUME TypeOK, ConstantsAssumption, GrantTtl > 0, TimesInv, NEW e \in Engines, NEW x,
           Begins(e, x)
    PROVE  OpTimes(x, now, grants[x.id].expiresAt)
  <1>0. now \in Nat
    BY Zenon DEF TypeOK
  <1>1. CASE BeginsCreate(e, x)
    BY <1>0, <1>1 DEF BeginsCreate, NewHold, Carries, OpTimes
  <1>2. ASSUME NEW h \in HoldIds, Pending(h)
        PROVE  /\ holds[h] \in HoldRecord /\ holds[h].createdAt <= now
               /\ holds[h].createdAt \in Nat /\ holds[h].expiresAt \in Nat
    <2>1. holds[h] \in HoldRecord
      BY <1>2, KnownRecords, Zenon DEF TypeOK, Pending, HoldStatus
    <2> QED BY <2>1, KnownRecords, Zenon DEF TimesInv, OpTimes, HoldRecord
  <1>3. CASE BeginsSettlement(e, x)
    <2>1. PICK h \in HoldIds, s \in Settled \ {"APPROVED"} :
             Pending(h) /\ (s = "EXPIRED" <=> Overdue(h)) /\ x = Settlement(e, h, s)
      BY <1>3, Zenon DEF BeginsSettlement
    <2>2. x.kind = "settle" /\ x.gid = None /\ x.next = SettledAs(e, h, s, None)
      BY <2>1, Zenon DEF Settlement
    <2>3. /\ x.next.status = s /\ x.next.decidedAt = now
          /\ x.next.createdAt = holds[h].createdAt /\ x.next.expiresAt = holds[h].expiresAt
      BY <1>2, <2>1, <2>2, SettledAsFields
    <2>4. InTime(x.next) /\ x.next.createdAt <= now
      BY <1>0, <1>2, <2>1, <2>3, Zenon DEF InTime, Overdue
    <2> QED BY <2>2, <2>4, Zenon DEF Carries, OpTimes
  <1>4. CASE BeginsApproval(e, x)
    <2>1. PICK h \in HoldIds, g \in GrantIds :
             Pending(h) /\ Binding(e, h) /\ ~Overdue(h) /\ x = Approval(e, h, g)
      BY <1>4, Zenon DEF BeginsApproval
    <2>2. /\ x.kind = "settle" /\ x.next = SettledAs(e, h, "APPROVED", g)
          /\ x.grant = IssueGrant(e, h)
      BY <2>1, Zenon DEF Approval
    <2>3. /\ x.next.status = "APPROVED" /\ x.next.decidedAt = now
          /\ x.next.createdAt = holds[h].createdAt /\ x.next.expiresAt = holds[h].expiresAt
      BY <1>2, <2>1, <2>2, SettledAsFields
    <2>4. InTime(x.next) /\ x.next.createdAt <= now
      BY <1>0, <1>2, <2>1, <2>3, Zenon DEF InTime, Overdue
    <2>5. x.grant.expiresAt = GrantEnd(e, h)
      BY <2>2 DEF IssueGrant
    <2>6. GrantEnd(e, h) <= holds[h].expiresAt /\ now < GrantEnd(e, h)
      BY <2>1, GrantEndType, GrantEndLater, Zenon DEF Binding
    <2> QED BY <2>2, <2>3, <2>4, <2>5, <2>6, Zenon DEF Within, Carries, OpTimes
  <1>5. CASE BeginsOnGrant(e, x)
    <2>1. PICK g \in GrantIds : Exists(g) /\ x.kind # "create" /\ x.kind # "settle" /\
            \/ x.kind \in {"reserve", "report"}
            \/ x.id = g /\ (x.rec = grants[g] \/ \E r : x.rec = Hinted(g, r))
      BY <1>5 DEF BeginsOnGrant
    <2>2. grants[g] \in GrantRecord
      BY <2>1, KnownRecords, Zenon DEF TypeOK, Exists
    <2> QED BY <2>1, <2>2, HintedFields DEF Carries, OpTimes
  <1> QED BY <1>1, <1>3, <1>4, <1>5, Zenon DEF Begins

\* A write leaves the end of every known grant alone.
LEMMA GrantEndsStay ==
    ASSUME TypeOK, OpsCurrent, TimesInv, NEW e \in Engines, Write(e), NEW g \in GrantIds,
           Exists(g)
    PROVE  grants'[g].expiresAt = grants[g].expiresAt
  <1> DEFINE o == op[e]
  <1>0. grants[g] \in GrantRecord /\ grants[g] # Absent /\ o \in Operation
    BY KnownRecords, Zenon DEF TypeOK, Exists
  <1>1. CASE grants'[g] = grants[g]
    BY <1>1, Zenon
  <1>2. CASE GrantWritten(e, g)
    <2>1. CASE \/ grants'[g] = [grants[g] EXCEPT !.status = "RESERVED", !.reservedAt = now]
               \/ grants'[g] = [grants[g] EXCEPT !.status = "REPORTED", !.reportedAt = "set"]
      BY <1>0, <2>1, Zenon DEF GrantRecord
    <2>2. CASE /\ Carries(o) /\ o.id = g
               /\ \/ grants'[g] = o.rec
                  \/ grants'[g] = [o.rec EXCEPT !.consumption = "signed"]
                  \/ grants'[g] = [o.rec EXCEPT !.uncertainty = "signed"]
      <3>1. o.rec \in GrantRecord /\ o.rec.expiresAt = grants[g].expiresAt
        BY <1>0, <2>2, OperationKinds, Zenon DEF TimesInv, OpTimes, Carries
      <3> QED BY <2>2, <3>1, Zenon DEF GrantRecord
    <2> QED BY <1>0, <1>2, <2>1, <2>2, Zenon DEF GrantWritten, Carries
  <1> QED BY <1>1, <1>2, WriteGrants, Zenon

\* A hold that is put or settled is in time.
LEMMA HoldTimes ==
    ASSUME IInv, TypeOK', TimesInv, [Next]_vars, NEW h \in HoldIds, holds'[h] # Absent
    PROVE  holds'[h].createdAt <= now' /\ InTime(holds'[h])
  <1>0. /\ holds'[h] \in HoldRecord /\ holds'[h].createdAt \in Nat
        /\ now \in Nat /\ now' \in Nat /\ now' >= now
    BY StepClock, Zenon DEF IInv, TypeOK, HoldRecord
  <1>1. CASE holds'[h] = holds[h]
    BY <1>0, <1>1 DEF TimesInv, OpTimes
  <1>2. CASE holds'[h] # holds[h]
    <2>1. PICK e \in Engines : Write(e)
      BY <1>2, NextStore, Zenon DEF store
    <2>2. CASE op[e].kind = "create" /\ holds'[h].status = "PENDING"
      <3>1. PutHold(e)
        BY <2>1, <2>2, Zenon DEF Write, SettleHold, ClaimStatus, ClaimReported, PutConsumption,
                          PutHint, Corroborate
      <3>2. holds'[h] = op[e].rec
        BY <1>2, <3>1, Zenon DEF PutHold, IInv, TypeOK
      <3> QED BY <1>0, <2>2, <3>2 DEF TimesInv, OpTimes, InTime, Settled
    <2>3. CASE op[e].kind = "settle" /\ holds'[h] = op[e].next
      BY <1>0, <2>3 DEF TimesInv, OpTimes
    <2> QED BY <1>2, <2>1, <2>2, <2>3, WriteHolds, Zenon DEF IInv
  <1> QED BY <1>1, <1>2, Zenon

\* A new grant lies within its hold, settled by the same write.
LEMMA NewGrantWithin ==
    ASSUME IInv, TimesInv, NEW e \in Engines, Write(e), NEW g \in GrantIds,
           grants[g] = Absent, Exists(g)', ConstantsAssumption
    PROVE  Within(holds'[grants'[g].hold], grants'[g])
  <1>1. grants'[g] # grants[g]
    BY DEF Exists, Absent, GrantStatus
  <1>2. GrantWritten(e, g) /\ SettleCurrent(e) /\ GrantCurrent(e)
    BY <1>1, WriteGrants, Zenon DEF OpsCurrent, IInv
  <1>3. /\ op[e].kind = "settle" /\ op[e].gid = g /\ grants'[g] = op[e].grant
        /\ holds'[op[e].id] = op[e].next
    BY <1>2, SMTT(20) DEF GrantWritten, GrantCurrent, Exists, Absent, GrantStatus
  <1>4. op[e].gid # None
    BY <1>3, Zenon DEF ConstantsAssumption
  <1>5. op[e].grant.hold = op[e].id /\ Within(op[e].next, op[e].grant)
    BY <1>2, <1>3, <1>4, Zenon DEF SettleCurrent, TimesInv, OpTimes
  <1> QED BY <1>3, <1>5, Zenon

\* A known grant stays within its hold: neither moves any more.
LEMMA OldGrantWithin ==
    ASSUME IInv, TimesInv, NEW e \in Engines, Write(e), NEW g \in GrantIds,
           grants[g] # Absent
    PROVE  Within(holds'[grants'[g].hold], grants'[g])
  <1>0. TypeOK /\ OpsCurrent /\ GrantsMatchApprovals
    BY Zenon DEF IInv
  <1>1. grants[g] \in GrantRecord /\ Exists(g) /\ grants[g].hold \in HoldIds
    BY <1>0, KnownRecords, Zenon DEF TypeOK, Exists, GrantRecord
  <1>2. HoldsGrow(e) /\ GrantsGrow(e)
    BY <1>0, WriteGrows, Zenon
  <1>3. holds[grants[g].hold].status = "APPROVED"
    BY <1>0, <1>1, Zenon DEF GrantsMatchApprovals
  <1>4. holds'[grants[g].hold] = holds[grants[g].hold]
    BY <1>1, <1>2, <1>3 DEF HoldsGrow, Settled, Absent
  <1>5. grants'[g].hold = grants[g].hold
    BY <1>2, Zenon DEF GrantsGrow
  <1>6. grants'[g].expiresAt = grants[g].expiresAt
    BY <1>0, <1>1, GrantEndsStay, Zenon
  <1>7. Within(holds[grants[g].hold], grants[g])
    BY <1>1, Zenon DEF TimesInv, OpTimes
  <1> QED BY <1>4, <1>5, <1>6, <1>7, Zenon DEF Within

\* So every grant does.
LEMMA GrantTimes ==
    ASSUME IInv, TimesInv, [Next]_vars, ConstantsAssumption, NEW g \in GrantIds, Exists(g)'
    PROVE  Within(holds'[grants'[g].hold], grants'[g])
  <1>1. CASE UNCHANGED store
    BY <1>1, Zenon DEF store, TimesInv, OpTimes, Exists
  <1>2. ASSUME NEW e \in Engines, Write(e)
        PROVE  Within(holds'[grants'[g].hold], grants'[g])
    BY <1>2, NewGrantWithin, OldGrantWithin, Zenon
  <1> QED BY <1>1, <1>2, NextStore, Zenon

\* It stays so while it waits.
LEMMA WaitingTimes ==
    ASSUME IInv, TimesInv, [Next]_vars, now' \in Nat, NEW f \in Engines
    PROVE  OpTimes(op[f], now', grants'[op[f].id].expiresAt)
  <1> DEFINE o == op[f]
  <1>0. /\ TypeOK /\ OpsCurrent /\ o \in Operation /\ GrantCurrent(f)
    BY Zenon DEF IInv, TypeOK, OpsCurrent
  <1>1. now \in Nat /\ now' >= now /\ \A r \in HoldRecord : r.createdAt \in Nat
    BY <1>0, StepClock, Zenon DEF TypeOK, HoldRecord
  <1>2. o.kind = "create" => o.rec.createdAt <= now'
    BY <1>0, <1>1, OperationKinds DEF TimesInv, OpTimes
  <1>3. o.kind = "settle" => o.next.createdAt <= now'
    BY <1>0, <1>1, OperationKinds DEF TimesInv, OpTimes
  <1>4. o.kind = "settle" => InTime(o.next) /\ (o.gid # None => Within(o.next, o.grant))
    BY Zenon DEF TimesInv, OpTimes
  <1>5. ASSUME Carries(o) PROVE o.rec.expiresAt = grants'[o.id].expiresAt
    <2>1. o.id \in GrantIds /\ Exists(o.id)
      BY <1>0, <1>5, OperationKinds, Zenon DEF Carries, GrantCurrent, Exists, GrantStatus
    <2>2. o.rec.expiresAt = grants[o.id].expiresAt
      BY <1>5, Zenon DEF TimesInv, OpTimes
    <2>3. grants'[o.id].expiresAt = grants[o.id].expiresAt
      BY <1>0, <2>1, GrantEndsStay, NextStore, Zenon DEF store
    <2> QED BY <2>2, <2>3, Zenon
  <1> QED BY <1>2, <1>3, <1>4, <1>5, Zenon DEF OpTimes

\* Every step keeps the times.
LEMMA NextTimes ==
    ASSUME IInv, IInv', ConstantsAssumption, GrantTtl > 0, TimesInv, [Next]_vars
    PROVE  TimesInv'
  <1>0. now' \in Nat /\ TypeOK'
    BY Zenon DEF IInv, TypeOK
  <1>1. ASSUME NEW f \in Engines
        PROVE  OpTimes(op'[f], now', grants'[op'[f].id].expiresAt)
    <2>0. op[f] \in Operation /\ TypeOK /\ OpsCurrent
      BY Zenon DEF IInv, TypeOK
    <2>1. CASE op'[f] = Idle
      BY <2>1 DEF Idle, Carries, OpTimes
    <2>2. CASE op'[f] = op[f]
      BY <1>0, <2>2, WaitingTimes, Zenon
    <2>3. CASE OpBegins(f)
      <3>1. now' = now /\ grants' = grants /\ Begins(f, op'[f])
        BY <2>3, Zenon DEF OpBegins, store
      <3> QED BY <2>0, <3>1, BeginsInTime, Zenon
    <2>4. CASE OpConsumes(f)
      BY <2>4 DEF OpConsumes, Carries, OpTimes
    <2>5. CASE OpCorroborates(f)
      <3>1. op'[f].kind = "corroborate" /\ op'[f].rec = op[f].rec /\ op'[f].id = op[f].id
        BY <2>0, <2>5 DEF OpCorroborates, Operation, Idle
      <3> QED BY <2>5, <3>1, Zenon DEF OpCorroborates, OpTimes
    <2> QED BY <2>0, <2>1, <2>2, <2>3, <2>4, <2>5, StepOps, Zenon DEF OpStays
  <1>2. \A h \in HoldIds : holds'[h] # Absent =>
           holds'[h].createdAt <= now' /\ InTime(holds'[h])
    BY <1>0, HoldTimes, Zenon
  <1>3. \A g \in GrantIds : Exists(g)' => Within(holds'[grants'[g].hold], grants'[g])
    BY GrantTimes, Zenon
  <1> QED BY <1>1, <1>2, <1>3, Zenon DEF TimesInv, OpTimes

\* With a positive grant lifetime, a hold is decided before its end or expired
\* from its end on, and a grant opens before it ends and ends with its hold at the
\* latest, whichever process wrote it and however late (decide, settleExpiry).
THEOREM AuthorityEndsWithHold == GrantTtl > 0 => (Spec => []AuthorityWithinHold)
  <1> SUFFICES ASSUME GrantTtl > 0 PROVE Spec => []AuthorityWithinHold
    BY Zenon
  <1>1. Init => TimesInv
    BY DEF Init, TimesInv, OpTimes, Exists, Absent, GrantStatus, Idle, Carries
  <1>2. IInv /\ IInv' /\ TimesInv /\ [Next]_vars => TimesInv'
    BY NextTimes, ConstantsAssumption, Zenon
  <1>3. IInv /\ TimesInv => AuthorityWithinHold
    <2> SUFFICES ASSUME IInv, TimesInv PROVE AuthorityWithinHold
      BY Zenon
    <2>1. \A h \in HoldIds : holds[h].status \in Settled => holds[h] # Absent
      BY DEF Settled, Absent
    <2> QED BY <2>1, Zenon DEF TimesInv, OpTimes, AuthorityWithinHold, InTime, Within
  <1> QED BY <1>1, <1>2, <1>3, Invariance, PTL DEF Spec

-----------------------------------------------------------------------------
\* Place

\* A known hold keeps its boot and its creation.
LEMMA HoldsStayHome ==
    ASSUME IInv, HomeInv, [Next]_vars, NEW h \in HoldIds, holds[h] # Absent
    PROVE  holds'[h].boot = holds[h].boot /\ holds'[h].createdAt = holds[h].createdAt
  <1>1. CASE holds'[h] = holds[h]
    BY <1>1, Zenon
  <1>2. CASE holds'[h] # holds[h]
    <2>1. PICK e \in Engines :
             op[e].kind = "settle" /\ op[e].id = h /\ holds'[h] = op[e].next
      BY <1>2, HoldSettles, Zenon
    <2> QED BY <2>1, Zenon DEF HomeInv, SettlesAtHome
  <1> QED BY <1>1, <1>2, Zenon

\* A known grant keeps its hold, and that hold its root.
LEMMA GrantsStayHome ==
    ASSUME IInv, [Next]_vars, NEW g \in GrantIds, Exists(g), grants[g] # Absent
    PROVE  /\ grants'[g].hold = grants[g].hold
           /\ holds'[grants[g].hold].root = holds[grants[g].hold].root
  <1>1. grants[g].hold \in HoldIds /\ holds[grants[g].hold] # Absent
    BY HoldOfGrant, Zenon
  <1>2. CASE UNCHANGED store
    BY <1>2, Zenon DEF store
  <1>3. ASSUME NEW e \in Engines, Write(e)
        PROVE  /\ grants'[g].hold = grants[g].hold
               /\ holds'[grants[g].hold].root = holds[grants[g].hold].root
    <2>1. HoldsGrow(e) /\ GrantsGrow(e)
      BY <1>3, WriteGrows, Zenon DEF IInv
    <2> QED BY <1>1, <2>1, Zenon DEF HoldsGrow, GrantsGrow
  <1> QED BY <1>2, <1>3, NextStore, Zenon

\* A process that is at work keeps its trust.
LEMMA TrustStays ==
    ASSUME TypeOK, [Next]_vars, NEW f \in Engines, op'[f] = op[f], op[f] # Idle
    PROVE  trust'[f] = trust[f]
  <1>1. ASSUME NEW e \in Engines, NEW t, Restart(e, t) PROVE trust'[f] = trust[f]
    BY <1>1, Zenon DEF Restart, TypeOK
  <1>2. ASSUME NEW e \in Engines, Request(e) \/ Sweep(e) PROVE trust' = trust
    BY <1>2, RequestBegins, Zenon DEF Begin
  <1>3. ASSUME NEW e \in Engines, Write(e) \/ SignerFails(e) PROVE trust' = trust
    BY <1>3, Zenon DEF Write, PutHold, SettleHold, ClaimStatus, ClaimReported, PutConsumption,
                       PutHint, Corroborate, SignerFails, Finish
  <1> QED BY <1>1, <1>2, <1>3, Zenon DEF Next, Tick, vars

\* An operation in progress stays at home while it waits.
LEMMA WaitingHome ==
    ASSUME IInv, HomeInv, [Next]_vars, NEW f \in Engines, op'[f] = op[f], op[f] # Idle
    PROVE  SettlesAtHome(f)' /\ ReservesAtHome(f)'
  <1> DEFINE o == op[f]
  <1>0. TypeOK /\ o \in Operation /\ SettleCurrent(f) /\ GrantCurrent(f)
    BY Zenon DEF IInv, TypeOK, OpsCurrent
  <1>1. trust'[f] = trust[f]
    BY <1>0, TrustStays, Zenon
  <1>2. ASSUME o.kind = "settle"
        PROVE  /\ o.next.boot = holds'[o.id].boot
               /\ o.next.createdAt = holds'[o.id].createdAt
               /\ o.next.status \in {"APPROVED", "DENIED"} =>
                    holds'[o.id].boot = trust[f].boot /\ holds'[o.id].createdAt >= trust[f].start
    <2>1. o.id \in HoldIds /\ holds[o.id] # Absent
      BY <1>0, <1>2, NamesKnown, Zenon
    <2>2. holds'[o.id].boot = holds[o.id].boot /\ holds'[o.id].createdAt = holds[o.id].createdAt
      BY <2>1, HoldsStayHome, Zenon
    <2> QED BY <1>2, <2>2, Zenon DEF HomeInv, SettlesAtHome, OfThisBoot
  <1>3. ASSUME o.kind = "reserve"
        PROVE  holds'[grants'[o.id].hold].root = trust[f].root
    <2>1. o.id \in GrantIds /\ grants[o.id] # Absent /\ Exists(o.id)
      BY <1>0, <1>3, NamesKnown, Zenon
    <2>2. /\ grants'[o.id].hold = grants[o.id].hold
          /\ holds'[grants[o.id].hold].root = holds[grants[o.id].hold].root
      BY <2>1, GrantsStayHome, Zenon
    <2> QED BY <1>3, <2>2, Zenon DEF HomeInv, ReservesAtHome, Audience
  <1> QED BY <1>1, <1>2, <1>3, Zenon
             DEF SettlesAtHome, ReservesAtHome, OfThisBoot, Audience

\* Every step leaves the handlers with holds of their own boot and root.
LEMMA NextHome ==
    ASSUME IInv, IInv', HomeInv, [Next]_vars
    PROVE  HomeInv'
  <1> SUFFICES ASSUME NEW f \in Engines
               PROVE  SettlesAtHome(f)' /\ ReservesAtHome(f)'
    BY Zenon DEF HomeInv
  <1>0. op[f] \in Operation
    BY Zenon DEF IInv, TypeOK
  <1>1. CASE op'[f] = Idle
    BY <1>1, IdleKind, Zenon DEF SettlesAtHome, ReservesAtHome
  <1>2. CASE op'[f] = op[f] /\ op'[f] # Idle
    BY <1>2, WaitingHome, Zenon
  <1>3. CASE OpBegins(f)
    BY <1>0, <1>3, BeginsHome, Zenon
  <1>4. CASE OpConsumes(f) \/ OpCorroborates(f)
    BY <1>0, <1>4, OtherKinds, Zenon DEF SettlesAtHome, ReservesAtHome
  <1> QED BY <1>1, <1>2, <1>3, <1>4, StepOps, Zenon DEF OpStays, IInv

\* A hold is approved or denied only through a process whose boot froze it, and an
\* approval is spent only through the trust root that asked for it, across any
\* restarts of any number of processes (decide, frozenBeforeBoot, reserve,
\* envelopeBindingRefusal).
THEOREM DecidedAtHome == Spec => DecidedAndSpentAtHome
  <1> DEFINE Home ==
        /\ \A h \in HoldIds :
              Pending(h) /\ holds'[h].status \in {"APPROVED", "DENIED"} =>
                \E e \in Engines :
                    /\ op[e].kind = "settle" /\ op[e].id = h
                    /\ holds[h].boot = trust[e].boot
                    /\ holds[h].createdAt >= trust[e].start
        /\ \A g \in GrantIds : reserved'[g] # reserved[g] =>
              \E e \in Engines :
                  op[e].kind = "reserve" /\ op[e].id = g /\ Audience(e, grants[g].hold)
  <1>1. Init => HomeInv
    BY InitHome, Zenon
  <1>2. IInv /\ IInv' /\ HomeInv /\ [Next]_vars => HomeInv'
    BY NextHome, Zenon
  <1>3. IInv /\ HomeInv /\ [Next]_vars => [Home]_vars
    <2> SUFFICES ASSUME IInv, HomeInv, [Next]_vars PROVE Home
      BY Zenon
    <2>1. ASSUME NEW h \in HoldIds, Pending(h), holds'[h].status \in {"APPROVED", "DENIED"}
          PROVE  \E e \in Engines :
                    /\ op[e].kind = "settle" /\ op[e].id = h
                    /\ holds[h].boot = trust[e].boot
                    /\ holds[h].createdAt >= trust[e].start
      <3>1. holds'[h] # holds[h] /\ holds[h] # Absent
        BY <2>1 DEF Pending, Absent
      <3>2. PICK e \in Engines :
               op[e].kind = "settle" /\ op[e].id = h /\ holds'[h] = op[e].next
        BY <3>1, HoldSettles, Zenon
      <3> QED BY <2>1, <3>2, Zenon DEF HomeInv, SettlesAtHome, OfThisBoot
    <2>2. ASSUME NEW g \in GrantIds, reserved'[g] # reserved[g]
          PROVE  \E e \in Engines :
                    op[e].kind = "reserve" /\ op[e].id = g /\ Audience(e, grants[g].hold)
      BY <2>2, GrantReserves, Zenon DEF HomeInv, ReservesAtHome
    <2> QED BY <2>1, <2>2, Zenon
  <1> QED BY <1>1, <1>2, <1>3, Invariance, PTL DEF Spec, DecidedAndSpentAtHome

-----------------------------------------------------------------------------
\* One process

\* The shipped configuration: one gate process over its store.
OneProcess == \A e, f \in Engines : e = f

\* With one process, a handler that goes on finds the store as it left it.
LEMMA SoloOps ==
    ASSUME OneProcess, IInv, [Next]_vars, NEW f \in Engines
    PROVE  \/ op'[f] = Idle
           \/ op'[f] = op[f] /\ UNCHANGED store
           \/ OpBegins(f) \/ OpConsumes(f) \/ OpCorroborates(f)
  <1>0. TypeOK /\ op[f] \in Operation
    BY Zenon DEF IInv, TypeOK
  <1>1. CASE UNCHANGED store
    BY <1>1, StepOps, Zenon DEF OpStays
  <1>2. ASSUME NEW e \in Engines, Write(e), op'[f] = op[f]
        PROVE  op'[f] = Idle
    <2>1. Write(f)
      BY <1>2, Zenon DEF OneProcess
    <2>2. CASE op' = [op EXCEPT ![f] = Idle]
      BY <1>0, <2>2, Zenon DEF TypeOK
    <2>3. CASE op[f].kind = "report" /\ op' = [op EXCEPT ![f] =
                   [kind |-> "consume", id |-> op[f].id,
                    rec |-> [grants[op[f].id] EXCEPT !.status = "REPORTED", !.reportedAt = "set"]]]
      <3>1. op'[f].kind = "consume"
        BY <1>0, <2>3, Zenon DEF TypeOK
      <3> QED BY <1>2, <2>3, <3>1, Zenon
    <2>4. CASE op[f].kind = "hint" /\ op' = [op EXCEPT ![f] = [op[f] EXCEPT !.kind = "corroborate"]]
      <3>1. op'[f] = [op[f] EXCEPT !.kind = "corroborate"]
        BY <1>0, <2>4, Zenon DEF TypeOK
      <3>2. op'[f].kind = "corroborate"
        BY <1>0, <2>4, <3>1, Zenon DEF Operation, Idle
      <3> QED BY <1>2, <2>4, <3>2, Zenon
    <2> QED BY <2>1, <2>2, <2>3, <2>4, Zenon
            DEF Write, PutHold, SettleHold, ClaimStatus, ClaimReported, PutConsumption, PutHint,
                Corroborate, Finish
  <1> QED BY <1>1, <1>2, StepOps, NextStore, Zenon DEF OpStays

\* What a carried copy of a grant is to the stored one.
CopyOf(o, s) ==
    /\ o.kind \in {"consume", "corroborate"} => o.rec = s
    /\ o.kind = "hint" =>
          /\ s.reportedAt = "null"
          /\ \/ o.rec = s
             \/ /\ s.claimedResult = "null"
                /\ o.rec = [s EXCEPT !.claimedResult = "FAILED_BEFORE_DISPATCH"]

\* Inductive for ReportedIsFinal and EvidenceIsKept: no copy is stale, and a grant
\* that is reported is REPORTED.
CopiesInv ==
    /\ \A g \in GrantIds : grants[g].status = "UNUSED" => grants[g].reportedAt = "null"
    /\ \A e \in Engines :
          /\ Carries(op[e]) => CopyOf(op[e], grants[op[e].id])
          /\ op[e].kind = "settle" /\ op[e].gid # None => op[e].grant.reportedAt = "null"

\* A handler begins with a copy of the grant as it is stored, and a new grant is
\* not reported.
LEMMA BeginsCopy ==
    ASSUME NEW f \in Engines, NEW x, Begins(f, x), TypeOK
    PROVE  /\ Carries(x) => CopyOf(x, grants[x.id])
           /\ x.kind = "settle" /\ x.gid # None => x.grant.reportedAt = "null"
  <1>1. CASE BeginsCreate(f, x)
    <2>1. x.kind = "create"
      BY <1>1 DEF BeginsCreate
    <2> QED BY <2>1, Zenon DEF Carries
  <1>2. CASE BeginsSettlement(f, x)
    <2>1. x.kind = "settle" /\ x.gid = None
      BY <1>2 DEF BeginsSettlement, Settlement
    <2> QED BY <2>1, Zenon DEF Carries
  <1>3. CASE BeginsApproval(f, x)
    <2>1. x.kind = "settle" /\ x.grant.reportedAt = "null"
      BY <1>3 DEF BeginsApproval, Approval, IssueGrant
    <2> QED BY <2>1, Zenon DEF Carries
  <1>4. CASE BeginsOnGrant(f, x)
    <2>1. PICK g \in GrantIds :
              \/ x.kind \in {"reserve", "report"}
              \/ /\ Reportable(f, g)
                 /\ \E r \in {"FAILED_BEFORE_DISPATCH", "UNKNOWN"} :
                       x = [kind |-> "hint", id |-> g, rec |-> Hinted(g, r)]
              \/ x = [kind |-> "corroborate", id |-> g, rec |-> grants[g]]
      BY <1>4 DEF BeginsOnGrant
    <2>2. CASE x.kind \in {"reserve", "report"}
      BY <2>2, Zenon DEF Carries
    <2>3. ASSUME Reportable(f, g), NEW r \in {"FAILED_BEFORE_DISPATCH", "UNKNOWN"},
                 x = [kind |-> "hint", id |-> g, rec |-> Hinted(g, r)]
          PROVE  x.kind = "hint" /\ CopyOf(x, grants[x.id])
      <3>1. x.kind = "hint" /\ x.id = g /\ x.rec = Hinted(g, r)
        BY <2>3, Zenon
      <3>2. grants[g].reportedAt = "null"
        BY <2>3, Zenon DEF Reportable
      <3>3. CASE r = "FAILED_BEFORE_DISPATCH" /\ grants[g].claimedResult = "null"
        BY <3>1, <3>2, <3>3, Zenon DEF CopyOf, Hinted
      <3>4. CASE ~(r = "FAILED_BEFORE_DISPATCH" /\ grants[g].claimedResult = "null")
        <4>1. Hinted(g, r) = grants[g]
          BY <3>4, Zenon DEF Hinted
        <4> QED BY <3>1, <3>2, <4>1, Zenon DEF CopyOf
      <3> QED BY <3>3, <3>4, Zenon
    <2>4. CASE x = [kind |-> "corroborate", id |-> g, rec |-> grants[g]]
      BY <2>4, Zenon DEF CopyOf
    <2> QED BY <2>1, <2>2, <2>3, <2>4, Zenon
  <1> QED BY <1>1, <1>2, <1>3, <1>4, Zenon DEF Begins

\* What a write does to a grant when no copy is stale.
Progresses(r, s) ==
    \/ s = r
    \/ r.status = "UNUSED" /\ r.reportedAt = "null"
         /\ s = [r EXCEPT !.status = "RESERVED", !.reservedAt = now]
    \/ r.reportedAt = "null" /\ s = [r EXCEPT !.status = "REPORTED", !.reportedAt = "set"]
    \/ s = [r EXCEPT !.consumption = "signed"]
    \/ r.reportedAt = "null" /\ r.claimedResult = "null"
         /\ s = [r EXCEPT !.claimedResult = "FAILED_BEFORE_DISPATCH"]
    \/ r.reportedAt = "null" /\ r.uncertainty = "null" /\ r.status = "RESERVED"
         /\ s = [r EXCEPT !.uncertainty = "signed"]

\* With no stale copy, a write moves a stored grant one step on.
LEMMA GrantsProgress ==
    ASSUME IInv, CopiesInv, [Next]_vars, NEW g \in GrantIds, Exists(g)
    PROVE  Progresses(grants[g], grants'[g])
  <1>0. TypeOK /\ OpsCurrent /\ grants[g] \in GrantRecord /\ grants[g] # Absent
    BY KnownRecords, Zenon DEF IInv, TypeOK, Exists
  <1>1. CASE grants'[g] = grants[g]
    BY <1>1, Zenon DEF Progresses
  <1>2. CASE grants'[g] # grants[g]
    <2>1. PICK e \in Engines : Write(e)
      BY <1>2, NextStore, Zenon DEF store
    <2>2. GrantWritten(e, g)
      BY <1>0, <1>2, <2>1, WriteGrants, Zenon
    <2>3. CASE op[e].kind = "reserve" /\ grants[g].status = "UNUSED"
               /\ grants'[g] = [grants[g] EXCEPT !.status = "RESERVED", !.reservedAt = now]
      BY <2>3, Zenon DEF CopiesInv, Progresses
    <2>4. CASE grants[g].reportedAt = "null"
               /\ grants'[g] = [grants[g] EXCEPT !.status = "REPORTED", !.reportedAt = "set"]
      BY <2>4, Zenon DEF Progresses
    <2>5. CASE op[e].kind = "consume" /\ op[e].id = g
               /\ grants'[g] = [op[e].rec EXCEPT !.consumption = "signed"]
      <3>1. op[e].rec = grants[g]
        BY <2>5, Zenon DEF CopiesInv, Carries, CopyOf
      <3> QED BY <2>5, <3>1, Zenon DEF Progresses
    <2>6. CASE op[e].kind = "hint" /\ op[e].id = g /\ grants'[g] = op[e].rec
      <3>1. CopyOf(op[e], grants[g])
        BY <2>6, Zenon DEF CopiesInv, Carries
      <3> QED BY <2>6, <3>1, Zenon DEF CopyOf, Progresses
    <2>7. CASE /\ op[e].kind = "corroborate" /\ op[e].id = g /\ Stuck(e, op[e].rec)
               /\ op[e].rec.uncertainty = "null"
               /\ grants'[g] = [op[e].rec EXCEPT !.uncertainty = "signed"]
      <3>1. op[e].rec = grants[g]
        BY <2>7, Zenon DEF CopiesInv, Carries, CopyOf
      <3> QED BY <2>7, <3>1, Zenon DEF Progresses, Stuck
    <2> QED BY <1>0, <2>2, <2>3, <2>4, <2>5, <2>6, <2>7, Zenon DEF GrantWritten
  <1> QED BY <1>1, <1>2, Zenon

\* With one process, no copy ever becomes stale.
LEMMA NextCopies ==
    ASSUME OneProcess, IInv, IInv', CopiesInv, [Next]_vars
    PROVE  CopiesInv'
  <1>0. TypeOK /\ TypeOK' /\ OpsCurrent
    BY Zenon DEF IInv
  <1>1. ASSUME NEW g \in GrantIds, grants'[g].status = "UNUSED"
        PROVE  grants'[g].reportedAt = "null"
    <2>1. CASE Exists(g)
      <3>1. Progresses(grants[g], grants'[g]) /\ grants[g] \in GrantRecord
        BY <1>0, <2>1, GrantsProgress, KnownRecords, Zenon DEF TypeOK, Exists
      <3>2. grants[g].status = "UNUSED" => grants[g].reportedAt = "null"
        BY Zenon DEF CopiesInv
      <3> QED BY <1>1, <3>1, <3>2, Zenon DEF Progresses, GrantRecord
    <2>2. CASE ~Exists(g)
      <3>1. grants'[g] # grants[g]
        BY <1>1, <2>2, Zenon DEF Exists, GrantStatus
      <3>2. PICK e \in Engines : Write(e)
        BY <3>1, NextStore, Zenon DEF store
      <3>3. GrantWritten(e, g) /\ GrantCurrent(e) /\ op[e] \in Operation
        BY <1>0, <3>1, <3>2, WriteGrants, Zenon DEF OpsCurrent, TypeOK
      <3>4. op[e].kind = "settle" /\ op[e].gid = g /\ grants'[g] = op[e].grant
        BY <2>2, <3>3, SMTT(20) DEF GrantWritten, GrantCurrent, Exists, GrantStatus
      <3>5. op[e].gid # None
        BY <3>4, ConstantsAssumption, Zenon DEF ConstantsAssumption
      <3> QED BY <3>4, <3>5, Zenon DEF CopiesInv
    <2> QED BY <2>1, <2>2, Zenon
  <1>2. ASSUME NEW f \in Engines
        PROVE  /\ Carries(op'[f]) => CopyOf(op'[f], grants'[op'[f].id])
               /\ op'[f].kind = "settle" /\ op'[f].gid # None => op'[f].grant.reportedAt = "null"
    <2>0. op[f] \in Operation
      BY <1>0, Zenon DEF TypeOK
    <2>1. CASE op'[f] = Idle
      BY <2>1 DEF Idle, Carries
    <2>2. CASE op'[f] = op[f] /\ UNCHANGED store
      BY <2>2, Zenon DEF CopiesInv, store
    <2>3. CASE OpBegins(f)
      <3>1. Begins(f, op'[f]) /\ grants' = grants
        BY <2>3, Zenon DEF OpBegins, store
      <3> QED BY <1>0, <3>1, BeginsCopy, Zenon
    <2>4. CASE OpConsumes(f)
      BY <2>4 DEF OpConsumes, CopyOf
    <2>5. CASE OpCorroborates(f)
      <3>1. op'[f].kind = "corroborate" /\ op'[f].rec = op[f].rec /\ op'[f].id = op[f].id
        BY <2>0, <2>5 DEF OpCorroborates, Operation, Idle
      <3>2. op'[f].rec = grants'[op'[f].id]
        BY <2>5, <3>1, Zenon DEF OpCorroborates
      <3> QED BY <3>1, <3>2, Zenon DEF CopyOf
    <2> QED BY <2>1, <2>2, <2>3, <2>4, <2>5, SoloOps, Zenon
  <1> QED BY <1>1, <1>2, Zenon DEF CopiesInv

\* The gate of one process has no stale copy in any state.
LEMMA SoloCopies == OneProcess => (Spec => []CopiesInv)
  <1> SUFFICES ASSUME OneProcess PROVE Spec => []CopiesInv
    BY Zenon
  <1>1. Init => CopiesInv
    BY DEF Init, CopiesInv, Absent, Idle, Carries
  <1>2. IInv /\ IInv' /\ CopiesInv /\ [Next]_vars => CopiesInv'
    BY NextCopies, Zenon
  <1> QED BY <1>1, <1>2, Invariance, PTL DEF Spec

\* In a gate of one process, a reported grant only ever gains its consumption: the
\* terminal report lock is never reopened, across any requests, sweeps, failing
\* signatures and restarts (report, claimGrantReported, corroborateUncertainty).
THEOREM ReportIsTerminal == OneProcess => (Spec => ReportedIsFinal)
  <1> SUFFICES ASSUME OneProcess PROVE Spec => ReportedIsFinal
    BY Zenon
  <1> DEFINE Final ==
        \A g \in GrantIds : Exists(g) /\ grants[g].reportedAt = "set" =>
          grants'[g] \in {grants[g], [grants[g] EXCEPT !.consumption = "signed"]}
  <1>1. IInv /\ CopiesInv /\ [Next]_vars => [Final]_vars
    <2> SUFFICES ASSUME IInv, CopiesInv, [Next]_vars,
                        NEW g \in GrantIds, Exists(g), grants[g].reportedAt = "set"
                 PROVE  grants'[g] \in {grants[g], [grants[g] EXCEPT !.consumption = "signed"]}
      BY Zenon
    <2> QED BY GrantsProgress, Zenon DEF Progresses
  <1> QED BY <1>1, SoloCopies, Invariance, PTL DEF Spec, ReportedIsFinal

\* In a gate of one process, a recorded claim, a signed uncertainty and a signed
\* consumption are never taken off a grant's record (report,
\* corroborateUncertainty).
THEOREM EvidenceStays == OneProcess => (Spec => EvidenceIsKept)
  <1> SUFFICES ASSUME OneProcess PROVE Spec => EvidenceIsKept
    BY Zenon
  <1> DEFINE Kept ==
        \A g \in GrantIds : Exists(g) =>
          \A f \in {"claimedResult", "uncertainty", "consumption"} :
              grants[g][f] # "null" => grants'[g][f] = grants[g][f]
  <1>1. IInv /\ CopiesInv /\ [Next]_vars => [Kept]_vars
    <2> SUFFICES ASSUME IInv, CopiesInv, [Next]_vars, NEW g \in GrantIds, Exists(g)
                 PROVE  /\ grants[g].claimedResult # "null" =>
                              grants'[g].claimedResult = grants[g].claimedResult
                        /\ grants[g].uncertainty # "null" =>
                              grants'[g].uncertainty = grants[g].uncertainty
                        /\ grants[g].consumption # "null" =>
                              grants'[g].consumption = grants[g].consumption
      BY Zenon
    <2>1. Progresses(grants[g], grants'[g]) /\ grants[g] \in GrantRecord
      BY GrantsProgress, KnownRecords, Zenon DEF IInv, TypeOK, Exists
    <2> QED BY <2>1, Zenon DEF Progresses, GrantRecord
  <1> QED BY <1>1, SoloCopies, Invariance, PTL DEF Spec, EvidenceIsKept

-----------------------------------------------------------------------------
\* The holds of one process

\* A stored hold is found by its key, and is on the chain its request named.
Indexed(h) ==
    /\ byIdem[holds[h].agent][holds[h].key] = h
    /\ holds[h].sent # Omitted => holds[h].chain = holds[h].sent

\* r can be stored as a new hold.
Creatable(r) ==
    /\ byIdem[r.agent][r.key] = None
    /\ ~hasPendingOnChain(r.agent, r.chain)
    /\ Cardinality(PendingOf(r.agent)) < MaxPending
    /\ r.sent # Omitted => r.chain = r.sent

\* What the count of an agent's holds needs to know of finite sets; FiniteSetFacts
\* proves it.
FiniteFacts ==
    /\ IsFiniteSet({}) /\ Cardinality({}) = 0
    /\ \A S : IsFiniteSet(S) =>
          /\ Cardinality(S) \in Nat
          /\ \A x : x \notin S =>
                IsFiniteSet(S \cup {x}) /\ Cardinality(S \cup {x}) = Cardinality(S) + 1
          /\ \A T \in SUBSET S : IsFiniteSet(T) /\ Cardinality(T) <= Cardinality(S)

\* r is of the same request as s.
SameRequest(r, s) ==
    r.agent = s.agent /\ r.key = s.key /\ r.sent = s.sent /\ r.chain = s.chain

\* Inductive for PendingHoldsLimited and NamedRetryFindsHold: what createHold
\* checked is still true when it stores the hold.
SoloInv ==
    /\ \A h \in HoldIds : holds[h] # Absent => Indexed(h)
    /\ \A a \in Agents : IsFiniteSet(PendingOf(a))
    /\ PendingHoldsLimited
    /\ \A e \in Engines :
          /\ op[e].kind = "create" => Creatable(op[e].rec)
          /\ op[e].kind = "settle" => SameRequest(op[e].next, holds[op[e].id])

\* What createHold and the settling handlers begin with.
LEMMA BeginsSolo ==
    ASSUME NEW f \in Engines, NEW x, Begins(f, x), TypeOK, ConstantsAssumption, FiniteFacts,
           \A a \in Agents : IsFiniteSet(PendingOf(a))
    PROVE  /\ x.kind = "create" => Creatable(x.rec)
           /\ x.kind = "settle" => SameRequest(x.next, holds[x.id])
  <1>1. CASE BeginsCreate(f, x)
    <2>1. PICK a \in Agents, k \in Keys, b \in Bodies, c \in Chains \cup {Omitted},
               ttl \in Ttls, h \in HoldIds :
              /\ CreateAnswer(f, a, k, b, c, h) = "CREATED"
              /\ x = [kind |-> "create", id |-> h, rec |-> NewHold(f, a, k, b, c, ttl, h)]
      BY <1>1, Zenon DEF BeginsCreate
    <2>2. /\ byIdem[a][k] = None /\ ~hasPendingOnChain(a, ChainOf(h, c))
          /\ ~(Cardinality(PendingOf(a)) >= MaxPending)
      BY <2>1, Zenon DEF CreateAnswer
    <2>3. Cardinality(PendingOf(a)) < MaxPending
      <3>1. Cardinality(PendingOf(a)) \in Nat /\ MaxPending \in Nat
        BY Zenon DEF FiniteFacts, ConstantsAssumption
      <3> QED BY <2>2, <3>1
    <2>4. /\ x.kind = "create" /\ x.rec.agent = a /\ x.rec.key = k /\ x.rec.sent = c
          /\ x.rec.chain = ChainOf(h, c)
      BY <2>1, Zenon DEF NewHold
    <2>5. c # Omitted => ChainOf(h, c) = c
      BY Zenon DEF ChainOf
    <2> QED BY <2>2, <2>3, <2>4, <2>5, Zenon DEF Creatable
  <1>2. ASSUME NEW h \in HoldIds, NEW s, NEW g, Pending(h),
               x.kind = "settle", x.id = h, x.next = SettledAs(f, h, s, g)
        PROVE  x.kind # "create" /\ SameRequest(x.next, holds[x.id])
    <2>1. holds[h] \in HoldRecord
      BY <1>2, KnownRecords, Zenon DEF TypeOK, Pending, HoldStatus
    <2> QED BY <1>2, <2>1, SettledAsFields DEF SameRequest
  <1>3. CASE BeginsSettlement(f, x)
    <2>1. PICK h \in HoldIds, s \in Settled \ {"APPROVED"} : Pending(h) /\ x = Settlement(f, h, s)
      BY <1>3, Zenon DEF BeginsSettlement
    <2>2. x.kind = "settle" /\ x.id = h /\ x.next = SettledAs(f, h, s, None)
      BY <2>1, Zenon DEF Settlement
    <2> QED BY <1>2, <2>1, <2>2, Zenon
  <1>4. CASE BeginsApproval(f, x)
    <2>1. PICK h \in HoldIds, g \in GrantIds : Pending(h) /\ x = Approval(f, h, g)
      BY <1>4, Zenon DEF BeginsApproval
    <2>2. x.kind = "settle" /\ x.id = h /\ x.next = SettledAs(f, h, "APPROVED", g)
      BY <2>1, Zenon DEF Approval
    <2> QED BY <1>2, <2>1, <2>2, Zenon
  <1>5. CASE BeginsOnGrant(f, x)
    <2>1. x.kind \in {"reserve", "report", "hint", "corroborate"}
      BY <1>5 DEF BeginsOnGrant
    <2> QED BY <2>1, Zenon
  <1> QED BY <1>1, <1>3, <1>4, <1>5, Zenon DEF Begins

\* With a new hold in the store, the others are still found by agent and key.
LEMMA IndexPut ==
    ASSUME TypeOK, ConstantsAssumption, \A h \in HoldIds : holds[h] # Absent => Indexed(h),
           NEW i \in HoldIds, NEW r, Creatable(r), holds'[i] = r,
           \A h \in HoldIds \ {i} : holds'[h] = holds[h],
           byIdem'[r.agent][r.key] = i,
           \A a \in Agents, k \in Keys :
              a # r.agent \/ k # r.key => byIdem'[a][k] = byIdem[a][k],
           NEW h \in HoldIds, holds'[h] # Absent
    PROVE  Indexed(h)'
  <1>1. CASE h = i
    BY <1>1, Zenon DEF Indexed, Creatable
  <1>2. CASE h # i
    <2>1. holds'[h] = holds[h] /\ holds[h] # Absent
      BY <1>2, Zenon
    <2>2. holds[h] \in HoldRecord /\ Indexed(h)
      BY <2>1, Zenon DEF TypeOK
    <2>3. holds[h].agent \in Agents /\ holds[h].key \in Keys
      BY <2>2, Zenon DEF HoldRecord
    <2>4. byIdem[r.agent][r.key] # h
      BY Zenon DEF Creatable, ConstantsAssumption
    <2>5. byIdem'[holds[h].agent][holds[h].key] = h
      BY <2>2, <2>3, <2>4, Zenon DEF Indexed
    <2> QED BY <2>1, <2>2, <2>5, Zenon DEF Indexed
  <1> QED BY <1>1, <1>2, Zenon

\* Its agent has one hold more to decide, and nobody else has.
LEMMA PendingPut ==
    ASSUME NEW i \in HoldIds, NEW r, holds[i] = Absent, r.status = "PENDING", holds'[i] = r,
           \A h \in HoldIds \ {i} : holds'[h] = holds[h], NEW a \in Agents
    PROVE  /\ i \notin PendingOf(a)
           /\ \A h \in PendingOf(a) : holds'[h] = holds[h]
           /\ PendingOf(a)' = IF a = r.agent THEN PendingOf(a) \cup {i} ELSE PendingOf(a)
  <1>1. i \notin PendingOf(a) /\ PendingOf(a) \subseteq HoldIds /\ PendingOf(a)' \subseteq HoldIds
    BY DEF PendingOf, Pending, Absent
  <1>2. ASSUME NEW h \in HoldIds
        PROVE  h \in PendingOf(a)' <=> h \in PendingOf(a) \/ (h = i /\ a = r.agent)
    <2>1. h = i => holds'[h] = r /\ holds[h].status # "PENDING"
      BY DEF Absent
    <2> QED BY <2>1, Zenon DEF PendingOf, Pending
  <1> QED BY <1>1, <1>2, Zenon

\* No two holds that the agent still waits for are on one chain.
OnePerChain(a) == \A g, h \in PendingOf(a) : holds[g].chain = holds[h].chain => g = h

\* The step leaves the holds that the agent waits for as they are.
WaitsOn(a) == \A h \in PendingOf(a) : holds'[h] = holds[h]

\* One more is allowed: the agent was below its limit, and had no hold to decide
\* on this chain.
LEMMA LimitPut ==
    ASSUME ConstantsAssumption, FiniteFacts, NEW i, NEW r, Creatable(r), holds'[i] = r,
           NEW a, a = r.agent, PendingOf(a)' = PendingOf(a) \cup {i}, i \notin PendingOf(a),
           IsFiniteSet(PendingOf(a)), WaitsOn(a), OnePerChain(a)
    PROVE  /\ IsFiniteSet(PendingOf(a))' /\ Cardinality(PendingOf(a))' <= MaxPending
           /\ OnePerChain(a)'
  <1> DEFINE P == PendingOf(a)
  <1>1. IsFiniteSet(P \cup {i}) /\ Cardinality(P \cup {i}) = Cardinality(P) + 1
    BY Zenon DEF FiniteFacts
  <1>2. Cardinality(P) \in Nat /\ MaxPending \in Nat
    BY Zenon DEF FiniteFacts, ConstantsAssumption
  <1>3. Cardinality(P) + 1 <= MaxPending
    BY <1>2 DEF Creatable
  <1>4. \A h \in P : holds[h].chain # r.chain
    BY Zenon DEF Creatable, hasPendingOnChain
  <1>5. \A g, h \in P \cup {i} : holds'[g].chain = holds'[h].chain => g = h
    BY <1>4 DEF OnePerChain, WaitsOn
  <1> QED BY <1>1, <1>3, <1>5, Zenon DEF OnePerChain

\* Storing a new hold that can be created.
LEMMA PutHoldSolo ==
    ASSUME IInv, SoloInv, ConstantsAssumption, FiniteFacts, NEW e \in Engines, PutHold(e)
    PROVE  /\ \A h \in HoldIds : holds'[h] # Absent => Indexed(h)'
           /\ \A a \in Agents : IsFiniteSet(PendingOf(a))'
           /\ PendingHoldsLimited'
  <1> DEFINE i == op[e].id
             r == op[e].rec
  <1>0. TypeOK /\ op[e] \in Operation /\ op[e].kind = "create" /\ CreateCurrent(e)
    BY Zenon DEF IInv, TypeOK, OpsCurrent, PutHold
  <1>1. /\ i \in HoldIds /\ r \in HoldRecord /\ holds[i] = Absent /\ r.status = "PENDING"
        /\ r.agent \in Agents /\ r.key \in Keys /\ Creatable(r)
    BY <1>0, OperationKinds, Zenon DEF CreateCurrent, HoldRecord, SoloInv
  <1>2. /\ holds' = [holds EXCEPT ![i] = r]
        /\ byIdem' = [byIdem EXCEPT ![r.agent][r.key] = i]
    BY Zenon DEF PutHold
  <1> HIDE DEF i, r
  <1>3. holds'[i] = r /\ \A h \in HoldIds \ {i} : holds'[h] = holds[h]
    BY <1>0, <1>1, <1>2, Zenon DEF TypeOK
  <1>4. /\ byIdem'[r.agent][r.key] = i
        /\ \A a \in Agents, k \in Keys : a # r.agent \/ k # r.key => byIdem'[a][k] = byIdem[a][k]
    BY <1>0, <1>1, <1>2, Zenon DEF TypeOK
  <1>5. \A h \in HoldIds : holds[h] # Absent => Indexed(h)
    BY Zenon DEF SoloInv
  <1>6. ASSUME NEW h \in HoldIds, holds'[h] # Absent
        PROVE  Indexed(h)'
    BY <1>0, <1>1, <1>3, <1>4, <1>5, <1>6, IndexPut
  <1>7. ASSUME NEW a \in Agents
        PROVE  /\ IsFiniteSet(PendingOf(a))' /\ Cardinality(PendingOf(a))' <= MaxPending
               /\ OnePerChain(a)'
    <2>0. /\ IsFiniteSet(PendingOf(a)) /\ Cardinality(PendingOf(a)) <= MaxPending
          /\ OnePerChain(a)
      BY Zenon DEF SoloInv, PendingHoldsLimited, OnePerChain
    <2>1. /\ i \notin PendingOf(a) /\ WaitsOn(a)
          /\ PendingOf(a)' = IF a = r.agent THEN PendingOf(a) \cup {i} ELSE PendingOf(a)
      BY <1>1, <1>3, PendingPut DEF WaitsOn
    <2>2. CASE a # r.agent
      BY <2>0, <2>1, <2>2, Zenon DEF OnePerChain, WaitsOn
    <2>3. CASE a = r.agent
      <3>1. PendingOf(a)' = PendingOf(a) \cup {i} /\ Creatable(r) /\ holds'[i] = r
        BY <1>1, <1>3, <2>1, <2>3, Zenon
      <3> QED BY <2>0, <2>1, <2>3, <3>1, LimitPut, Zenon
    <2> QED BY <2>2, <2>3, Zenon
  <1> QED BY <1>6, <1>7, Zenon DEF PendingHoldsLimited, OnePerChain

\* A settled hold is found as before, and the others are.
LEMMA IndexSettle ==
    ASSUME TypeOK, \A h \in HoldIds : holds[h] # Absent => Indexed(h),
           \A a \in Agents, k \in Keys : byIdem'[a][k] = byIdem[a][k],
           NEW h \in HoldIds, holds[h] # Absent, SameRequest(holds'[h], holds[h])
    PROVE  Indexed(h)'
  <1>1. holds[h] \in HoldRecord /\ Indexed(h)
    BY Zenon DEF TypeOK
  <1>2. holds[h].agent \in Agents /\ holds[h].key \in Keys
    BY <1>1, Zenon DEF HoldRecord
  <1>3. byIdem'[holds[h].agent][holds[h].key] = h
    BY <1>1, <1>2, Zenon DEF Indexed
  <1> QED BY <1>1, <1>3, Zenon DEF Indexed, SameRequest

\* Fewer holds to decide stay within the limit.
LEMMA LimitSettle ==
    ASSUME ConstantsAssumption, FiniteFacts, NEW P, NEW Q, Q \in SUBSET P, IsFiniteSet(P),
           Cardinality(P) <= MaxPending
    PROVE  IsFiniteSet(Q) /\ Cardinality(Q) <= MaxPending
  <1>1. IsFiniteSet(Q) /\ Cardinality(Q) <= Cardinality(P)
    BY Zenon DEF FiniteFacts
  <1>2. Cardinality(P) \in Nat /\ Cardinality(Q) \in Nat /\ MaxPending \in Nat
    BY <1>1, Zenon DEF FiniteFacts, ConstantsAssumption
  <1> QED BY <1>1, <1>2

\* Settling a hold of the same request.
LEMMA SettleHoldSolo ==
    ASSUME IInv, SoloInv, ConstantsAssumption, FiniteFacts, NEW e \in Engines,
           SettleHold(e), SettleWins(op[e].id)
    PROVE  /\ \A h \in HoldIds : holds'[h] # Absent => Indexed(h)'
           /\ \A a \in Agents : IsFiniteSet(PendingOf(a))'
           /\ PendingHoldsLimited'
  <1> DEFINE i == op[e].id
             r == op[e].next
  <1>0. TypeOK /\ op[e] \in Operation /\ op[e].kind = "settle" /\ SettleCurrent(e)
    BY Zenon DEF IInv, TypeOK, OpsCurrent, SettleHold
  <1>1. /\ i \in HoldIds /\ r \in HoldRecord /\ holds[i] # Absent /\ r.status # "PENDING"
        /\ SameRequest(r, holds[i]) /\ Indexed(i)
    BY <1>0, OperationKinds, Zenon DEF SettleCurrent, SoloInv, Settled
  <1>2. /\ holds' = [holds EXCEPT ![i] = r]
        /\ byIdem' = [byIdem EXCEPT ![r.agent][r.key] = i]
    BY Zenon DEF SettleHold
  <1> HIDE DEF i, r
  <1>3. holds'[i] = r /\ \A h \in HoldIds \ {i} : holds'[h] = holds[h]
    BY <1>0, <1>1, <1>2, Zenon DEF TypeOK
  <1>4. \A a \in Agents, k \in Keys : byIdem'[a][k] = byIdem[a][k]
    <2>1. byIdem[r.agent][r.key] = i /\ r.agent \in Agents /\ r.key \in Keys
      BY <1>1, Zenon DEF Indexed, SameRequest, HoldRecord
    <2> QED BY <1>0, <1>2, <2>1, Zenon DEF TypeOK
  <1>5. \A h \in HoldIds : holds[h] # Absent => Indexed(h)
    BY Zenon DEF SoloInv
  <1>6. ASSUME NEW h \in HoldIds, holds'[h] # Absent
        PROVE  Indexed(h)'
    <2>1. holds[h] # Absent /\ SameRequest(holds'[h], holds[h])
      BY <1>1, <1>3, <1>6, Zenon DEF SameRequest
    <2> QED BY <1>0, <1>4, <1>5, <2>1, IndexSettle, Zenon
  <1>7. ASSUME NEW a \in Agents
        PROVE  /\ IsFiniteSet(PendingOf(a))'
               /\ Cardinality(PendingOf(a))' <= MaxPending
               /\ \A g, h \in PendingOf(a)' : holds'[g].chain = holds'[h].chain => g = h
    <2>0. IsFiniteSet(PendingOf(a)) /\ Cardinality(PendingOf(a)) <= MaxPending
      BY Zenon DEF SoloInv, PendingHoldsLimited
    <2>1. \A g, h \in PendingOf(a) : holds[g].chain = holds[h].chain => g = h
      BY Zenon DEF SoloInv, PendingHoldsLimited
    <2>2. \A h \in PendingOf(a)' : h \in PendingOf(a) /\ holds'[h] = holds[h]
      BY <1>1, <1>3, Zenon DEF PendingOf, Pending
    <2>3. PendingOf(a)' \in SUBSET PendingOf(a)
      BY <2>2, Zenon
    <2>4. IsFiniteSet(PendingOf(a)') /\ Cardinality(PendingOf(a)') <= MaxPending
      BY <2>0, <2>3, LimitSettle, Zenon
    <2> QED BY <2>1, <2>2, <2>4, Zenon
  <1> QED BY <1>6, <1>7, Zenon DEF PendingHoldsLimited

\* With one process, nothing comes between what createHold checks and what it
\* stores.
LEMMA NextSolo ==
    ASSUME OneProcess, ConstantsAssumption, FiniteFacts, IInv, SoloInv, [Next]_vars
    PROVE  SoloInv'
  <1>0. TypeOK
    BY Zenon DEF IInv
  <1>1. /\ \A h \in HoldIds : holds'[h] # Absent => Indexed(h)'
        /\ \A a \in Agents : IsFiniteSet(PendingOf(a))'
        /\ PendingHoldsLimited'
    <2>1. CASE UNCHANGED <<holds, byIdem>>
      <3>1. PendingHoldsLimited'
        BY <2>1 DEF SoloInv, PendingHoldsLimited, PendingOf, Pending
      <3>2. \A a \in Agents : IsFiniteSet(PendingOf(a))'
        BY <2>1, Zenon DEF SoloInv, PendingOf, Pending
      <3> QED BY <2>1, <3>1, <3>2, Zenon DEF SoloInv, Indexed
    <2>2. ASSUME NEW e \in Engines, Write(e)
          PROVE  \/ PutHold(e)
                 \/ SettleHold(e) /\ SettleWins(op[e].id)
                 \/ UNCHANGED <<holds, byIdem>>
      BY <2>2, Zenon DEF Write, SettleHold, ClaimStatus, ClaimReported, PutConsumption, PutHint,
                         Corroborate, store
    <2> QED BY <2>1, <2>2, NextStore, PutHoldSolo, SettleHoldSolo, Zenon DEF store
  <1>2. ASSUME NEW f \in Engines
        PROVE  /\ op'[f].kind = "create" => Creatable(op[f].rec)'
               /\ op'[f].kind = "settle" => SameRequest(op'[f].next, holds'[op'[f].id])
    <2>1. CASE op'[f] = Idle
      BY <2>1 DEF Idle
    <2>2. CASE op'[f] = op[f] /\ UNCHANGED store
      <3>1. op[f].kind = "create" => Creatable(op[f].rec)
        BY Zenon DEF SoloInv
      <3>2. op[f].kind = "settle" => SameRequest(op[f].next, holds[op[f].id])
        BY Zenon DEF SoloInv
      <3> QED BY <2>2, <3>1, <3>2, Zenon DEF Creatable, hasPendingOnChain, PendingOf, Pending, store
    <2>3. CASE OpBegins(f)
      <3>1. Begins(f, op'[f]) /\ holds' = holds /\ byIdem' = byIdem
        BY <2>3, Zenon DEF OpBegins, store
      <3>2. /\ op'[f].kind = "create" => Creatable(op'[f].rec)
            /\ op'[f].kind = "settle" => SameRequest(op'[f].next, holds[op'[f].id])
        BY <1>0, <3>1, BeginsSolo, Zenon DEF SoloInv
      <3> QED BY <3>1, <3>2, Zenon DEF Creatable, hasPendingOnChain, PendingOf, Pending
    <2>4. CASE OpConsumes(f)
      BY <2>4 DEF OpConsumes
    <2>5. CASE OpCorroborates(f)
      <3>1. op'[f].kind = "corroborate"
        BY <1>0, <2>5 DEF OpCorroborates, TypeOK, Operation, Idle
      <3> QED BY <3>1, Zenon
    <2> QED BY <2>1, <2>2, <2>3, <2>4, <2>5, SoloOps, Zenon
  <1> QED BY <1>1, <1>2, Zenon DEF SoloInv

INSTANCE FiniteSetTheorems

\* Finite sets are as the count of an agent's holds needs them.
LEMMA FiniteSetFacts == FiniteFacts
  BY FS_EmptySet, FS_CardinalityType, FS_AddElement, FS_Subset, Zenon DEF FiniteFacts

\* The gate of one process keeps its holds in order.
LEMMA SoloHolds == OneProcess => (Spec => []SoloInv)
  <1> SUFFICES ASSUME OneProcess PROVE Spec => []SoloInv
    BY Zenon
  <1>1. Init => SoloInv
    <2> SUFFICES ASSUME Init PROVE SoloInv
      BY Zenon
    <2>1. \A a \in Agents : PendingOf(a) = {}
      BY Zenon DEF Init, PendingOf, Pending, Absent
    <2>2. 0 <= MaxPending
      BY ConstantsAssumption DEF ConstantsAssumption
    <2>3. \A a \in Agents : IsFiniteSet(PendingOf(a)) /\ Cardinality(PendingOf(a)) <= MaxPending
      BY <2>1, <2>2, FiniteSetFacts, Zenon DEF FiniteFacts
    <2> QED BY <2>1, <2>3, Zenon DEF Init, SoloInv, PendingHoldsLimited, Idle
  <1>2. IInv /\ SoloInv /\ [Next]_vars => SoloInv'
    BY NextSolo, ConstantsAssumption, FiniteSetFacts, Zenon
  <1> QED BY <1>1, <1>2, Invariance, PTL DEF Spec

\* In a gate of one process, an agent has at most one unresolved hold on a chain
\* and at most maxPendingPerAgent in all, however many it creates, settles and
\* retries (createHold, hasPendingOnChain).
THEOREM PendingStaysLimited == OneProcess => (Spec => []PendingHoldsLimited)
  <1>1. SoloInv => PendingHoldsLimited
    BY Zenon DEF SoloInv
  <1> QED BY <1>1, SoloHolds, PTL

\* In a gate of one process, a request that names its chain can be sent again at
\* any later time: createHold answers it with its hold or refuses it for the
\* roster's sake, and never takes it for a new one or for a conflict (createHold,
\* getHoldByIdem).
THEOREM RetryIsIdempotent == OneProcess => (Spec => []NamedRetryFindsHold)
  <1>1. IInv /\ SoloInv => NamedRetryFindsHold
    <2> SUFFICES ASSUME IInv, SoloInv, NEW h \in HoldIds, holds[h] # Absent,
                        holds[h].sent # Omitted
                 PROVE  RetryAnswers(h) \cap RetryRefused = {}
      BY Zenon DEF NamedRetryFindsHold
    <2>1. Indexed(h)
      BY Zenon DEF SoloInv
    <2>2. h # None
      BY ConstantsAssumption, Zenon DEF ConstantsAssumption
    <2>3. ASSUME NEW e \in Engines, NEW f \in HoldIds
          PROVE  CreateAnswer(e, holds[h].agent, holds[h].key, holds[h].body, holds[h].sent, f)
                    \notin RetryRefused
      <3>1. ChainOf(f, holds[h].sent) = holds[h].chain
        BY <2>1, Zenon DEF ChainOf, Indexed
      <3> QED BY <2>1, <2>2, <3>1, Zenon DEF CreateAnswer, Indexed, RetryRefused
    <2>4. \A x \in RetryAnswers(h) : x \notin RetryRefused
      BY <2>3 DEF RetryAnswers
    <2> QED BY <2>4, Zenon
  <1> QED BY <1>1, SoloHolds, Invariance, PTL
=============================================================================
