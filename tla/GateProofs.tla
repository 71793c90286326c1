----------------------------- MODULE GateProofs -----------------------------
(***************************************************************************)
(* The safety theorems about Gate, for any number of processes, holds,     *)
(* grants and restarts and any length of time.                             *)
(*                                                                         *)
(* TypeOK is not inductive alone, nor is any of the safety invariants: a   *)
(* write takes what its process read several steps ago.  The writes keep   *)
(* them because what a handler carries, from its first step to its writes, *)
(* stays true of the store however the processes interleave (OpsCurrent).  *)
(***************************************************************************)
EXTENDS Gate, TLAPS

-----------------------------------------------------------------------------
\* Records

\* What an operation in progress carries, by its kind.
LEMMA OperationKinds ==
    ASSUME NEW o \in Operation
    PROVE  /\ o.kind = "create" => o.id \in HoldIds /\ o.rec \in HoldRecord
           /\ o.kind = "settle" =>
                /\ o.id \in HoldIds
                /\ o.next \in HoldRecord
                /\ o.gid \in GrantIds \cup {None}
                /\ o.grant \in GrantRecord \cup {Absent}
           /\ o.kind \in {"reserve", "report"} => o.id \in GrantIds
           /\ o.kind \in {"hint", "corroborate", "consume"} =>
                o.id \in GrantIds /\ o.rec \in GrantRecord
  BY DEF Operation, Idle

\* An unknown record has none of the statuses of a known one.
LEMMA KnownRecords ==
    /\ \A r \in HoldRecord \cup {Absent} : r.status \in HoldStatus => r \in HoldRecord
    /\ \A r \in GrantRecord \cup {Absent} : r.status \in GrantStatus => r \in GrantRecord
    /\ \A r \in HoldRecord : r.status \in HoldStatus /\ r # Absent
    /\ \A r \in GrantRecord : r.status \in GrantStatus /\ r # Absent
  <1>1. \A r \in HoldRecord : r.status \in HoldStatus
    BY Zenon DEF HoldRecord
  <1>2. \A r \in GrantRecord : r.status \in GrantStatus
    BY Zenon DEF GrantRecord
  <1>3. Absent.status \notin HoldStatus /\ Absent.status \notin GrantStatus
    BY Zenon DEF Absent, HoldStatus, Settled, GrantStatus
  <1> QED BY <1>1, <1>2, <1>3, Zenon

\* The settled copy of a hold is a hold record.
LEMMA SettledAsType ==
    ASSUME TypeOK, NEW e \in Engines, NEW h \in HoldIds, Pending(h),
           NEW s \in Settled, NEW g \in GrantIds \cup {None}
    PROVE  SettledAs(e, h, s, g) \in HoldRecord
  <1>1. holds[h] \in HoldRecord
    BY KnownRecords, Zenon DEF TypeOK, Pending, HoldStatus
  <1>2. trust[e].root \in Roots /\ now \in Nat
    BY Zenon DEF TypeOK, Trust
  <1> QED BY <1>1, <1>2, Zenon DEF SettledAs, HoldRecord, HoldStatus

\* What a process hands to settleHold without a grant is an operation.
LEMMA SettlementType ==
    ASSUME TypeOK, NEW e \in Engines, NEW h \in HoldIds, Pending(h),
           NEW s \in Settled
    PROVE  Settlement(e, h, s) \in Operation
  BY SettledAsType, Zenon DEF Settlement, Operation

\* The minimum of the three ends is one of them.
LEMMA GrantEndType ==
    ASSUME TypeOK, ConstantsAssumption, NEW e \in Engines, NEW h \in HoldIds, Pending(h)
    PROVE  /\ GrantEnd(e, h) \in Nat
           /\ GrantEnd(e, h) <= holds[h].expiresAt
           /\ GrantEnd(e, h) \in {now + GrantTtl, holds[h].expiresAt, trust[e].roster.end}
  <1> DEFINE ends == {now + GrantTtl, holds[h].expiresAt, trust[e].roster.end}
  <1>1. holds[h] \in HoldRecord
    BY KnownRecords, Zenon DEF TypeOK, Pending, HoldStatus
  <1>2. now + GrantTtl \in Nat /\ holds[h].expiresAt \in Nat
    BY <1>1 DEF TypeOK, ConstantsAssumption, HoldRecord
  <1>3. trust[e].roster.end \in Nat
    BY DEF TypeOK, ConstantsAssumption, Trust
  <1>4. \E t \in ends : \A u \in ends : t <= u
    BY <1>2, <1>3
  <1>5. GrantEnd(e, h) \in ends /\ \A u \in ends : GrantEnd(e, h) <= u
    BY <1>4, Zenon DEF GrantEnd
  <1> QED BY <1>2, <1>3, <1>5, Zenon

\* What a process hands to settleHold for an approval is an operation.
LEMMA ApprovalType ==
    ASSUME TypeOK, ConstantsAssumption, NEW e \in Engines, NEW h \in HoldIds,
           Pending(h), NEW g \in GrantIds
    PROVE  Approval(e, h, g) \in Operation /\ IssueGrant(e, h) \in GrantRecord
  <1>1. SettledAs(e, h, "APPROVED", g) \in HoldRecord
    BY SettledAsType, Zenon DEF Settled
  <1>2. IssueGrant(e, h) \in GrantRecord
    BY GrantEndType, Zenon DEF IssueGrant, GrantRecord, GrantStatus
  <1> QED BY <1>1, <1>2, Zenon DEF Approval, Operation

-----------------------------------------------------------------------------
\* Type correctness

\* A step that begins a well-typed operation keeps the types.
LEMMA BeginType ==
    ASSUME TypeOK, NEW e \in Engines, NEW o \in Operation, Begin(e, o)
    PROVE  TypeOK'
  BY Zenon DEF TypeOK, Begin, store, history

\* A step that leaves the store, the history and the clock alone, and finishes
\* an operation, keeps the types.
LEMMA FinishType ==
    ASSUME TypeOK, NEW e \in Engines, Finish(e)
    PROVE  /\ now' \in Nat
           /\ restarts' \in Nat
           /\ trust' \in [Engines -> Trust]
           /\ op' \in [Engines -> Operation]
  BY Zenon DEF TypeOK, Finish, Operation

\* Requests and sweeps begin well-typed operations.
LEMMA RequestType ==
    ASSUME TypeOK, ConstantsAssumption, NEW e \in Engines, Request(e) \/ Sweep(e)
    PROVE  TypeOK'
  <1>1. ASSUME NEW a \in Agents, NEW k \in Keys, NEW b \in Bodies,
               NEW c \in Chains \cup {Omitted}, NEW ttl \in Ttls, NEW h \in HoldIds,
               CreateHold(e, a, k, b, c, ttl, h)
        PROVE  TypeOK'
    <2>1. trust[e] \in Trust /\ now \in Nat /\ now + ttl \in Nat
      BY DEF TypeOK, ConstantsAssumption
    <2>2. ChainOf(h, c) \in Chains \cup HoldIds
      BY Zenon DEF ChainOf
    <2>3. NewHold(e, a, k, b, c, ttl, h) \in HoldRecord
      BY <2>1, <2>2, Zenon DEF NewHold, HoldRecord, HoldStatus, Trust
    <2>4. [kind |-> "create", id |-> h, rec |-> NewHold(e, a, k, b, c, ttl, h)]
            \in Operation
      BY <2>3, Zenon DEF Operation
    <2> QED BY <1>1, <2>4, BeginType, Zenon DEF CreateHold
  <1>2. ASSUME NEW h \in HoldIds, NEW v \in {"APPROVE", "DENY"}, NEW g \in GrantIds,
               DecideHold(e, h, v, g)
        PROVE  TypeOK'
    <2>1. Pending(h)
      BY <1>2, Zenon DEF DecideHold
    <2>2. Settlement(e, h, "EXPIRED") \in Operation /\ Settlement(e, h, "DENIED") \in Operation
      BY <2>1, SettlementType, Zenon DEF Settled
    <2>3. Approval(e, h, g) \in Operation
      BY <2>1, ApprovalType, Zenon
    <2> QED BY <1>2, <2>2, <2>3, BeginType, Zenon DEF DecideHold
  <1>3. ASSUME NEW a \in Agents, NEW h \in HoldIds, CancelHold(e, a, h)
        PROVE  TypeOK'
    <2>1. Pending(h)
      BY <1>3, Zenon DEF CancelHold
    <2>2. /\ Settlement(e, h, "EXPIRED") \in Operation
          /\ Settlement(e, h, "CANCELLED_LOCAL_STATE_LOST") \in Operation
      BY <2>1, SettlementType, Zenon DEF Settled
    <2> QED BY <1>3, <2>2, BeginType, Zenon DEF CancelHold
  <1>4. ASSUME NEW h \in HoldIds, ExpireHold(e, h)
        PROVE  TypeOK'
    <2>1. Settlement(e, h, "EXPIRED") \in Operation
      BY <1>4, SettlementType, Zenon DEF Settled, ExpireHold
    <2> QED BY <1>4, <2>1, BeginType, Zenon DEF ExpireHold
  <1>5. ASSUME NEW a \in Agents, NEW g \in GrantIds,
               ReserveGrant(e, a, g) \/ ReportDispatched(e, a, g)
        PROVE  TypeOK'
    <2>1. /\ [kind |-> "reserve", id |-> g] \in Operation
          /\ [kind |-> "report", id |-> g] \in Operation
      BY Zenon DEF Operation
    <2> QED BY <1>5, <2>1, BeginType, Zenon DEF ReserveGrant, ReportDispatched
  <1>6. ASSUME NEW a \in Agents, NEW g \in GrantIds,
               NEW r \in {"FAILED_BEFORE_DISPATCH", "UNKNOWN"}, ReportHint(e, a, g, r)
        PROVE  TypeOK'
    <2>1. grants[g] \in GrantRecord
      BY <1>6, KnownRecords, Zenon DEF TypeOK, ReportHint, Exists
    <2>2. Hinted(g, r) \in GrantRecord
      BY <2>1, Zenon DEF Hinted, GrantRecord
    <2>3. [kind |-> "hint", id |-> g, rec |-> Hinted(g, r)] \in Operation
      BY <2>2, Zenon DEF Operation
    <2> QED BY <1>6, <2>3, BeginType, Zenon DEF ReportHint
  <1>7. ASSUME NEW g \in GrantIds, SweepGrant(e, g)
        PROVE  TypeOK'
    <2>1. grants[g] \in GrantRecord
      BY <1>7, KnownRecords, Zenon DEF TypeOK, SweepGrant, Exists
    <2>2. [kind |-> "corroborate", id |-> g, rec |-> grants[g]] \in Operation
      BY <2>1, Zenon DEF Operation
    <2> QED BY <1>7, <2>2, BeginType, Zenon DEF SweepGrant
  <1> QED BY <1>1, <1>2, <1>3, <1>4, <1>5, <1>6, <1>7, Zenon DEF Request, Sweep

\* The writes keep the types.  A handler that lost the race to settle shows the
\* hold it reads again, which is typed only because the hold is known.
LEMMA WriteType ==
    ASSUME TypeOK, OpsCurrent, NEW e \in Engines, Write(e)
    PROVE  TypeOK'
  <1> DEFINE o == op[e]
  <1>0. o \in Operation /\ CreateCurrent(e) /\ SettleCurrent(e) /\ GrantCurrent(e)
    BY Zenon DEF TypeOK, OpsCurrent
  <1>1. CASE PutHold(e)
    <2>1. o.id \in HoldIds /\ o.rec \in HoldRecord
      BY <1>0, <1>1, OperationKinds, Zenon DEF PutHold
    <2>2. o.rec.agent \in Agents /\ o.rec.key \in Keys
      BY <2>1, Zenon DEF HoldRecord
    <2>3. holds' \in [HoldIds -> HoldRecord \cup {Absent}]
      BY <1>1, <2>1, Zenon DEF PutHold, TypeOK
    <2>4. byIdem' \in [Agents -> [Keys -> HoldIds \cup {None}]]
      BY <1>1, <2>1, <2>2, Zenon DEF PutHold, TypeOK
    <2> QED BY <1>1, <2>3, <2>4, FinishType, Zenon DEF PutHold, TypeOK, history
  <1>2. CASE SettleHold(e)
    <2>1. /\ o.id \in HoldIds /\ o.next \in HoldRecord /\ o.gid \in GrantIds \cup {None}
          /\ o.grant \in GrantRecord \cup {Absent}
      BY <1>0, <1>2, OperationKinds, Zenon DEF SettleHold
    <2>2. o.next.agent \in Agents /\ o.next.key \in Keys
          /\ o.next.grant \in GrantIds \cup {None} /\ o.next.status \in Settled
      BY <1>0, <1>2, <2>1, Zenon DEF HoldRecord, SettleCurrent, SettleHold
    <2>3. CASE SettleWins(o.id)
      <3>1. holds' \in [HoldIds -> HoldRecord \cup {Absent}]
        BY <1>2, <2>1, <2>3, Zenon DEF SettleHold, TypeOK
      <3>2. byIdem' \in [Agents -> [Keys -> HoldIds \cup {None}]]
        BY <1>2, <2>1, <2>2, <2>3 DEF SettleHold, TypeOK
      <3>3. grants' \in [GrantIds -> GrantRecord \cup {Absent}]
        BY <1>2, <2>1, <2>3, Zenon DEF SettleHold, TypeOK
      <3>4. shown' \subseteq [hold : HoldIds, status : Settled, grant : GrantIds \cup {None}]
        BY <1>2, <2>1, <2>2, <2>3 DEF SettleHold, TypeOK, View
      <3> QED BY <1>2, <3>1, <3>2, <3>3, <3>4, FinishType, Zenon DEF SettleHold, TypeOK
    <2>4. CASE ~SettleWins(o.id)
      <3>1. holds[o.id] \in HoldRecord
        BY <1>0, <1>2, <2>1, Zenon DEF SettleHold, SettleCurrent, TypeOK
      <3>2. holds[o.id].status \in Settled /\ holds[o.id].grant \in GrantIds \cup {None}
        BY <3>1, <2>4, Zenon DEF SettleWins, HoldRecord, HoldStatus
      <3>3. shown' \subseteq [hold : HoldIds, status : Settled, grant : GrantIds \cup {None}]
        BY <1>2, <2>1, <2>4, <3>2 DEF SettleHold, TypeOK, View
      <3> QED BY <1>2, <2>4, <3>3, FinishType, Zenon DEF SettleHold, TypeOK, store
    <2> QED BY <2>3, <2>4, Zenon
  <1>3. CASE ClaimStatus(e)
    <2>1. o.id \in GrantIds /\ now \in Nat
      BY <1>0, <1>3, OperationKinds, Zenon DEF ClaimStatus, TypeOK
    <2>2. CASE ClaimStatusWins(o.id)
      <3>1. grants[o.id] \in GrantRecord
        BY <2>1, <2>2, KnownRecords, Zenon DEF ClaimStatusWins, GrantStatus, TypeOK
      <3>2. [grants[o.id] EXCEPT !.status = "RESERVED", !.reservedAt = now] \in GrantRecord
        BY <2>1, <3>1, Zenon DEF GrantRecord, GrantStatus
      <3>3. grants' = [grants EXCEPT ![o.id] =
                          [grants[o.id] EXCEPT !.status = "RESERVED", !.reservedAt = now]]
        BY <1>3, <2>1, <2>2, <3>1, Zenon DEF ClaimStatus, TypeOK, GrantRecord
      <3>4. grants' \in [GrantIds -> GrantRecord \cup {Absent}]
        BY <2>1, <3>2, <3>3, Zenon DEF TypeOK
      <3>5. reserved' \in [GrantIds -> Nat]
        BY <1>3, <2>1, <2>2 DEF ClaimStatus, TypeOK
      <3> QED BY <1>3, <3>4, <3>5, FinishType, Zenon DEF ClaimStatus, TypeOK
    <2>3. CASE ~ClaimStatusWins(o.id)
      BY <1>3, <2>3, FinishType, Zenon DEF ClaimStatus, TypeOK
    <2> QED BY <2>2, <2>3, Zenon
  <1>4. CASE ClaimReported(e)
    <2> DEFINE won == [grants[o.id] EXCEPT !.status = "REPORTED", !.reportedAt = "set"]
    <2>1. o.id \in GrantIds
      BY <1>0, <1>4, OperationKinds, Zenon DEF ClaimReported
    <2>2. CASE ClaimReportedWins(o.id)
      <3>1. grants[o.id] \in GrantRecord
        BY <2>1, <2>2, KnownRecords, Zenon DEF ClaimReportedWins, Exists, TypeOK
      <3>2. won \in GrantRecord
        BY <3>1, Zenon DEF GrantRecord, GrantStatus
      <3>3. [kind |-> "consume", id |-> o.id, rec |-> won] \in Operation
        BY <2>1, <3>2, Zenon DEF Operation
      <3>4. grants' \in [GrantIds -> GrantRecord \cup {Absent}]
        BY <1>4, <2>1, <2>2, <3>2, Zenon DEF ClaimReported, TypeOK
      <3>5. op' \in [Engines -> Operation]
        BY <1>4, <2>2, <3>3, Zenon DEF ClaimReported, TypeOK
      <3> QED BY <1>4, <3>4, <3>5, Zenon DEF ClaimReported, TypeOK
    <2>3. CASE ~ClaimReportedWins(o.id)
      <3>1. op' \in [Engines -> Operation]
        BY <1>4, <2>3 DEF ClaimReported, TypeOK, Operation
      <3> QED BY <1>4, <2>3, <3>1, Zenon DEF ClaimReported, TypeOK
    <2> QED BY <2>2, <2>3, Zenon
  <1>5. CASE PutConsumption(e)
    <2>1. o.id \in GrantIds /\ o.rec \in GrantRecord
      BY <1>0, <1>5, OperationKinds, Zenon DEF PutConsumption
    <2>2. [o.rec EXCEPT !.consumption = "signed"] \in GrantRecord
      BY <2>1, Zenon DEF GrantRecord
    <2>3. grants' \in [GrantIds -> GrantRecord \cup {Absent}]
      BY <1>5, <2>1, <2>2, Zenon DEF PutConsumption, TypeOK
    <2> QED BY <1>5, <2>3, FinishType, Zenon DEF PutConsumption, TypeOK, history
  <1>6. CASE PutHint(e)
    <2>1. o.id \in GrantIds /\ o.rec \in GrantRecord
      BY <1>0, <1>6, OperationKinds, Zenon DEF PutHint
    <2>2. [o EXCEPT !.kind = "corroborate"] \in Operation
      BY <1>0, <1>6 DEF PutHint, Operation, Idle
    <2>3. grants' \in [GrantIds -> GrantRecord \cup {Absent}]
      BY <1>6, <2>1, Zenon DEF PutHint, TypeOK
    <2>4. op' \in [Engines -> Operation]
      BY <1>6, <2>2, Zenon DEF PutHint, TypeOK
    <2> QED BY <1>6, <2>3, <2>4, Zenon DEF PutHint, TypeOK, history
  <1>7. CASE Corroborate(e)
    <2>1. o.id \in GrantIds /\ o.rec \in GrantRecord
      BY <1>0, <1>7, OperationKinds, Zenon DEF Corroborate
    <2>2. [o.rec EXCEPT !.uncertainty = "signed"] \in GrantRecord
      BY <2>1, Zenon DEF GrantRecord
    <2>3. grants' \in [GrantIds -> GrantRecord \cup {Absent}]
      BY <1>7, <2>1, <2>2, Zenon DEF Corroborate, TypeOK
    <2> QED BY <1>7, <2>3, FinishType, Zenon DEF Corroborate, TypeOK, history
  <1> QED BY <1>1, <1>2, <1>3, <1>4, <1>5, <1>6, <1>7, Zenon DEF Write

\* Every step keeps the types.
LEMMA NextType ==
    ASSUME TypeOK, OpsCurrent, ConstantsAssumption, [Next]_vars
    PROVE  TypeOK'
  <1>1. ASSUME NEW e \in Engines, SignerFails(e)
        PROVE  TypeOK'
    BY <1>1, FinishType, Zenon DEF SignerFails, TypeOK, store, history
  <1>2. ASSUME NEW e \in Engines, NEW t \in BootTrust, Restart(e, t)
        PROVE  TypeOK'
    <2>1. t \in Trust
      BY DEF BootTrust, Trust, ConstantsAssumption
    <2> QED BY <1>2, <2>1 DEF Restart, TypeOK, Operation, store, history
  <1>3. CASE Tick
    BY <1>3 DEF Tick, TypeOK, store, history
  <1>4. CASE UNCHANGED vars
    BY <1>4, Zenon DEF vars, store, history, TypeOK
  <1> QED BY <1>1, <1>2, <1>3, <1>4, RequestType, WriteType, Zenon DEF Next

-----------------------------------------------------------------------------
\* What the handlers carry

\* The store only grows: known records stay known, a hold keeps its trust root
\* and a grant its hold, and a grant that was reserved stays so.  Only the
\* handler in e makes a record known, the one it carries.
HoldsGrow(e) ==
    \A h \in HoldIds :
        IF holds[h] = Absent
        THEN holds'[h] # Absent => op[e].kind = "create" /\ op[e].id = h
        ELSE /\ holds'[h] # Absent
             /\ holds'[h].root = holds[h].root
             /\ holds[h].status \in Settled => holds'[h] = holds[h]

Spent(r) == r.status \in {"RESERVED", "REPORTED"}

GrantsGrow(e) ==
    \A g \in GrantIds :
        IF grants[g] = Absent
        THEN grants'[g] # Absent =>
               op[e].kind = "settle" /\ op[e].gid = g /\ SettleWins(op[e].id)
        ELSE /\ grants'[g] # Absent
             /\ grants'[g].hold = grants[g].hold
             /\ Spent(grants[g]) => Spent(grants'[g])

\* Every write makes the store grow, whatever it overtook.
LEMMA WriteGrows ==
    ASSUME TypeOK, OpsCurrent, NEW e \in Engines, Write(e)
    PROVE  HoldsGrow(e) /\ GrantsGrow(e)
  <1> DEFINE o == op[e]
  <1>0. o \in Operation /\ CreateCurrent(e) /\ SettleCurrent(e) /\ GrantCurrent(e)
    BY Zenon DEF TypeOK, OpsCurrent
  <1>t. /\ holds \in [HoldIds -> HoldRecord \cup {Absent}]
        /\ grants \in [GrantIds -> GrantRecord \cup {Absent}]
    BY Zenon DEF TypeOK
  <1>1. CASE PutHold(e)
    <2>1. o.kind = "create" /\ o.id \in HoldIds /\ o.rec \in HoldRecord /\ holds[o.id] = Absent
      BY <1>0, <1>1, OperationKinds, Zenon DEF PutHold, CreateCurrent
    <2>2. holds' = [holds EXCEPT ![o.id] = o.rec] /\ grants' = grants
      BY <1>1, Zenon DEF PutHold
    <2> QED BY <1>t, <2>1, <2>2, Zenon DEF HoldsGrow, GrantsGrow
  <1>2. CASE SettleHold(e)
    <2>1. /\ o.kind = "settle" /\ o.id \in HoldIds /\ o.next \in HoldRecord
          /\ o.gid \in GrantIds \cup {None}
          /\ holds[o.id] # Absent /\ o.next.root = holds[o.id].root
          /\ o.gid # None => grants[o.gid] = Absent
      BY <1>0, <1>2, OperationKinds, Zenon DEF SettleHold, SettleCurrent
    <2>2. CASE SettleWins(o.id)
      <3>1. holds' = [holds EXCEPT ![o.id] = o.next]
        BY <1>2, <2>2, Zenon DEF SettleHold
      <3>2. grants' = IF o.gid = None THEN grants ELSE [grants EXCEPT ![o.gid] = o.grant]
        BY <1>2, <2>2, Zenon DEF SettleHold
      <3>3. holds[o.id].status \notin Settled /\ o.next # Absent
        BY <2>1, <2>2, KnownRecords, Zenon DEF SettleWins, Settled
      <3>4. HoldsGrow(e)
        BY <1>t, <2>1, <3>1, <3>3, Zenon DEF HoldsGrow
      <3>5. GrantsGrow(e)
        BY <1>t, <2>1, <2>2, <3>2, Zenon DEF GrantsGrow
      <3> QED BY <3>4, <3>5, Zenon
    <2>3. CASE ~SettleWins(o.id)
      BY <1>2, <2>3, Zenon DEF SettleHold, HoldsGrow, GrantsGrow, store
    <2> QED BY <2>2, <2>3, Zenon
  <1>3. CASE ClaimStatus(e)
    <2>1. o.id \in GrantIds /\ holds' = holds
      BY <1>0, <1>3, OperationKinds, Zenon DEF ClaimStatus
    <2>2. CASE ClaimStatusWins(o.id)
      <3>1. grants[o.id] \in GrantRecord
        BY <2>1, <2>2, KnownRecords, Zenon DEF ClaimStatusWins, GrantStatus, TypeOK
      <3>2. /\ grants'[o.id].hold = grants[o.id].hold
            /\ grants'[o.id].status = "RESERVED"
            /\ \A g \in GrantIds \ {o.id} : grants'[g] = grants[g]
        BY <1>3, <1>t, <2>1, <2>2, <3>1 DEF ClaimStatus, GrantRecord
      <3>3. grants'[o.id] # Absent
        BY <3>2 DEF Absent
      <3> QED BY <2>1, <3>2, <3>3, <3>1, KnownRecords, Zenon DEF HoldsGrow, GrantsGrow, Spent
    <2>3. CASE ~ClaimStatusWins(o.id)
      BY <1>3, <2>1, <2>3, Zenon DEF ClaimStatus, HoldsGrow, GrantsGrow
    <2> QED BY <2>2, <2>3, Zenon
  <1>4. CASE ClaimReported(e)
    <2>1. o.id \in GrantIds /\ holds' = holds
      BY <1>0, <1>4, OperationKinds, Zenon DEF ClaimReported
    <2>2. CASE ClaimReportedWins(o.id)
      <3>1. grants[o.id] \in GrantRecord
        BY <2>1, <2>2, KnownRecords, Zenon DEF ClaimReportedWins, Exists, TypeOK
      <3> DEFINE won == [grants[o.id] EXCEPT !.status = "REPORTED", !.reportedAt = "set"]
      <3>a. won.hold = grants[o.id].hold /\ won.status = "REPORTED"
        BY <3>1, Zenon DEF GrantRecord
      <3>b. grants' = [grants EXCEPT ![o.id] = won]
        BY <1>4, <2>2, Zenon DEF ClaimReported
      <3> HIDE DEF won
      <3>2. /\ grants'[o.id].hold = grants[o.id].hold
            /\ grants'[o.id].status = "REPORTED"
            /\ \A g \in GrantIds \ {o.id} : grants'[g] = grants[g]
        BY <1>t, <2>1, <3>a, <3>b, Zenon
      <3>3. grants'[o.id] # Absent
        BY <3>2 DEF Absent
      <3> QED BY <2>1, <3>2, <3>3, <3>1, KnownRecords, Zenon DEF HoldsGrow, GrantsGrow, Spent
    <2>3. CASE ~ClaimReportedWins(o.id)
      BY <1>4, <2>1, <2>3, Zenon DEF ClaimReported, HoldsGrow, GrantsGrow
    <2> QED BY <2>2, <2>3, Zenon
  <1>5. CASE PutConsumption(e) \/ PutHint(e) \/ Corroborate(e)
    <2>1. /\ o.id \in GrantIds /\ o.rec \in GrantRecord /\ holds' = holds
          /\ Spent(grants[o.id]) /\ o.rec.status # "UNUSED" /\ o.rec.hold = grants[o.id].hold
      BY <1>0, <1>5, OperationKinds, Zenon
         DEF PutConsumption, PutHint, Corroborate, GrantCurrent, Spent
    <2>2. PICK r : /\ \/ r = o.rec
                      \/ r = [o.rec EXCEPT !.consumption = "signed"]
                      \/ r = [o.rec EXCEPT !.uncertainty = "signed"]
                   /\ grants' = grants \/ grants' = [grants EXCEPT ![o.id] = r]
      BY <1>5, Zenon DEF PutConsumption, PutHint, Corroborate
    <2>3. r \in GrantRecord /\ Spent(r) /\ r.hold = grants[o.id].hold
      BY <2>1, <2>2 DEF GrantRecord, GrantStatus, Spent
    <2>4. r # Absent /\ grants[o.id] # Absent
      BY <2>1, <2>3 DEF Absent, Spent
    <2> QED BY <1>t, <2>1, <2>2, <2>3, <2>4, Zenon DEF HoldsGrow, GrantsGrow
  <1> QED BY <1>1, <1>2, <1>3, <1>4, <1>5, Zenon DEF Write

\* The handlers of the other processes stay current while e takes a step that
\* makes the store grow and leaves e with the operation x, whose new
\* identifiers, if any, are nobody else's.
LEMMA OthersCurrent ==
    ASSUME TypeOK, TypeOK', OpsCurrent, NEW e \in Engines, NEW x,
           op' = [op EXCEPT ![e] = x],
           HoldsGrow(e), GrantsGrow(e),
           x.kind = "create" => x.id \notin Holding,
           x.kind = "settle" /\ x.gid # None => x.gid \notin Minting,
           NEW f \in Engines \ {e}
    PROVE  CreateCurrent(f)' /\ SettleCurrent(f)' /\ GrantCurrent(f)'
  <1> DEFINE o == op[f]
  <1>0. /\ o \in Operation /\ o' = o
        /\ \A d \in Engines : op'[d] = IF d = e THEN x ELSE op[d]
    BY Zenon DEF TypeOK
  <1>1. CreateCurrent(f) /\ SettleCurrent(f) /\ GrantCurrent(f)
    BY Zenon DEF OpsCurrent
  <1>2. CreateCurrent(f)'
    <2> SUFFICES ASSUME o.kind = "create"
                 PROVE  /\ holds'[o.id] = Absent
                        /\ o.rec.status = "PENDING"
                        /\ \A d \in Engines \ {f} : op'[d].kind = "create" => op'[d].id # o.id
      BY <1>0, Zenon DEF CreateCurrent
    <2>1. o.id \in HoldIds /\ o.id \in Holding
      BY <1>0, OperationKinds, Zenon DEF Holding
    <2> QED BY <1>0, <1>1, <2>1 DEF CreateCurrent, HoldsGrow
  <1>3. SettleCurrent(f)'
    <2> SUFFICES ASSUME o.kind = "settle"
                 PROVE  SettleCurrent(f)'
      BY <1>0, Zenon DEF SettleCurrent
    <2>1. o.id \in HoldIds /\ o.gid \in GrantIds \cup {None} /\ o.gid \in Minting
      BY <1>0, OperationKinds, Zenon DEF Minting
    <2>2. holds'[o.id] # Absent /\ holds'[o.id].root = holds[o.id].root
      BY <1>1, <2>1, Zenon DEF SettleCurrent, HoldsGrow
    <2>3. ASSUME o.gid # None
          PROVE  /\ grants'[o.gid] = Absent
                 /\ \A d \in Engines \ {f} : op'[d].kind = "settle" => op'[d].gid # o.gid
      BY <1>0, <1>1, <2>1, <2>3 DEF SettleCurrent, GrantsGrow
    <2> QED BY <1>0, <1>1, <2>2, <2>3 DEF SettleCurrent
  <1>4. GrantCurrent(f)'
    <2> DEFINE grantOps == {"reserve", "report", "hint", "corroborate", "consume"}
    <2> SUFFICES ASSUME o.kind \in grantOps
                 PROVE  GrantCurrent(f)'
      BY <1>0, Zenon DEF GrantCurrent
    <2>1. o.id \in GrantIds /\ grants[o.id] # Absent
      BY <1>0, <1>1, OperationKinds DEF GrantCurrent, Exists, Absent, GrantStatus
    <2>2. /\ grants'[o.id] # Absent
          /\ grants'[o.id].hold = grants[o.id].hold
          /\ Spent(grants[o.id]) => Spent(grants'[o.id])
      BY <2>1, Zenon DEF GrantsGrow
    <2>3. grants'[o.id].status \in GrantStatus
      BY <2>1, <2>2, KnownRecords, Zenon DEF TypeOK
    <2> QED BY <1>0, <1>1, <2>2, <2>3, Zenon DEF GrantCurrent, Spent, Exists
  <1> QED BY <1>2, <1>3, <1>4, Zenon

\* A handler that begins with an operation that is current leaves all of them
\* current.
LEMMA BeginCurrent ==
    ASSUME TypeOK, TypeOK', OpsCurrent, NEW e \in Engines, NEW x, Begin(e, x),
           x.kind = "create" => x.id \notin Holding,
           x.kind = "settle" /\ x.gid # None => x.gid \notin Minting,
           op'[e] = x => CreateCurrent(e)' /\ SettleCurrent(e)' /\ GrantCurrent(e)'
    PROVE  OpsCurrent'
  <1>1. op' = [op EXCEPT ![e] = x] /\ op'[e] = x /\ holds' = holds /\ grants' = grants
    BY Zenon DEF Begin, TypeOK, store
  <1>2. HoldsGrow(e) /\ GrantsGrow(e)
    BY <1>1, Zenon DEF HoldsGrow, GrantsGrow
  <1>3. \A f \in Engines \ {e} : CreateCurrent(f)' /\ SettleCurrent(f)' /\ GrantCurrent(f)'
    BY <1>1, <1>2, OthersCurrent, Zenon
  <1> QED BY <1>1, <1>3, Zenon DEF OpsCurrent

-----------------------------------------------------------------------------
\* What the handlers carry stays true

\* An operation on a grant is current if the grant is known and, where it carries
\* a copy, if the grant was reserved and the copy is of that grant.
LEMMA GrantOpCurrent ==
    ASSUME TypeOK, TypeOK', OpsCurrent, NEW e \in Engines, NEW x, Begin(e, x),
           x.kind \in {"reserve", "report", "hint", "corroborate"},
           x.kind \in {"reserve", "report"} => Exists(x.id),
           x.kind \in {"hint", "corroborate"} =>
             /\ Spent(grants[x.id])
             /\ x.rec.status # "UNUSED" /\ x.rec.hold = grants[x.id].hold
    PROVE  OpsCurrent'
  <1>1. grants' = grants
    BY Zenon DEF Begin, store
  <1>2. op'[e] = x => CreateCurrent(e)' /\ SettleCurrent(e)' /\ GrantCurrent(e)'
    BY <1>1, Zenon DEF CreateCurrent, SettleCurrent, GrantCurrent, Exists, Spent
  <1> QED BY <1>2, BeginCurrent, Zenon

\* A settlement without a grant is current, by the trust root of its hold.
LEMMA SettlementCurrent ==
    ASSUME TypeOK, TypeOK', OpsCurrent, NEW e \in Engines, NEW h \in HoldIds,
           Pending(h), Audience(e, h), NEW s \in Settled \ {"APPROVED"},
           Begin(e, Settlement(e, h, s))
    PROVE  OpsCurrent'
  <1> DEFINE x == Settlement(e, h, s)
  <1>1. /\ x.kind = "settle" /\ x.gid = None /\ x.id = h
        /\ x.next = SettledAs(e, h, s, None)
    BY Zenon DEF Settlement
  <1>2. holds[h] \in HoldRecord
    BY KnownRecords, Zenon DEF TypeOK, Pending, HoldStatus
  <1>3. /\ x.next.status = s /\ x.next.grant = None
        /\ x.next.root = holds[h].root /\ x.next.by = holds[h].root
    BY <1>1, <1>2, Zenon DEF SettledAs, Audience, HoldRecord
  <1>4. holds' = holds /\ holds[h] # Absent
    BY <1>2, KnownRecords, Zenon DEF Begin, store
  <1>5. op'[e] = x => CreateCurrent(e)' /\ SettleCurrent(e)' /\ GrantCurrent(e)'
    BY <1>1, <1>3, <1>4, Zenon DEF CreateCurrent, SettleCurrent, GrantCurrent
  <1> QED BY <1>1, <1>5, BeginCurrent, Zenon

\* An approval is current: its grant is new, its own, and names the hold.
LEMMA ApprovalCurrent ==
    ASSUME TypeOK, TypeOK', OpsCurrent, ConstantsAssumption, NEW e \in Engines,
           NEW h \in HoldIds, Pending(h), Audience(e, h), NEW g \in GrantIds,
           FreshGrant(g), Begin(e, Approval(e, h, g))
    PROVE  OpsCurrent'
  <1> DEFINE x == Approval(e, h, g)
  <1>1. /\ x.kind = "settle" /\ x.gid = g /\ x.id = h
        /\ x.next = SettledAs(e, h, "APPROVED", g) /\ x.grant = IssueGrant(e, h)
        /\ g # None /\ g \notin Minting /\ grants[g] = Absent
    BY Zenon DEF Approval, ConstantsAssumption, FreshGrant
  <1>2. holds[h] \in HoldRecord
    BY KnownRecords, Zenon DEF TypeOK, Pending, HoldStatus
  <1>3. /\ x.next.status = "APPROVED" /\ x.next.grant = g
        /\ x.next.root = holds[h].root /\ x.next.by = holds[h].root
    BY <1>1, <1>2, Zenon DEF SettledAs, Audience, HoldRecord
  <1>4. x.grant # Absent /\ x.grant.status = "UNUSED" /\ x.grant.hold = h
    BY <1>1 DEF IssueGrant, Absent
  <1>b. Begin(e, x)
    BY Zenon
  <1> HIDE DEF x
  <1>5. holds' = holds /\ grants' = grants /\ holds[h] # Absent
    BY <1>2, KnownRecords, Zenon DEF Begin, store
  <1>6. \A f \in Engines \ {e} : op[f].kind = "settle" => op[f].gid # g
    BY <1>1, Zenon DEF Minting
  <1>7. \A f \in Engines \ {e} : op'[f] = op[f]
    BY Zenon DEF Begin, TypeOK
  <1>8. ASSUME op'[e] = x
        PROVE  CreateCurrent(e)' /\ SettleCurrent(e)' /\ GrantCurrent(e)'
    <2>1. op'[e].kind = "settle"
      BY <1>1, <1>8, Zenon
    <2>2. CreateCurrent(e)' /\ GrantCurrent(e)'
      BY <2>1, Zenon DEF CreateCurrent, GrantCurrent
    <2>3. \A f \in Engines \ {e} : op'[f].kind = "settle" => op'[f].gid # g
      BY <1>6, <1>7, Zenon
    <2>4. x.next.status \in Settled
      BY <1>3, Zenon DEF Settled
    <2> QED BY <1>1, <1>3, <1>4, <1>5, <1>8, <2>2, <2>3, <2>4, Zenon DEF SettleCurrent
  <1> QED BY <1>b, <1>1, <1>8, BeginCurrent, Zenon

\* Requests and sweeps begin current operations.
LEMMA RequestCurrent ==
    ASSUME TypeOK, TypeOK', OpsCurrent, ConstantsAssumption, NEW e \in Engines,
           Request(e) \/ Sweep(e)
    PROVE  OpsCurrent'
  <1>1. ASSUME NEW a \in Agents, NEW k \in Keys, NEW b \in Bodies,
               NEW c \in Chains \cup {Omitted}, NEW ttl \in Ttls, NEW h \in HoldIds,
               CreateHold(e, a, k, b, c, ttl, h)
        PROVE  OpsCurrent'
    <2> DEFINE x == [kind |-> "create", id |-> h, rec |-> NewHold(e, a, k, b, c, ttl, h)]
    <2>1. Begin(e, x) /\ h \notin Holding /\ holds[h] = Absent
      BY <1>1, Zenon DEF CreateHold, FreshHold
    <2>2. x.kind = "create" /\ x.id = h /\ x.rec.status = "PENDING"
      BY Zenon DEF NewHold
    <2> HIDE DEF x
    <2>3. holds' = holds /\ \A f \in Engines \ {e} : op'[f] = op[f]
      BY <2>1, Zenon DEF Begin, TypeOK, store
    <2>4. op'[e] = x => CreateCurrent(e)' /\ SettleCurrent(e)' /\ GrantCurrent(e)'
      BY <2>1, <2>2, <2>3, Zenon DEF CreateCurrent, SettleCurrent, GrantCurrent, Holding
    <2> QED BY <2>1, <2>2, <2>4, BeginCurrent, Zenon
  <1>2. ASSUME NEW h \in HoldIds, NEW v \in {"APPROVE", "DENY"}, NEW g \in GrantIds,
               DecideHold(e, h, v, g)
        PROVE  OpsCurrent'
    <2>1. Pending(h) /\ Audience(e, h)
      BY <1>2, Zenon DEF DecideHold, Binding
    <2>2. CASE Overdue(h)
      BY <1>2, <2>1, <2>2, SettlementCurrent, Zenon DEF DecideHold, Settled
    <2>3. CASE ~Overdue(h) /\ v = "APPROVE"
      BY <1>2, <2>1, <2>3, ApprovalCurrent, Zenon DEF DecideHold
    <2>4. CASE ~Overdue(h) /\ v # "APPROVE"
      BY <1>2, <2>1, <2>4, SettlementCurrent, Zenon DEF DecideHold, Settled
    <2> QED BY <2>2, <2>3, <2>4, Zenon
  <1>3. ASSUME NEW a \in Agents, NEW h \in HoldIds, CancelHold(e, a, h)
        PROVE  OpsCurrent'
    BY <1>3, SettlementCurrent, Zenon DEF CancelHold, Settled
  <1>4. ASSUME NEW h \in HoldIds, ExpireHold(e, h)
        PROVE  OpsCurrent'
    BY <1>4, SettlementCurrent, Zenon DEF ExpireHold, Settled
  <1>5. ASSUME NEW a \in Agents, NEW g \in GrantIds, ReserveGrant(e, a, g)
        PROVE  OpsCurrent'
    <2> DEFINE x == [kind |-> "reserve", id |-> g]
    <2>1. Begin(e, x) /\ Exists(x.id) /\ x.kind = "reserve"
      BY <1>5, Zenon DEF ReserveGrant
    <2> HIDE DEF x
    <2> QED BY <2>1, GrantOpCurrent, Zenon
  <1>6. ASSUME NEW a \in Agents, NEW g \in GrantIds, ReportDispatched(e, a, g)
        PROVE  OpsCurrent'
    <2> DEFINE x == [kind |-> "report", id |-> g]
    <2>1. Begin(e, x) /\ Exists(x.id) /\ x.kind = "report"
      BY <1>6, Zenon DEF ReportDispatched
    <2> HIDE DEF x
    <2> QED BY <2>1, GrantOpCurrent, Zenon
  <1>7. ASSUME NEW a \in Agents, NEW g \in GrantIds,
               NEW r \in {"FAILED_BEFORE_DISPATCH", "UNKNOWN"}, ReportHint(e, a, g, r)
        PROVE  OpsCurrent'
    <2> DEFINE x == [kind |-> "hint", id |-> g, rec |-> Hinted(g, r)]
    <2>1. Begin(e, x) /\ Spent(grants[g])
      BY <1>7, Zenon DEF ReportHint, Reportable, Exists, GrantStatus, Spent
    <2>2. grants[g] \in GrantRecord
      BY <2>1, KnownRecords, Zenon DEF TypeOK, GrantStatus, Spent
    <2>3. Hinted(g, r).status = grants[g].status /\ Hinted(g, r).hold = grants[g].hold
      BY <2>2, Zenon DEF Hinted, GrantRecord
    <2>4. x.kind = "hint" /\ x.id = g /\ x.rec = Hinted(g, r)
      BY Zenon
    <2> HIDE DEF x
    <2> QED BY <2>1, <2>3, <2>4, GrantOpCurrent, Zenon DEF Spent
  <1>8. ASSUME NEW g \in GrantIds, SweepGrant(e, g)
        PROVE  OpsCurrent'
    <2> DEFINE x == [kind |-> "corroborate", id |-> g, rec |-> grants[g]]
    <2>1. Begin(e, x) /\ grants[g].status = "RESERVED"
      BY <1>8, Zenon DEF SweepGrant
    <2>2. x.kind = "corroborate" /\ x.id = g /\ x.rec = grants[g]
      BY Zenon
    <2> HIDE DEF x
    <2> QED BY <2>1, <2>2, GrantOpCurrent, Zenon DEF Spent
  <1>9. CASE Sweep(e)
    BY <1>4, <1>8, <1>9, Zenon DEF Sweep
  <1>10. CASE Request(e)
    BY <1>1, <1>2, <1>3, <1>5, <1>6, <1>7, <1>10, Zenon DEF Request
  <1> QED BY <1>9, <1>10, Zenon

\* The writes leave all operations current.
LEMMA WriteCurrent ==
    ASSUME TypeOK, TypeOK', OpsCurrent, NEW e \in Engines, Write(e)
    PROVE  OpsCurrent'
  <1> DEFINE o == op[e]
  <1>0. o \in Operation /\ GrantCurrent(e) /\ HoldsGrow(e) /\ GrantsGrow(e)
    BY WriteGrows, Zenon DEF TypeOK, OpsCurrent
  <1>1. ASSUME NEW x, op' = [op EXCEPT ![e] = x], x.kind \notin {"create", "settle"},
               op'[e] = x => GrantCurrent(e)'
        PROVE  OpsCurrent'
    <2>1. op'[e] = x
      BY <1>1, Zenon DEF TypeOK
    <2>2. \A f \in Engines \ {e} : CreateCurrent(f)' /\ SettleCurrent(f)' /\ GrantCurrent(f)'
      BY <1>0, <1>1, OthersCurrent, Zenon
    <2>3. CreateCurrent(e)' /\ SettleCurrent(e)'
      BY <1>1, <2>1, Zenon DEF CreateCurrent, SettleCurrent
    <2> QED BY <1>1, <2>1, <2>2, <2>3, Zenon DEF OpsCurrent
  <1>2. CASE op' = [op EXCEPT ![e] = Idle]
    <2>1. op'[e] = Idle => GrantCurrent(e)'
      BY DEF GrantCurrent, Idle
    <2> QED BY <1>1, <1>2, <2>1, Zenon DEF Idle
  <1>3. CASE ClaimReported(e) /\ ClaimReportedWins(o.id)
    <2> DEFINE won == [grants[o.id] EXCEPT !.status = "REPORTED", !.reportedAt = "set"]
               x == [kind |-> "consume", id |-> o.id, rec |-> won]
    <2>1. o.id \in GrantIds
      BY <1>0, <1>3, OperationKinds, Zenon DEF ClaimReported
    <2>2. grants[o.id] \in GrantRecord
      BY <1>3, <2>1, KnownRecords, Zenon DEF ClaimReportedWins, Exists, TypeOK
    <2>3. won.status = "REPORTED"
      BY <2>2, Zenon DEF GrantRecord
    <2>4. grants'[o.id] = won /\ op' = [op EXCEPT ![e] = x]
      BY <1>3, <2>1, Zenon DEF ClaimReported, TypeOK
    <2>5. op'[e] = x => GrantCurrent(e)'
      <3> SUFFICES ASSUME op'[e] = x PROVE GrantCurrent(e)'
        BY Zenon
      <3>1. op'[e].kind = "consume" /\ op'[e].id = o.id /\ op'[e].rec = grants'[o.id]
        BY <2>4
      <3>2. grants'[o.id].status = "REPORTED"
        BY <2>3, <2>4, Zenon
      <3> QED BY <3>1, <3>2, Zenon DEF GrantCurrent
    <2> QED BY <1>1, <2>4, <2>5, Zenon
  <1>4. CASE PutHint(e)
    <2> DEFINE x == [o EXCEPT !.kind = "corroborate"]
    <2>1. o.id \in GrantIds /\ o.rec \in GrantRecord /\ o.rec.status # "UNUSED"
      BY <1>0, <1>4, OperationKinds, Zenon DEF PutHint, GrantCurrent
    <2>2. x.kind = "corroborate" /\ x.id = o.id /\ x.rec = o.rec
      BY <1>0, <1>4 DEF PutHint, Operation, Idle
    <2>3. grants'[o.id] = o.rec /\ op' = [op EXCEPT ![e] = x]
      BY <1>4, <2>1, Zenon DEF PutHint, TypeOK
    <2>4. op'[e] = x => GrantCurrent(e)'
      <3> SUFFICES ASSUME op'[e] = x PROVE GrantCurrent(e)'
        BY Zenon
      <3>1. op'[e].kind = "corroborate" /\ op'[e].id = o.id /\ op'[e].rec = grants'[o.id]
        BY <2>2, <2>3, Zenon
      <3>2. grants'[o.id].status \in {"RESERVED", "REPORTED"}
        BY <2>1, <2>3, Zenon DEF GrantRecord, GrantStatus
      <3> HIDE DEF x, o
      <3> QED BY <3>1, <3>2, Zenon DEF GrantCurrent
    <2> HIDE DEF x
    <2> QED BY <1>1, <2>2, <2>3, <2>4, Zenon
  <1>5. CASE PutHold(e) \/ SettleHold(e) \/ ClaimStatus(e) \/ PutConsumption(e) \/ Corroborate(e)
    BY <1>2, <1>5, Zenon DEF PutHold, SettleHold, ClaimStatus, PutConsumption, Corroborate, Finish
  <1>6. CASE ClaimReported(e) /\ ~ClaimReportedWins(o.id)
    BY <1>2, <1>6, Zenon DEF ClaimReported
  <1> QED BY <1>3, <1>4, <1>5, <1>6, Zenon DEF Write

\* A handler that ends without a write leaves all operations current.
LEMMA EndCurrent ==
    ASSUME TypeOK, TypeOK', OpsCurrent, NEW e \in Engines,
           op' = [op EXCEPT ![e] = Idle], UNCHANGED store
    PROVE  OpsCurrent'
  <1>1. HoldsGrow(e) /\ GrantsGrow(e) /\ op'[e] = Idle
    BY Zenon DEF HoldsGrow, GrantsGrow, store, TypeOK
  <1>2. \A f \in Engines \ {e} : CreateCurrent(f)' /\ SettleCurrent(f)' /\ GrantCurrent(f)'
    BY <1>1, OthersCurrent, Zenon DEF Idle
  <1>3. op'[e].kind \notin {"create", "settle", "reserve", "report", "consume", "hint", "corroborate"}
    BY <1>1 DEF Idle
  <1>4. CreateCurrent(e)' /\ SettleCurrent(e)' /\ GrantCurrent(e)'
    BY <1>3, Zenon DEF CreateCurrent, SettleCurrent, GrantCurrent
  <1> QED BY <1>2, <1>4, Zenon DEF OpsCurrent

\* Every step leaves all operations current.
LEMMA NextCurrent ==
    ASSUME TypeOK, TypeOK', OpsCurrent, ConstantsAssumption, [Next]_vars
    PROVE  OpsCurrent'
  <1>1. CASE UNCHANGED <<store, op>>
    BY <1>1 DEF OpsCurrent, CreateCurrent, SettleCurrent, GrantCurrent, Exists, store
  <1>2. ASSUME NEW e \in Engines, SignerFails(e) \/ \E t \in BootTrust : Restart(e, t)
        PROVE  OpsCurrent'
    BY <1>2, EndCurrent, Zenon DEF SignerFails, Restart, Finish
  <1>3. CASE Tick \/ UNCHANGED vars
    BY <1>1, <1>3, Zenon DEF Tick, vars
  <1> QED BY <1>2, <1>3, RequestCurrent, WriteCurrent, Zenon DEF Next

-----------------------------------------------------------------------------
\* The invariant

\* Inductive: the store's invariants hold because what the handlers carry is
\* current, and that in turn because the store only grows.
IInv ==
    /\ TypeOK
    /\ OpsCurrent
    /\ GrantsMatchApprovals
    /\ ShownIsStored
    /\ ReservedOnce
    /\ ResolvedByItsRoot

\* A hold that settles gets the operation's record; no other hold changes but
\* the one a create puts, and that one was unknown.
LEMMA WriteHolds ==
    ASSUME TypeOK, OpsCurrent, NEW e \in Engines, Write(e), NEW h \in HoldIds,
           holds'[h] # holds[h]
    PROVE  \/ /\ op[e].kind = "create" /\ op[e].id = h
              /\ holds[h] = Absent /\ holds'[h].status = "PENDING"
           \/ /\ op[e].kind = "settle" /\ op[e].id = h
              /\ holds[h].status = "PENDING" /\ holds'[h] = op[e].next
  <1> DEFINE o == op[e]
  <1>0. o \in Operation /\ CreateCurrent(e) /\ holds \in [HoldIds -> HoldRecord \cup {Absent}]
    BY Zenon DEF TypeOK, OpsCurrent
  <1>1. CASE PutHold(e)
    <2>1. o.kind = "create" /\ o.id \in HoldIds /\ holds[o.id] = Absent /\ o.rec.status = "PENDING"
      BY <1>0, <1>1, OperationKinds, Zenon DEF PutHold, CreateCurrent
    <2> QED BY <1>0, <1>1, <2>1, Zenon DEF PutHold
  <1>2. CASE SettleHold(e)
    <2>1. o.kind = "settle" /\ o.id \in HoldIds
      BY <1>0, <1>2, OperationKinds, Zenon DEF SettleHold
    <2> QED BY <1>0, <1>2, <2>1, Zenon DEF SettleHold, SettleWins, store
  <1> QED BY <1>1, <1>2, Zenon DEF Write, ClaimStatus, ClaimReported, PutConsumption,
                            PutHint, Corroborate

\* The writes keep approvals and grants matched.
LEMMA WriteMatches ==
    ASSUME IInv, TypeOK', NEW e \in Engines, Write(e)
    PROVE  GrantsMatchApprovals'
  <1> DEFINE o == op[e]
  <1>0. /\ TypeOK /\ OpsCurrent /\ GrantsMatchApprovals /\ SettleCurrent(e)
        /\ o \in Operation /\ HoldsGrow(e) /\ GrantsGrow(e)
    BY WriteGrows, Zenon DEF IInv, OpsCurrent, TypeOK
  <1>1. ASSUME NEW g \in GrantIds, Exists(g)'
        PROVE  holds'[grants'[g].hold].status = "APPROVED" /\ holds'[grants'[g].hold].grant = g
    <2>1. CASE grants[g] = Absent
      <3>1. o.kind = "settle" /\ o.gid = g /\ SettleWins(o.id) /\ g # None
        BY <1>0, <1>1, <2>1, ConstantsAssumption
           DEF GrantsGrow, Exists, Absent, GrantStatus, ConstantsAssumption
      <3>2. SettleHold(e) /\ o.id \in HoldIds
        BY <1>0, <3>1, OperationKinds, Zenon
           DEF Write, PutHold, ClaimStatus, ClaimReported, PutConsumption, PutHint, Corroborate
      <3>3. grants'[g] = o.grant /\ holds'[o.id] = o.next
        BY <1>0, <3>1, <3>2, Zenon DEF SettleHold, TypeOK
      <3>4. o.grant.hold = o.id /\ o.next.status = "APPROVED" /\ o.next.grant = g
        BY <1>0, <3>1, Zenon DEF SettleCurrent
      <3> QED BY <3>3, <3>4, Zenon
    <2>2. CASE grants[g] # Absent
      <3>1. Exists(g) /\ grants[g].hold \in HoldIds
        BY <1>0, <2>2, KnownRecords, Zenon DEF TypeOK, Exists, GrantRecord
      <3>2. grants'[g].hold = grants[g].hold
        BY <1>0, <2>2, Zenon DEF GrantsGrow
      <3>3. holds[grants[g].hold].status = "APPROVED" /\ holds[grants[g].hold].grant = g
        BY <1>0, <3>1, Zenon DEF GrantsMatchApprovals
      <3>4. holds'[grants[g].hold] = holds[grants[g].hold]
        BY <1>0, <3>1, <3>3 DEF HoldsGrow, Settled, Absent
      <3> QED BY <3>2, <3>3, <3>4, Zenon
    <2> QED BY <2>1, <2>2, Zenon
  <1>2. ASSUME NEW h \in HoldIds, holds'[h].status = "APPROVED"
        PROVE  /\ holds'[h].grant \in GrantIds
               /\ Exists(holds[h].grant)'
               /\ grants'[holds'[h].grant].hold = h
    <2>1. CASE holds'[h] = holds[h]
      <3>1. /\ holds[h].grant \in GrantIds /\ Exists(holds[h].grant)
            /\ grants[holds[h].grant].hold = h
        BY <1>0, <1>2, <2>1, Zenon DEF GrantsMatchApprovals
      <3>2. grants[holds[h].grant] # Absent
        BY <3>1 DEF Exists, Absent, GrantStatus
      <3>3. grants'[holds[h].grant] # Absent /\ grants'[holds[h].grant].hold = h
        BY <1>0, <3>1, <3>2, Zenon DEF GrantsGrow
      <3>4. grants'[holds[h].grant].status \in GrantStatus
        BY <3>1, <3>3, KnownRecords, Zenon DEF TypeOK
      <3> QED BY <2>1, <3>1, <3>3, <3>4, Zenon DEF Exists
    <2>2. CASE holds'[h] # holds[h]
      <3>1. o.kind = "settle" /\ o.id = h /\ SettleWins(h) /\ holds'[h] = o.next
        BY <1>0, <1>2, <2>2, WriteHolds, Zenon DEF SettleWins
      <3>2. /\ o.gid # None /\ o.next.grant = o.gid
            /\ o.grant # Absent /\ o.grant.hold = h
        BY <1>0, <1>2, <3>1, Zenon DEF SettleCurrent
      <3>3. o.gid \in GrantIds /\ o.grant \in GrantRecord
        BY <1>0, <3>1, <3>2, OperationKinds, Zenon
      <3>4. SettleHold(e)
        BY <3>1, Zenon DEF Write, PutHold, ClaimStatus, ClaimReported, PutConsumption, PutHint,
                    Corroborate
      <3>5. grants'[o.gid] = o.grant
        BY <1>0, <3>1, <3>2, <3>3, <3>4, Zenon DEF SettleHold, TypeOK
      <3>6. o.grant.status \in GrantStatus
        BY <3>3, KnownRecords, Zenon
      <3> QED BY <3>1, <3>2, <3>3, <3>5, <3>6, Zenon DEF Exists
    <2> QED BY <2>1, <2>2, Zenon
  <1> QED BY <1>1, <1>2, Zenon DEF GrantsMatchApprovals

\* The writes keep what was shown stored.
LEMMA WriteShows ==
    ASSUME IInv, NEW e \in Engines, Write(e)
    PROVE  ShownIsStored'
  <1> DEFINE o == op[e]
  <1>0. /\ TypeOK /\ OpsCurrent /\ ShownIsStored /\ SettleCurrent(e)
        /\ o \in Operation /\ HoldsGrow(e)
    BY WriteGrows, Zenon DEF IInv, OpsCurrent, TypeOK
  <1>1. \A v \in shown : holds'[v.hold] = holds[v.hold]
    <2> SUFFICES ASSUME NEW v \in shown
                 PROVE  holds'[v.hold] = holds[v.hold]
      BY Zenon
    <2>1. v.hold \in HoldIds /\ v.status \in Settled
      BY <1>0, Zenon DEF TypeOK
    <2>2. holds[v.hold].status \in Settled
      BY <1>0, <2>1 DEF ShownIsStored, View
    <2> QED BY <1>0, <2>1, <2>2 DEF HoldsGrow, Settled, Absent
  <1>2. \A v \in shown : View(v.hold, holds'[v.hold]) = v
    BY <1>0, <1>1, Zenon DEF ShownIsStored
  <1>3. CASE SettleHold(e)
    <2>1. o.id \in HoldIds
      BY <1>0, <1>3, OperationKinds, Zenon DEF SettleHold
    <2>2. shown' = shown \cup {View(o.id, holds'[o.id])}
      BY <1>0, <1>3, <2>1, Zenon DEF SettleHold, TypeOK, store
    <2>3. \A r : View(o.id, r).hold = o.id
      BY Zenon DEF View
    <2> QED BY <1>2, <2>2, <2>3, Zenon DEF ShownIsStored
  <1>4. CASE shown' = shown
    BY <1>2, <1>4, Zenon DEF ShownIsStored
  <1> QED BY <1>3, <1>4, Zenon DEF Write, PutHold, ClaimStatus, ClaimReported, PutConsumption,
                            PutHint, Corroborate, history

\* The writes reserve a grant once at most.
LEMMA WriteReserves ==
    ASSUME IInv, TypeOK', NEW e \in Engines, Write(e)
    PROVE  ReservedOnce'
  <1> DEFINE o == op[e]
  <1>0. /\ TypeOK /\ OpsCurrent /\ ReservedOnce /\ o \in Operation /\ GrantsGrow(e)
    BY WriteGrows, Zenon DEF IInv, TypeOK
  <1>1. CASE reserved' = reserved
    <2> SUFFICES ASSUME NEW g \in GrantIds, ~Spent(grants'[g])
                 PROVE  ~Spent(grants[g])
      BY <1>0, <1>1, Zenon DEF ReservedOnce, Spent
    <2> QED BY <1>0 DEF GrantsGrow, Spent, Absent
  <1>2. CASE ClaimStatus(e) /\ ClaimStatusWins(o.id)
    <2>1. o.id \in GrantIds /\ grants[o.id].status = "UNUSED"
      BY <1>0, <1>2, OperationKinds, Zenon DEF ClaimStatus, ClaimStatusWins
    <2>2. grants[o.id] \in GrantRecord
      BY <1>0, <2>1, KnownRecords, Zenon DEF TypeOK, GrantStatus
    <2>3. /\ grants'[o.id].status = "RESERVED" /\ reserved'[o.id] = reserved[o.id] + 1
          /\ \A g \in GrantIds \ {o.id} : grants'[g] = grants[g] /\ reserved'[g] = reserved[g]
      BY <1>0, <1>2, <2>1, <2>2 DEF ClaimStatus, TypeOK, GrantRecord
    <2>4. reserved[o.id] = 0
      BY <1>0, <2>1, Zenon DEF ReservedOnce
    <2> QED BY <1>0, <2>3, <2>4 DEF ReservedOnce
  <1>3. CASE ClaimStatus(e) /\ ~ClaimStatusWins(o.id)
    BY <1>1, <1>3, Zenon DEF ClaimStatus
  <1>4. CASE \/ PutHold(e) \/ SettleHold(e) \/ ClaimReported(e)
             \/ PutConsumption(e) \/ PutHint(e) \/ Corroborate(e)
    BY <1>1, <1>4, Zenon DEF PutHold, SettleHold, ClaimReported, PutConsumption, PutHint,
                             Corroborate, history
  <1> QED BY <1>2, <1>3, <1>4, Zenon DEF Write

\* A write settles a hold under the hold's own trust root.
LEMMA WriteResolves ==
    ASSUME IInv, NEW e \in Engines, Write(e)
    PROVE  ResolvedByItsRoot'
  <1>0. TypeOK /\ OpsCurrent /\ ResolvedByItsRoot /\ SettleCurrent(e)
    BY Zenon DEF IInv, OpsCurrent
  <1> SUFFICES ASSUME NEW h \in HoldIds, holds'[h].status \in Settled
               PROVE  holds'[h].by = holds'[h].root
    BY Zenon DEF ResolvedByItsRoot
  <1>1. CASE holds'[h] = holds[h]
    BY <1>0, <1>1, Zenon DEF ResolvedByItsRoot
  <1>2. CASE holds'[h] # holds[h]
    <2>1. op[e].kind = "settle" /\ holds'[h] = op[e].next
      BY <1>0, <1>2, WriteHolds, Zenon DEF Settled
    <2> QED BY <1>0, <2>1, Zenon DEF SettleCurrent
  <1> QED BY <1>1, <1>2, Zenon

\* Steps that write nothing leave the invariants of the store alone.
LEMMA NextStore ==
    ASSUME [Next]_vars, ~\E e \in Engines : Write(e)
    PROVE  UNCHANGED <<store, history>>
  <1>1. ASSUME NEW e \in Engines, NEW o, Begin(e, o)
        PROVE  UNCHANGED <<store, history>>
    BY <1>1, Zenon DEF Begin
  <1>2. ASSUME NEW e \in Engines, Request(e) \/ Sweep(e)
        PROVE  UNCHANGED <<store, history>>
    BY <1>1, <1>2, Zenon DEF Request, Sweep, CreateHold, DecideHold, CancelHold, ReserveGrant,
                      ReportDispatched, ReportHint, ExpireHold, SweepGrant
  <1>3. ASSUME NEW e \in Engines, SignerFails(e) \/ \E t \in BootTrust : Restart(e, t)
        PROVE  UNCHANGED <<store, history>>
    BY <1>3, Zenon DEF SignerFails, Restart
  <1>4. CASE Tick \/ UNCHANGED vars
    BY <1>4, Zenon DEF Tick, vars
  <1> QED BY <1>2, <1>3, <1>4, Zenon DEF Next

\* The invariant holds at the start.
LEMMA InitInv ==
    ASSUME Init, ConstantsAssumption
    PROVE  IInv
  <1>1. TypeOK
    <2>1. trust \in [Engines -> Trust]
      BY DEF Init, Trust
    <2> QED BY <2>1, Zenon DEF Init, TypeOK, Operation
  <1>2. OpsCurrent
    BY Zenon DEF Init, OpsCurrent, CreateCurrent, SettleCurrent, GrantCurrent, Idle
  <1>3. \A h \in HoldIds : holds[h].status \notin HoldStatus
    BY Zenon DEF Init, Absent, HoldStatus, Settled
  <1>4. \A g \in GrantIds : grants[g].status \notin GrantStatus
    BY Zenon DEF Init, Absent, GrantStatus
  <1>5. GrantsMatchApprovals /\ ResolvedByItsRoot
    BY <1>3, <1>4, Zenon DEF GrantsMatchApprovals, ResolvedByItsRoot, HoldStatus, Settled, Exists
  <1>6. ShownIsStored /\ ReservedOnce
    BY DEF Init, ShownIsStored, ReservedOnce
  <1> QED BY <1>1, <1>2, <1>5, <1>6, Zenon DEF IInv

\* Every step keeps the invariant.
LEMMA NextInv ==
    ASSUME IInv, ConstantsAssumption, [Next]_vars
    PROVE  IInv'
  <1>1. TypeOK' /\ OpsCurrent'
    BY NextType, NextCurrent, Zenon DEF IInv
  <1>2. CASE \E e \in Engines : Write(e)
    BY <1>1, <1>2, WriteMatches, WriteShows, WriteReserves, WriteResolves, Zenon DEF IInv
  <1>3. CASE UNCHANGED <<store, history>>
    BY <1>1, <1>3, Zenon DEF IInv, store, history, GrantsMatchApprovals, ShownIsStored,
                      ReservedOnce, ResolvedByItsRoot, Exists
  <1> QED BY <1>2, <1>3, NextStore, Zenon

-----------------------------------------------------------------------------
\* Theorems

\* The inductive invariant holds in every state of every gate deployment.
THEOREM Invariance == Spec => []IInv
  <1>1. Init => IInv
    BY InitInv, ConstantsAssumption, Zenon
  <1>2. IInv /\ [Next]_vars => IInv'
    BY NextInv, ConstantsAssumption, Zenon
  <1> QED BY <1>1, <1>2, PTL DEF Spec

\* The records, the index and the operations in progress keep their types
\* (the Store interface and the handlers of GateEngine).
THEOREM TypeCorrect == Spec => []TypeOK
  <1>1. IInv => TypeOK
    BY Zenon DEF IInv
  <1> QED BY <1>1, Invariance, PTL

\* Every stored grant belongs to the approved hold that names it, and every
\* approved hold has its grant, however many processes decide it at once
\* (decide, settleHold).
THEOREM ApprovalsHaveOneGrant == Spec => []GrantsMatchApprovals
  <1>1. IInv => GrantsMatchApprovals
    BY Zenon DEF IInv
  <1> QED BY <1>1, Invariance, PTL

\* A terminal state shown to a caller is the stored one for ever (settleExpiry,
\* decide, cancelLocalStateLost).
THEOREM ShownStaysStored == Spec => []ShownIsStored
  <1>1. IInv => ShownIsStored
    BY Zenon DEF IInv
  <1> QED BY <1>1, Invariance, PTL

\* One human approval admits one execution: a grant is reserved at most once and
\* never becomes unused again (reserve, claimGrantStatus).
THEOREM SingleUse == Spec => []ReservedOnce
  <1>1. IInv => ReservedOnce
    BY Zenon DEF IInv
  <1> QED BY <1>1, Invariance, PTL

\* A hold is only ever resolved under the trust root that froze it, across any
\* number of restarts with other roots (envelopeAudienceRefusal).
THEOREM ResolvedUnderItsRoot == Spec => []ResolvedByItsRoot
  <1>1. IInv => ResolvedByItsRoot
    BY Zenon DEF IInv
  <1> QED BY <1>1, Invariance, PTL

\* No step changes a settled hold: terminal is terminal (settleHold, putHold).
THEOREM TerminalIsTerminal == Spec => SettledIsFinal
  <1> DEFINE Final == \A h \in HoldIds : holds[h].status \in Settled => holds'[h] = holds[h]
  <1>1. IInv /\ [Next]_vars => [Final]_vars
    <2> SUFFICES ASSUME IInv, [Next]_vars PROVE Final
      BY Zenon
    <2>1. CASE \E e \in Engines : Write(e)
      <3>1. PICK e \in Engines : Write(e)
        BY <2>1, Zenon
      <3>2. HoldsGrow(e)
        BY <3>1, WriteGrows, Zenon DEF IInv
      <3> QED BY <3>2 DEF HoldsGrow, Settled, Absent
    <2>2. CASE UNCHANGED <<store, history>>
      BY <2>2, Zenon DEF store
    <2> QED BY <2>1, <2>2, NextStore, Zenon
  <1> QED BY <1>1, Invariance, PTL DEF Spec, SettledIsFinal

-----------------------------------------------------------------------------
\* What one step does to an operation and to a record

\* The operations a handler may begin with.
BeginsCreate(e, x) ==
    \E a \in Agents, k \in Keys, b \in Bodies, c \in Chains \cup {Omitted},
       ttl \in Ttls, h \in HoldIds :
        /\ FreshHold(h)
        /\ CreateAnswer(e, a, k, b, c, h) = "CREATED"
        /\ x = [kind |-> "create", id |-> h, rec |-> NewHold(e, a, k, b, c, ttl, h)]

BeginsSettlement(e, x) ==
    \E h \in HoldIds, s \in Settled \ {"APPROVED"} :
        /\ Pending(h) /\ Audience(e, h)
        /\ s = "EXPIRED" <=> Overdue(h)
        /\ s = "DENIED" => OfThisBoot(e, h)
        /\ x = Settlement(e, h, s)

BeginsApproval(e, x) ==
    \E h \in HoldIds, g \in GrantIds :
        /\ Pending(h) /\ Binding(e, h) /\ ~Overdue(h) /\ OfThisBoot(e, h)
        /\ FreshGrant(g)
        /\ x = Approval(e, h, g)

BeginsOnGrant(e, x) ==
    \E g \in GrantIds :
        /\ Exists(g)
        /\ \/ Reservable(e, g) /\ x = [kind |-> "reserve", id |-> g]
           \/ Reportable(e, g) /\ x = [kind |-> "report", id |-> g]
           \/ /\ Reportable(e, g)
              /\ \E r \in {"FAILED_BEFORE_DISPATCH", "UNKNOWN"} :
                    x = [kind |-> "hint", id |-> g, rec |-> Hinted(g, r)]
           \/ /\ grants[g].status = "RESERVED"
              /\ x = [kind |-> "corroborate", id |-> g, rec |-> grants[g]]

Begins(e, x) ==
    BeginsCreate(e, x) \/ BeginsSettlement(e, x) \/ BeginsApproval(e, x) \/ BeginsOnGrant(e, x)

\* A request or a sweep begins one of them.
LEMMA RequestBegins ==
    ASSUME NEW e \in Engines, Request(e) \/ Sweep(e)
    PROVE  \E x : Begin(e, x) /\ Begins(e, x)
  <1>1. ASSUME NEW a \in Agents, NEW k \in Keys, NEW b \in Bodies,
               NEW c \in Chains \cup {Omitted}, NEW ttl \in Ttls, NEW h \in HoldIds,
               CreateHold(e, a, k, b, c, ttl, h)
        PROVE  \E x : Begin(e, x) /\ BeginsCreate(e, x)
    <2> DEFINE x == [kind |-> "create", id |-> h, rec |-> NewHold(e, a, k, b, c, ttl, h)]
    <2>1. Begin(e, x) /\ FreshHold(h) /\ CreateAnswer(e, a, k, b, c, h) = "CREATED"
      BY <1>1, Zenon DEF CreateHold
    <2>2. BeginsCreate(e, x)
      BY <2>1, Zenon DEF BeginsCreate
    <2> QED BY <2>1, <2>2, Zenon
  <1>2. ASSUME NEW h \in HoldIds, NEW v \in {"APPROVE", "DENY"}, NEW g \in GrantIds,
               DecideHold(e, h, v, g)
        PROVE  \E x : Begin(e, x) /\ (BeginsSettlement(e, x) \/ BeginsApproval(e, x))
    <2>1. Pending(h) /\ Binding(e, h) /\ Audience(e, h)
      BY <1>2, Zenon DEF DecideHold, Binding
    <2>2. CASE Overdue(h)
      <3>1. Begin(e, Settlement(e, h, "EXPIRED"))
        BY <1>2, <2>2, Zenon DEF DecideHold
      <3>2. BeginsSettlement(e, Settlement(e, h, "EXPIRED"))
        BY <2>1, <2>2, Zenon DEF BeginsSettlement, Settled
      <3> QED BY <3>1, <3>2, Zenon
    <2>3. CASE ~Overdue(h) /\ v = "APPROVE"
      <3>1. Begin(e, Approval(e, h, g)) /\ FreshGrant(g) /\ OfThisBoot(e, h)
        BY <1>2, <2>3, Zenon DEF DecideHold
      <3>2. BeginsApproval(e, Approval(e, h, g))
        BY <2>1, <2>3, <3>1, Zenon DEF BeginsApproval
      <3> QED BY <3>1, <3>2, Zenon
    <2>4. CASE ~Overdue(h) /\ v # "APPROVE"
      <3>1. Begin(e, Settlement(e, h, "DENIED")) /\ OfThisBoot(e, h)
        BY <1>2, <2>4, Zenon DEF DecideHold
      <3>2. BeginsSettlement(e, Settlement(e, h, "DENIED"))
        BY <2>1, <2>4, <3>1, Zenon DEF BeginsSettlement, Settled
      <3> QED BY <3>1, <3>2, Zenon
    <2> QED BY <2>2, <2>3, <2>4, Zenon
  <1>3. ASSUME NEW a \in Agents, NEW h \in HoldIds, CancelHold(e, a, h)
        PROVE  \E x : Begin(e, x) /\ BeginsSettlement(e, x)
    <2> DEFINE s == IF Overdue(h) THEN "EXPIRED" ELSE "CANCELLED_LOCAL_STATE_LOST"
    <2>1. Begin(e, Settlement(e, h, s)) /\ Pending(h) /\ Audience(e, h)
      BY <1>3, Zenon DEF CancelHold
    <2>2. s \in Settled \ {"APPROVED"} /\ (s = "EXPIRED" <=> Overdue(h)) /\ s # "DENIED"
      BY Zenon DEF Settled
    <2> HIDE DEF s
    <2> QED BY <2>1, <2>2, Zenon DEF BeginsSettlement
  <1>4. ASSUME NEW h \in HoldIds, ExpireHold(e, h)
        PROVE  \E x : Begin(e, x) /\ BeginsSettlement(e, x)
    BY <1>4, Zenon DEF ExpireHold, BeginsSettlement, Settled
  <1>5. ASSUME NEW a \in Agents, NEW g \in GrantIds,
               \/ ReserveGrant(e, a, g) \/ ReportDispatched(e, a, g)
               \/ \E r \in {"FAILED_BEFORE_DISPATCH", "UNKNOWN"} : ReportHint(e, a, g, r)
        PROVE  \E x : Begin(e, x) /\ BeginsOnGrant(e, x)
    BY <1>5, Zenon DEF ReserveGrant, ReportDispatched, ReportHint, BeginsOnGrant
  <1>6. ASSUME NEW g \in GrantIds, SweepGrant(e, g)
        PROVE  \E x : Begin(e, x) /\ BeginsOnGrant(e, x)
    BY <1>6, Zenon DEF SweepGrant, BeginsOnGrant
  <1>7. CASE Sweep(e)
    BY <1>4, <1>6, <1>7, Zenon DEF Sweep, Begins
  <1>8. CASE Request(e)
    BY <1>1, <1>2, <1>3, <1>5, <1>8, Zenon DEF Request, Begins
  <1> QED BY <1>7, <1>8, Zenon

\* How a write changes a grant's record.
GrantWritten(e, g) ==
    LET o == op[e]
        r == grants[g]
    IN  \/ /\ o.kind = "settle" /\ o.gid = g /\ SettleWins(o.id)
           /\ grants[g] = Absent /\ grants'[g] = o.grant /\ holds'[o.id] = o.next
        \/ /\ o.kind = "reserve" /\ o.id = g /\ r.status = "UNUSED"
           /\ grants'[g] = [r EXCEPT !.status = "RESERVED", !.reservedAt = now]
        \/ /\ o.kind = "report" /\ o.id = g /\ r.reportedAt = "null"
           /\ grants'[g] = [r EXCEPT !.status = "REPORTED", !.reportedAt = "set"]
        \/ /\ o.kind = "consume" /\ o.id = g
           /\ grants'[g] = [o.rec EXCEPT !.consumption = "signed"]
        \/ o.kind = "hint" /\ o.id = g /\ grants'[g] = o.rec
        \/ /\ o.kind = "corroborate" /\ o.id = g /\ Stuck(e, o.rec)
           /\ o.rec.uncertainty = "null"
           /\ grants'[g] = [o.rec EXCEPT !.uncertainty = "signed"]

\* A record of a grant that a write changes, it changes in one of these ways.
LEMMA WriteGrants ==
    ASSUME TypeOK, OpsCurrent, NEW e \in Engines, Write(e), NEW g \in GrantIds,
           grants'[g] # grants[g]
    PROVE  GrantWritten(e, g)
  <1> DEFINE o == op[e]
  <1>0. /\ o \in Operation /\ SettleCurrent(e)
        /\ grants \in [GrantIds -> GrantRecord \cup {Absent}]
        /\ holds \in [HoldIds -> HoldRecord \cup {Absent}]
    BY Zenon DEF TypeOK, OpsCurrent
  <1>1. CASE SettleHold(e)
    <2>1. o.kind = "settle" /\ o.id \in HoldIds /\ SettleWins(o.id) /\ o.gid # None
      BY <1>0, <1>1, OperationKinds, Zenon DEF SettleHold, store
    <2>2. o.gid \in GrantIds
      BY <1>0, <2>1, OperationKinds, Zenon
    <2>3. o.gid = g /\ grants'[g] = o.grant /\ holds'[o.id] = o.next
      BY <1>0, <1>1, <2>1, <2>2, Zenon DEF SettleHold
    <2> QED BY <1>0, <2>1, <2>3, Zenon DEF GrantWritten, SettleCurrent
  <1>2. CASE ClaimStatus(e)
    <2>1. o.kind = "reserve" /\ o.id \in GrantIds /\ ClaimStatusWins(o.id)
      BY <1>0, <1>2, OperationKinds, Zenon DEF ClaimStatus
    <2>2. grants[o.id] \in GrantRecord
      BY <1>0, <2>1, KnownRecords, Zenon DEF ClaimStatusWins, GrantStatus
    <2>3. grants' = [grants EXCEPT ![o.id] =
                        [grants[o.id] EXCEPT !.status = "RESERVED", !.reservedAt = now]]
      BY <1>0, <1>2, <2>1, <2>2, Zenon DEF ClaimStatus, GrantRecord
    <2> QED BY <1>0, <2>1, <2>3, Zenon DEF GrantWritten, ClaimStatusWins
  <1>3. CASE ClaimReported(e)
    <2>1. o.kind = "report" /\ o.id \in GrantIds /\ ClaimReportedWins(o.id)
      BY <1>0, <1>3, OperationKinds, Zenon DEF ClaimReported
    <2>2. grants' = [grants EXCEPT ![o.id] =
                        [grants[o.id] EXCEPT !.status = "REPORTED", !.reportedAt = "set"]]
      BY <1>3, <2>1, Zenon DEF ClaimReported
    <2> QED BY <1>0, <2>1, <2>2, Zenon DEF GrantWritten, ClaimReportedWins
  <1>4. CASE PutConsumption(e)
    <2>1. o.kind = "consume" /\ o.id \in GrantIds
      BY <1>0, <1>4, OperationKinds, Zenon DEF PutConsumption
    <2> QED BY <1>0, <1>4, <2>1, Zenon DEF GrantWritten, PutConsumption
  <1>5. CASE PutHint(e)
    <2>1. o.kind = "hint" /\ o.id \in GrantIds
      BY <1>0, <1>5, OperationKinds, Zenon DEF PutHint
    <2> QED BY <1>0, <1>5, <2>1, Zenon DEF GrantWritten, PutHint
  <1>6. CASE Corroborate(e)
    <2>1. o.kind = "corroborate" /\ o.id \in GrantIds
      BY <1>0, <1>6, OperationKinds, Zenon DEF Corroborate
    <2> QED BY <1>0, <1>6, <2>1, Zenon DEF GrantWritten, Corroborate
  <1> QED BY <1>1, <1>2, <1>3, <1>4, <1>5, <1>6, Zenon DEF Write, PutHold

\* What becomes of the operation of process f in a step.
OpStays(f) == op'[f] = op[f] \/ op'[f] = Idle

OpBegins(f) ==
    Begins(f, op'[f]) /\ UNCHANGED <<now, trust, store, history>>

OpConsumes(f) ==
    /\ op[f].kind = "report"
    /\ op'[f] = [kind |-> "consume", id |-> op[f].id, rec |-> grants'[op[f].id]]
    /\ grants'[op[f].id].status = "REPORTED"

OpCorroborates(f) ==
    /\ op[f].kind = "hint"
    /\ op'[f] = [op[f] EXCEPT !.kind = "corroborate"]
    /\ grants'[op[f].id] = op[f].rec

\* What a step makes of an operation in progress.
LEMMA StepOps ==
    ASSUME IInv, [Next]_vars, NEW f \in Engines
    PROVE  OpStays(f) \/ OpBegins(f) \/ OpConsumes(f) \/ OpCorroborates(f)
  <1>0. TypeOK /\ op[f] \in Operation
    BY Zenon DEF IInv, TypeOK
  <1>1. ASSUME NEW e \in Engines, NEW x, op' = [op EXCEPT ![e] = x]
        PROVE  op'[e] = x /\ (f # e => op'[f] = op[f])
    BY <1>0, <1>1, Zenon DEF TypeOK
  <1>2. ASSUME NEW e \in Engines, Request(e) \/ Sweep(e)
        PROVE  OpStays(f) \/ OpBegins(f)
    <2>1. PICK x : Begin(e, x) /\ Begins(e, x)
      BY <1>2, RequestBegins, Zenon
    <2>2. op'[e] = x /\ (f # e => op'[f] = op[f])
      BY <1>1, <2>1, Zenon DEF Begin
    <2> QED BY <2>1, <2>2, Zenon DEF OpStays, OpBegins, Begin
  <1>3. ASSUME NEW e \in Engines, op' = [op EXCEPT ![e] = Idle]
        PROVE  OpStays(f)
    BY <1>1, <1>3, Zenon DEF OpStays
  <1>4. ASSUME NEW e \in Engines, ClaimReported(e), ClaimReportedWins(op[e].id)
        PROVE  OpStays(f) \/ OpConsumes(f)
    <2> DEFINE won == [grants[op[e].id] EXCEPT !.status = "REPORTED", !.reportedAt = "set"]
    <2>1. op[e].id \in GrantIds
      BY <1>0, <1>4, OperationKinds, Zenon DEF ClaimReported, TypeOK
    <2>a. won.status = "REPORTED"
      <3>1. grants[op[e].id] \in GrantRecord
        BY <1>0, <1>4, <2>1, KnownRecords, Zenon DEF TypeOK, ClaimReportedWins, Exists
      <3> QED BY <3>1 DEF GrantRecord
    <2>2. /\ op[e].kind = "report" /\ grants' = [grants EXCEPT ![op[e].id] = won]
          /\ op' = [op EXCEPT ![e] = [kind |-> "consume", id |-> op[e].id, rec |-> won]]
      BY <1>4, Zenon DEF ClaimReported
    <2>3. grants'[op[e].id] = won
      BY <1>0, <2>1, <2>2, Zenon DEF TypeOK
    <2> HIDE DEF won
    <2> QED BY <1>1, <2>a, <2>2, <2>3 DEF OpStays, OpConsumes
  <1>5. ASSUME NEW e \in Engines, PutHint(e)
        PROVE  OpStays(f) \/ OpCorroborates(f)
    <2>1. op[e].id \in GrantIds
      BY <1>0, <1>5, OperationKinds, Zenon DEF PutHint, TypeOK
    <2>2. grants'[op[e].id] = op[e].rec
      BY <1>0, <1>5, <2>1, Zenon DEF PutHint, TypeOK
    <2>3. op' = [op EXCEPT ![e] = [op[e] EXCEPT !.kind = "corroborate"]] /\ op[e].kind = "hint"
      BY <1>5, Zenon DEF PutHint
    <2> QED BY <1>1, <2>2, <2>3, Zenon DEF OpStays, OpCorroborates
  <1>6. ASSUME NEW e \in Engines, Write(e)
        PROVE  OpStays(f) \/ OpConsumes(f) \/ OpCorroborates(f)
    <2>1. CASE PutHold(e) \/ SettleHold(e) \/ ClaimStatus(e) \/ PutConsumption(e) \/ Corroborate(e)
      BY <1>3, <2>1, Zenon DEF PutHold, SettleHold, ClaimStatus, PutConsumption, Corroborate, Finish
    <2>2. CASE ClaimReported(e) /\ ~ClaimReportedWins(op[e].id)
      BY <1>3, <2>2, Zenon DEF ClaimReported
    <2> QED BY <1>4, <1>5, <1>6, <2>1, <2>2, Zenon DEF Write
  <1>7. ASSUME NEW e \in Engines, SignerFails(e) \/ \E t \in BootTrust : Restart(e, t)
        PROVE  OpStays(f)
    BY <1>3, <1>7, Zenon DEF SignerFails, Restart, Finish
  <1>8. CASE Tick \/ UNCHANGED vars
    BY <1>8, Zenon DEF Tick, vars, OpStays
  <1> QED BY <1>2, <1>6, <1>7, <1>8, Zenon DEF Next

\* The clock never goes back, and stands still while the store is written.
LEMMA StepClock ==
    ASSUME TypeOK, [Next]_vars
    PROVE  now' \in Nat /\ now' >= now /\ (now' # now => UNCHANGED <<store, op, history>>)
  <1>1. ASSUME NEW e \in Engines, Request(e) \/ Sweep(e)
        PROVE  now' = now
    BY <1>1, RequestBegins, Zenon DEF Begin
  <1>2. ASSUME NEW e \in Engines, Write(e) \/ SignerFails(e) \/ \E t \in BootTrust : Restart(e, t)
        PROVE  now' = now
    BY <1>2, Zenon DEF Write, PutHold, SettleHold, ClaimStatus, ClaimReported, PutConsumption, PutHint,
                Corroborate, SignerFails, Restart, Finish
  <1>3. CASE Tick
    BY <1>3 DEF Tick, TypeOK
  <1>4. CASE UNCHANGED vars
    BY <1>4 DEF vars, TypeOK
  <1> QED BY <1>1, <1>2, <1>3, <1>4 DEF Next, TypeOK

\* The copies of grants that handlers carry.
Carries(o) == o.kind \in {"hint", "corroborate", "consume"}

\* The settled copy of a hold keeps its times and its boot.
LEMMA SettledAsFields ==
    ASSUME NEW e \in Engines, NEW h \in HoldIds, holds[h] \in HoldRecord, NEW s, NEW g
    PROVE  LET r == SettledAs(e, h, s, g) IN
           /\ r.status = s /\ r.decidedAt = now /\ r.grant = g
           /\ \A f \in {"agent", "key", "body", "sent", "chain", "boot", "root",
                        "createdAt", "expiresAt"} : r[f] = holds[h][f]
  BY DEF SettledAs, HoldRecord

\* A grant that was reserved stays so.
LEMMA StepSpent ==
    ASSUME IInv, [Next]_vars, NEW g \in GrantIds, Spent(grants[g])
    PROVE  Spent(grants'[g])
  <1>1. TypeOK /\ OpsCurrent /\ grants[g] # Absent
    BY DEF IInv, Spent, Absent
  <1>2. ASSUME NEW e \in Engines, Write(e)
        PROVE  Spent(grants'[g])
    BY <1>1, <1>2, WriteGrows, Zenon DEF GrantsGrow
  <1> QED BY <1>2, NextStore, Zenon DEF store

\* The kinds of the operations that are not on a grant.
LEMMA BegunKinds ==
    ASSUME NEW f, NEW x
    PROVE  /\ BeginsCreate(f, x) => x.kind = "create"
           /\ BeginsSettlement(f, x) \/ BeginsApproval(f, x) => x.kind = "settle"
  <1>1. ASSUME BeginsCreate(f, x) PROVE x.kind = "create"
    BY <1>1 DEF BeginsCreate
  <1>2. ASSUME BeginsSettlement(f, x) PROVE x.kind = "settle"
    BY <1>2 DEF BeginsSettlement, Settlement
  <1>3. ASSUME BeginsApproval(f, x) PROVE x.kind = "settle"
    BY <1>3 DEF BeginsApproval, Approval
  <1> QED BY <1>1, <1>2, <1>3, Zenon

\* A report begins on a grant that was reserved.
LEMMA StepReports ==
    ASSUME IInv, ReportsReserved, [Next]_vars
    PROVE  ReportsReserved'
  <1> SUFFICES ASSUME NEW f \in Engines, op'[f].kind = "report"
               PROVE  Spent(grants'[op'[f].id])
    BY Zenon DEF ReportsReserved, Spent
  <1>0. op[f] \in Operation
    BY Zenon DEF IInv, TypeOK
  <1>1. CASE op'[f] = op[f]
    BY <1>0, <1>1, OperationKinds, StepSpent, Zenon DEF ReportsReserved, Spent
  <1>2. CASE OpBegins(f)
    <2>1. BeginsOnGrant(f, op'[f])
      BY <1>2, BegunKinds, Zenon DEF OpBegins, Begins
    <2>2. PICK g \in GrantIds : Exists(g) /\ Reportable(f, g) /\ op'[f].id = g
      BY <2>1 DEF BeginsOnGrant
    <2>3. grants'[g] = grants[g]
      BY <1>2, Zenon DEF OpBegins, store
    <2> QED BY <2>2, <2>3, Zenon DEF Reportable, Exists, GrantStatus, Spent
  <1>3. CASE op'[f] = Idle \/ OpConsumes(f) \/ OpCorroborates(f)
    BY <1>0, <1>3 DEF OpConsumes, OpCorroborates, Operation, Idle
  <1> QED BY <1>1, <1>2, <1>3, StepOps, Zenon DEF OpStays

\* What a handler carries across another process's writes stays true of the
\* store, and a report is of a grant that was reserved (createHold, decide,
\* report, corroborateUncertainty).
THEOREM OperationsStayCurrent == Spec => [](OpsCurrent /\ ReportsReserved)
  <1>1. Init => ReportsReserved
    BY DEF Init, ReportsReserved, Idle
  <1>2. IInv /\ ReportsReserved /\ [Next]_vars => ReportsReserved'
    BY StepReports, Zenon
  <1>3. IInv => OpsCurrent
    BY Zenon DEF IInv
  <1> QED BY <1>1, <1>2, <1>3, Invariance, PTL DEF Spec
=============================================================================
