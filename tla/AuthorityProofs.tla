--------------------------- MODULE AuthorityProofs ---------------------------
(***************************************************************************)
(* One human approval, one execution: Gate implements HoldAuthority, and   *)
(* so does EffectOwner, where the gate executes some of the actions        *)
(* itself, through any number of processes, restarts and failed mirrors.   *)
(***************************************************************************)
EXTENDS EffectOwner, GateProofs

-----------------------------------------------------------------------------
\* Refinement: putting a hold opens it, winning the swap that settles it
\* resolves it, winning the swap that reserves its grant uses it, and every
\* other step is a stutter.

\* How a hold's status reads in the abstract specification.
LEMMA StateOf ==
    ASSUME NEW h \in HoldIds
    PROVE  /\ holds[h].status = "ABSENT" => AuthorityState[h] = "none"
           /\ holds[h].status = "PENDING" => AuthorityState[h] = "open"
           /\ holds[h].status = "APPROVED" => AuthorityState[h] = "granted"
           /\ holds[h].status \in Settled \ {"APPROVED"} => AuthorityState[h] = "closed"
           /\ AuthorityUses[h] = IF holds[h].status = "APPROVED"
                                 THEN reserved[holds[h].grant] ELSE 0
  BY Zenon DEF AuthorityState, AuthorityUses, Settled

\* Holds that do not change read the same.
LEMMA SameHolds ==
    ASSUME NEW h \in HoldIds, holds'[h] = holds[h]
    PROVE  /\ AuthorityState'[h] = AuthorityState[h]
           /\ reserved' = reserved => AuthorityUses'[h] = AuthorityUses[h]
  BY Zenon DEF AuthorityState, AuthorityUses

\* A function that changes at one argument.
LEMMA OneArgument ==
    ASSUME NEW S, NEW f, NEW g, NEW x \in S, NEW v,
           f = [y \in S |-> f[y]], g = [y \in S |-> g[y]],
           g[x] = v, \A y \in S \ {x} : g[y] = f[y]
    PROVE  g = [f EXCEPT ![x] = v]
  <1>1. [f EXCEPT ![x] = v] = [y \in S |-> IF y = x THEN v ELSE f[y]]
    BY Zenon
  <1>2. \A y \in S : g[y] = IF y = x THEN v ELSE f[y]
    BY Zenon
  <1> QED BY <1>1, <1>2, Zenon

\* The mappings are functions on the holds.
LEMMA MappingsAreFunctions ==
    /\ AuthorityState = [h \in HoldIds |-> AuthorityState[h]]
    /\ AuthorityUses = [h \in HoldIds |-> AuthorityUses[h]]
    /\ AuthorityState' = [h \in HoldIds |-> AuthorityState'[h]]
    /\ AuthorityUses' = [h \in HoldIds |-> AuthorityUses'[h]]
  BY Zenon DEF AuthorityState, AuthorityUses

-----------------------------------------------------------------------------
\* Steps

\* Putting a hold opens it.
LEMMA PutHoldOpens ==
    ASSUME IInv, NEW e \in Engines, PutHold(e)
    PROVE  Authority!Open(op[e].id)
  <1> DEFINE h == op[e].id
  <1>0. TypeOK /\ op[e] \in Operation /\ CreateCurrent(e)
    BY Zenon DEF IInv, OpsCurrent, TypeOK
  <1>1. h \in HoldIds /\ holds[h] = Absent /\ op[e].rec.status = "PENDING"
    BY <1>0, OperationKinds, Zenon DEF PutHold, CreateCurrent
  <1>2. holds'[h] = op[e].rec /\ \A k \in HoldIds \ {h} : holds'[k] = holds[k]
    BY <1>0, <1>1, Zenon DEF PutHold, TypeOK
  <1>3. reserved' = reserved
    BY Zenon DEF PutHold, history
  <1>4. holds[h].status = "ABSENT" /\ holds'[h].status = "PENDING"
    BY <1>1, <1>2 DEF Absent
  <1>5. AuthorityState[h] = "none" /\ AuthorityUses[h] = 0
    BY <1>1, <1>4, StateOf, Zenon
  <1>6. AuthorityState'[h] = "open" /\ AuthorityUses'[h] = 0
    BY <1>1, <1>4, Zenon DEF AuthorityState, AuthorityUses
  <1> HIDE DEF h
  <1>7. \A k \in HoldIds \ {h} :
          AuthorityState'[k] = AuthorityState[k] /\ AuthorityUses'[k] = AuthorityUses[k]
    BY <1>2, <1>3, SameHolds, Zenon
  <1>8. AuthorityState' = [AuthorityState EXCEPT ![h] = "open"]
    BY <1>1, <1>6, <1>7, MappingsAreFunctions, OneArgument, Zenon
  <1>9. AuthorityUses' = AuthorityUses
    <2>1. \A k \in HoldIds : AuthorityUses'[k] = AuthorityUses[k]
      BY <1>5, <1>6, <1>7, Zenon
    <2> QED BY <2>1, MappingsAreFunctions, Zenon
  <1>10. Authority!Open(h)
    BY <1>5, <1>8, <1>9, Zenon DEF Authority!Open
  <1> QED BY <1>10, Zenon DEF h

\* Winning the swap that settles a hold resolves it.
LEMMA SettleHoldResolves ==
    ASSUME IInv, NEW e \in Engines, SettleHold(e), SettleWins(op[e].id)
    PROVE  op[e].id \in HoldIds /\ Authority!Resolve(op[e].id)
  <1> DEFINE o == op[e]
             h == op[e].id
             s == IF o.next.status = "APPROVED" THEN "granted" ELSE "closed"
  <1>0. TypeOK /\ o \in Operation /\ SettleCurrent(e) /\ ReservedOnce
    BY Zenon DEF IInv, OpsCurrent, TypeOK
  <1>1. /\ h \in HoldIds /\ o.next.status \in Settled /\ o.next.grant = o.gid
        /\ o.gid \in GrantIds \cup {None}
        /\ o.next.status = "APPROVED" => o.gid \in GrantIds /\ grants[o.gid] = Absent
    BY <1>0, OperationKinds, Zenon DEF SettleHold, SettleCurrent
  <1>2. holds'[h] = o.next /\ \A k \in HoldIds \ {h} : holds'[k] = holds[k]
    BY <1>0, <1>1, Zenon DEF SettleHold, TypeOK
  <1>3. reserved' = reserved
    BY Zenon DEF SettleHold
  <1>4. holds[h].status = "PENDING"
    BY Zenon DEF SettleWins
  <1>5. AuthorityState[h] = "open" /\ AuthorityUses[h] = 0
    BY <1>1, <1>4, StateOf, Zenon
  <1>6. AuthorityState'[h] = s
    BY <1>1, <1>2, Zenon DEF AuthorityState, Settled
  <1>7. AuthorityUses'[h] = 0
    <2>1. o.next.status = "APPROVED" => reserved[o.gid] = 0
      BY <1>0, <1>1 DEF ReservedOnce, Absent
    <2> QED BY <1>1, <1>2, <1>3, <2>1, Zenon DEF AuthorityUses
  <1>a. s \in {"granted", "closed"}
    BY Zenon
  <1> HIDE DEF h, s
  <1>8. \A k \in HoldIds \ {h} :
          AuthorityState'[k] = AuthorityState[k] /\ AuthorityUses'[k] = AuthorityUses[k]
    BY <1>2, <1>3, SameHolds, Zenon
  <1>9. AuthorityState' = [AuthorityState EXCEPT ![h] = s]
    BY <1>1, <1>6, <1>8, MappingsAreFunctions, OneArgument, Zenon
  <1>10. AuthorityUses' = AuthorityUses
    <2>1. \A k \in HoldIds : AuthorityUses'[k] = AuthorityUses[k]
      BY <1>5, <1>7, <1>8, Zenon
    <2> QED BY <2>1, MappingsAreFunctions, Zenon
  <1>11. Authority!Resolve(h)
    BY <1>a, <1>5, <1>9, <1>10, Zenon DEF Authority!Resolve
  <1> QED BY <1>1, <1>11, Zenon DEF h

\* Winning the swap that reserves a grant uses the approval of its hold.
LEMMA ClaimStatusUses ==
    ASSUME IInv, NEW e \in Engines, ClaimStatus(e), ClaimStatusWins(op[e].id)
    PROVE  /\ grants[op[e].id].hold \in HoldIds
           /\ Authority!Use(grants[op[e].id].hold)
  <1> DEFINE g == op[e].id
             h == grants[op[e].id].hold
  <1>0. TypeOK /\ op[e] \in Operation /\ ReservedOnce /\ GrantsMatchApprovals
    BY Zenon DEF IInv, TypeOK
  <1>1. g \in GrantIds /\ grants[g].status = "UNUSED"
    BY <1>0, OperationKinds, Zenon DEF ClaimStatus, ClaimStatusWins
  <1>2. grants[g] \in GrantRecord /\ h \in HoldIds
    BY <1>0, <1>1, KnownRecords, Zenon DEF TypeOK, GrantStatus, GrantRecord
  <1>3. holds[h].status = "APPROVED" /\ holds[h].grant = g
    BY <1>0, <1>1, Zenon DEF GrantsMatchApprovals, Exists, GrantStatus
  <1>4. \A k \in HoldIds \ {h} : holds[k].status = "APPROVED" =>
          holds[k].grant \in GrantIds /\ holds[k].grant # g
    BY <1>0, Zenon DEF GrantsMatchApprovals
  <1>5. holds' = holds /\ reserved' = [reserved EXCEPT ![g] = @ + 1]
    BY Zenon DEF ClaimStatus
  <1>6. reserved[g] = 0 /\ reserved'[g] = 1
    BY <1>0, <1>1, <1>5 DEF ReservedOnce, TypeOK
  <1>7. \A k \in GrantIds \ {g} : reserved'[k] = reserved[k]
    BY <1>0, <1>5, Zenon DEF TypeOK
  <1> HIDE DEF g, h
  <1>8. AuthorityState[h] = "granted" /\ AuthorityUses[h] = 0
    BY <1>2, <1>3, <1>6, StateOf, Zenon
  <1>9. AuthorityUses'[h] = 1
    BY <1>2, <1>3, <1>5, <1>6, Zenon DEF AuthorityUses
  <1>10. \A k \in HoldIds \ {h} : AuthorityUses'[k] = AuthorityUses[k]
    BY <1>4, <1>5, <1>7, Zenon DEF AuthorityUses
  <1>11. AuthorityUses' = [AuthorityUses EXCEPT ![h] = 1]
    BY <1>2, <1>9, <1>10, MappingsAreFunctions, OneArgument, Zenon
  <1>12. AuthorityState' = AuthorityState
    BY <1>5, Zenon DEF AuthorityState
  <1>13. Authority!Use(h)
    BY <1>8, <1>11, <1>12, Zenon DEF Authority!Use
  <1> QED BY <1>2, <1>13, Zenon DEF h

\* A step that changes neither the holds nor the reservations is a stutter.
LEMMA OthersStutter ==
    ASSUME holds' = holds, reserved' = reserved
    PROVE  UNCHANGED <<AuthorityState, AuthorityUses>>
  BY Zenon DEF AuthorityState, AuthorityUses

\* Every step of the gate is a step of the abstract specification or a stutter.
LEMMA StepSimulation ==
    ASSUME IInv, [Next]_vars
    PROVE  [Authority!Next]_<<AuthorityState, AuthorityUses>>
  <1>1. ASSUME NEW e \in Engines, PutHold(e)
        PROVE  Authority!Next
    <2>1. op[e].id \in HoldIds
      BY <1>1, OperationKinds, Zenon DEF PutHold, IInv, TypeOK
    <2> QED BY <1>1, <2>1, PutHoldOpens, Zenon DEF Authority!Next
  <1>2. ASSUME NEW e \in Engines, SettleHold(e), SettleWins(op[e].id)
        PROVE  Authority!Next
    BY <1>2, SettleHoldResolves, Zenon DEF Authority!Next
  <1>3. ASSUME NEW e \in Engines, ClaimStatus(e), ClaimStatusWins(op[e].id)
        PROVE  Authority!Next
    BY <1>3, ClaimStatusUses, Zenon DEF Authority!Next
  <1>4. CASE holds' = holds /\ reserved' = reserved
    BY <1>4, OthersStutter, Zenon
  <1>5. ASSUME NEW e \in Engines, SettleHold(e), ~SettleWins(op[e].id)
        PROVE  holds' = holds /\ reserved' = reserved
    BY <1>5, Zenon DEF SettleHold, store
  <1>6. ASSUME NEW e \in Engines, ClaimStatus(e), ~ClaimStatusWins(op[e].id)
        PROVE  holds' = holds /\ reserved' = reserved
    BY <1>6, Zenon DEF ClaimStatus
  <1>7. ASSUME NEW e \in Engines,
               ClaimReported(e) \/ PutConsumption(e) \/ PutHint(e) \/ Corroborate(e)
        PROVE  holds' = holds /\ reserved' = reserved
    BY <1>7, Zenon DEF ClaimReported, PutConsumption, PutHint, Corroborate, history
  <1>8. CASE \E e \in Engines : Write(e)
    BY <1>1, <1>2, <1>3, <1>4, <1>5, <1>6, <1>7, <1>8, Zenon DEF Write
  <1>9. CASE UNCHANGED <<store, history>>
    BY <1>4, <1>9, Zenon DEF store, history
  <1> QED BY <1>8, <1>9, NextStore, Zenon

\* Any number of gate processes over one store implement single-use authority:
\* a hold is resolved once and its approval is used once (decide, settleExpiry,
\* cancelLocalStateLost, reserve).
THEOREM Refinement == Spec => ImplementsAuthority
  <1>1. Init => Authority!Init
    <2> SUFFICES ASSUME Init PROVE Authority!Init
      BY Zenon
    <2>1. \A h \in HoldIds : holds[h].status = "ABSENT"
      BY Zenon DEF Init, Absent
    <2>2. \A h \in HoldIds : AuthorityState[h] = "none" /\ AuthorityUses[h] = 0
      BY <2>1, StateOf, Zenon
    <2> QED BY <2>2, MappingsAreFunctions, Zenon DEF Authority!Init
  <1>2. IInv /\ [Next]_vars => [Authority!Next]_<<AuthorityState, AuthorityUses>>
    BY StepSimulation, Zenon
  <1> QED BY <1>1, <1>2, Invariance, PTL DEF Spec, ImplementsAuthority, Authority!Spec


-----------------------------------------------------------------------------
\* Effect-owned actions: the invariant

\* The boot of a process is one in use, and no two owners have the same.
BootsInv ==
    /\ \A e \in Engines : trust[e].boot \in booted
    /\ \A e, f \in OwnerEngines : trust[e].boot = trust[f].boot => e = f

\* A row is of an approved hold and its grant, one for each hold.  A transfer was
\* executed at most once, and a process that is up under the boot of its hold has
\* its row.
LedgerInv ==
    /\ rows \in [OwnerEngines -> SUBSET Row]
    /\ moved \in [HoldIds -> {0, 1}]
    /\ \A e \in OwnerEngines : \A r \in rows[e] :
          /\ holds[r.hold].status = "APPROVED" /\ holds[r.hold].grant = r.grant
          /\ \A s \in rows[e] : s.hold = r.hold => s = r
    /\ \A h \in HoldIds : moved[h] = 1 =>
          /\ holds[h].status = "APPROVED" /\ holds[h].body \in Owned
          /\ holds[h].boot \in booted
          /\ \A e \in OwnerEngines : trust[e].boot = holds[h].boot => Recorded(e, h) # {}

\* The grant of an effect-owned action.
OwnedGrant(g) == holds[grants[g].hold].body \in Owned

\* No wrapper reserves such a grant, and it reads consumed only once its transfer
\* was executed.
GrantMirrors(g) ==
    Exists(g) /\ OwnedGrant(g) =>
        /\ grants[g].status # "RESERVED"
        /\ reserved[g] = 0
        /\ grants[g].status = "REPORTED" \/ grants[g].consumption = "signed" =>
              moved[grants[g].hold] = 1

\* Nor will what a handler carries make it read otherwise.
OpMirrors(o) ==
    /\ o.kind \in {"reserve", "hint", "corroborate"} => ~OwnedGrant(o.id)
    /\ o.kind \in {"report", "consume"} /\ OwnedGrant(o.id) => moved[grants[o.id].hold] = 1
    /\ o.kind = "consume" => o.rec.status = "REPORTED"
    /\ o.kind = "settle" /\ o.gid # None => o.grant.consumption = "null"

MirrorInv ==
    /\ \A g \in GrantIds : GrantMirrors(g)
    /\ \A e \in Engines : OpMirrors(op[e])

OwnerInv == IInv /\ BootsInv /\ LedgerInv /\ MirrorInv

-----------------------------------------------------------------------------
\* The gate's own steps

\* A settled hold does not change.
LEMMA SettledStays ==
    ASSUME IInv, [Next]_vars, NEW h \in HoldIds, holds[h].status \in Settled
    PROVE  holds'[h] = holds[h]
  <1>1. TypeOK /\ OpsCurrent /\ holds[h] # Absent
    BY DEF IInv, Settled, Absent
  <1>2. ASSUME NEW e \in Engines, Write(e)
        PROVE  holds'[h] = holds[h]
    BY <1>1, <1>2, WriteGrows, Zenon DEF HoldsGrow
  <1> QED BY <1>2, NextStore, Zenon DEF store

\* A grant stays the grant of its approved hold.
LEMMA GrantStays ==
    ASSUME IInv, [Next]_vars, NEW g \in GrantIds, Exists(g)
    PROVE  /\ grants[g].hold \in HoldIds
           /\ holds[grants[g].hold].status = "APPROVED"
           /\ holds'[grants[g].hold] = holds[grants[g].hold]
           /\ grants'[g].hold = grants[g].hold
           /\ OwnedGrant(g)' <=> OwnedGrant(g)
  <1>1. TypeOK /\ OpsCurrent /\ GrantsMatchApprovals
    BY Zenon DEF IInv
  <1>2. grants[g] \in GrantRecord /\ grants[g] # Absent
    BY <1>1, KnownRecords, Zenon DEF TypeOK, Exists
  <1>3. grants[g].hold \in HoldIds /\ holds[grants[g].hold].status = "APPROVED"
    BY <1>1, <1>2, Zenon DEF GrantRecord, GrantsMatchApprovals
  <1>4. holds'[grants[g].hold] = holds[grants[g].hold]
    BY <1>3, SettledStays, Zenon DEF Settled
  <1>5. ASSUME NEW e \in Engines, Write(e)
        PROVE  grants'[g].hold = grants[g].hold
    BY <1>1, <1>2, <1>5, WriteGrows, Zenon DEF GrantsGrow
  <1>6. grants'[g].hold = grants[g].hold
    BY <1>5, NextStore, Zenon DEF store
  <1> QED BY <1>3, <1>4, <1>6, Zenon DEF OwnedGrant

\* Only a reservation in progress counts one.
LEMMA StepReserves ==
    ASSUME IInv, [Next]_vars, NEW g \in GrantIds, reserved'[g] # reserved[g]
    PROVE  \E e \in Engines : op[e].kind = "reserve" /\ op[e].id = g
  <1>1. PICK e \in Engines : Write(e)
    BY NextStore, Zenon DEF history
  <1>2. ClaimStatus(e) /\ ClaimStatusWins(op[e].id)
    BY <1>1, Zenon DEF Write, PutHold, SettleHold, ClaimStatus, ClaimReported, PutConsumption,
                       PutHint, Corroborate, history
  <1>3. reserved' = [reserved EXCEPT ![op[e].id] = @ + 1] /\ op[e].kind = "reserve"
    BY <1>2, Zenon DEF ClaimStatus
  <1> QED BY <1>3, Zenon DEF IInv, TypeOK

\* What the store says of an effect-owned grant stays true when the gate writes.
LEMMA StepGrantMirrors ==
    ASSUME IInv, MirrorInv, [Next]_vars, moved' = moved, NEW g \in GrantIds
    PROVE  GrantMirrors(g)'
  <1> SUFFICES ASSUME Exists(g)', OwnedGrant(g)'
               PROVE  /\ grants'[g].status # "RESERVED"
                      /\ reserved'[g] = 0
                      /\ grants'[g].status = "REPORTED" \/ grants'[g].consumption = "signed" =>
                            moved[grants'[g].hold] = 1
    BY Zenon DEF GrantMirrors
  <1>0. TypeOK /\ OpsCurrent /\ ReservedOnce
    BY Zenon DEF IInv
  <1>1. grants'[g] # grants[g] => \E e \in Engines : Write(e) /\ GrantWritten(e, g)
    BY <1>0, NextStore, WriteGrants, Zenon DEF store
  <1>2. CASE Exists(g)
    <2>1. OwnedGrant(g) /\ GrantMirrors(g) /\ grants'[g].hold = grants[g].hold
      BY <1>2, GrantStays, Zenon DEF MirrorInv
    <2>2. /\ grants[g] \in GrantRecord /\ grants[g] # Absent
      BY <1>0, <1>2, KnownRecords, Zenon DEF TypeOK, Exists
    <2>3. \A e \in Engines : op[e].kind \in {"reserve", "hint", "corroborate"} => op[e].id # g
      BY <2>1, Zenon DEF MirrorInv, OpMirrors
    <2>4. reserved'[g] = 0
      BY <1>2, <2>1, <2>3, StepReserves, Zenon DEF GrantMirrors
    <2>5. CASE grants'[g] = grants[g]
      BY <1>2, <2>1, <2>4, <2>5, Zenon DEF GrantMirrors
    <2>6. ASSUME NEW e \in Engines, GrantWritten(e, g)
          PROVE  grants'[g].status = "REPORTED" /\ moved[grants[g].hold] = 1
      <3>1. op[e].id = g /\ OpMirrors(op[e]) /\ op[e] \in Operation
        BY <1>0, <2>2, <2>6, Zenon DEF GrantWritten, MirrorInv, TypeOK
      <3>2. CASE op[e].kind = "report"
        <4>1. grants'[g] = [grants[g] EXCEPT !.status = "REPORTED", !.reportedAt = "set"]
          BY <2>6, <3>2 DEF GrantWritten
        <4>2. grants'[g].status = "REPORTED"
          BY <2>2, <4>1 DEF GrantRecord
        <4> QED BY <2>1, <3>1, <3>2, <4>2, Zenon DEF OpMirrors
      <3>3. CASE op[e].kind = "consume"
        <4>1. grants'[g] = [op[e].rec EXCEPT !.consumption = "signed"]
          BY <2>6, <3>3 DEF GrantWritten
        <4>2. op[e].rec \in GrantRecord /\ op[e].rec.status = "REPORTED"
          BY <3>1, <3>3, OperationKinds, Zenon DEF OpMirrors
        <4>3. grants'[g].status = "REPORTED"
          BY <4>1, <4>2 DEF GrantRecord
        <4> QED BY <2>1, <3>1, <3>3, <4>3, Zenon DEF OpMirrors
      <3> QED BY <2>2, <2>3, <2>6, <3>2, <3>3, Zenon DEF GrantWritten
    <2> QED BY <1>1, <2>1, <2>4, <2>5, <2>6
  <1>3. CASE ~Exists(g)
    <2>1. grants'[g] # grants[g]
      BY <1>3, Zenon DEF Exists
    <2>2. PICK e \in Engines : GrantWritten(e, g)
      BY <1>1, <2>1, Zenon
    <2>3. \A f \in Engines : op[f].kind \in {"reserve", "report", "hint", "corroborate", "consume"} =>
            op[f].id # g
      BY <1>0, <1>3, Zenon DEF OpsCurrent, GrantCurrent, Exists, GrantStatus
    <2>4. op[e].kind = "settle" /\ op[e].gid = g /\ grants[g] = Absent /\ grants'[g] = op[e].grant
      BY <2>2, <2>3, Zenon DEF GrantWritten
    <2>5. op[e].gid # None
      BY <2>4, ConstantsAssumption, Zenon DEF ConstantsAssumption
    <2>6. op[e].grant.status = "UNUSED" /\ op[e].grant.consumption = "null"
      BY <1>0, <2>4, <2>5, Zenon DEF OpsCurrent, SettleCurrent, MirrorInv, OpMirrors
    <2>7. reserved'[g] = 0
      BY <1>0, <1>3, <2>3, StepReserves, Zenon DEF ReservedOnce, Exists, GrantStatus
    <2> QED BY <2>4, <2>6, <2>7
  <1> QED BY <1>2, <1>3, Zenon

\* What the handlers carry stays true of effect-owned grants, too.
LEMMA StepOpMirrors ==
    ASSUME IInv, MirrorInv, [Next]_vars, moved' = moved, NEW f \in Engines
    PROVE  OpMirrors(op[f])'
  <1>0. TypeOK /\ OpsCurrent /\ op[f] \in Operation /\ GrantCurrent(f) /\ OpMirrors(op[f])
    BY Zenon DEF IInv, TypeOK, OpsCurrent, MirrorInv
  <1>1. ASSUME op[f].kind \in {"reserve", "report", "hint", "corroborate", "consume"},
               op'[f].id = op[f].id
        PROVE  /\ OwnedGrant(op[f].id)' <=> OwnedGrant(op[f].id)
               /\ grants'[op'[f].id].hold = grants[op[f].id].hold
    <2>1. PICK g \in GrantIds : g = op[f].id
      BY <1>0, <1>1, OperationKinds, Zenon
    <2>2. Exists(g)
      BY <1>0, <1>1, <2>1, Zenon DEF GrantCurrent, Exists, GrantStatus
    <2>3. (OwnedGrant(g)' <=> OwnedGrant(g)) /\ grants'[g].hold = grants[g].hold
      BY <2>2, GrantStays, Zenon
    <2> QED BY <1>1, <2>1, <2>3, Zenon DEF OwnedGrant
  <1>2. CASE op'[f] = op[f]
    BY <1>0, <1>1, <1>2, Zenon DEF OpMirrors, OwnedGrant
  <1>3. CASE op'[f] = Idle
    BY <1>3 DEF OpMirrors, Idle
  <1>4. CASE OpBegins(f)
    <2>0. holds' = holds /\ grants' = grants
      BY <1>4, Zenon DEF OpBegins, store
    <2>1. CASE BeginsCreate(f, op'[f])
      BY <2>1, BegunKinds DEF OpMirrors
    <2>2. CASE BeginsSettlement(f, op'[f])
      <3>1. op'[f].kind = "settle" /\ op'[f].gid = None
        BY <2>2 DEF BeginsSettlement, Settlement
      <3> QED BY <3>1 DEF OpMirrors
    <2>3. CASE BeginsApproval(f, op'[f])
      <3>1. op'[f].kind = "settle" /\ op'[f].grant.consumption = "null"
        BY <2>3 DEF BeginsApproval, Approval, IssueGrant
      <3> QED BY <3>1 DEF OpMirrors
    <2>4. CASE BeginsOnGrant(f, op'[f])
      <3>1. PICK g \in GrantIds :
               /\ Exists(g) /\ op'[f].id = g
               /\ op'[f].kind \in {"reserve", "report", "hint", "corroborate"}
               /\ op'[f].kind = "reserve" => Reservable(f, g)
               /\ op'[f].kind \in {"report", "hint"} => Reportable(f, g)
               /\ op'[f].kind = "corroborate" => grants[g].status = "RESERVED"
        BY <2>4 DEF BeginsOnGrant
      <3>2. GrantMirrors(g)
        BY Zenon DEF MirrorInv
      <3>3. ~OwnedGrant(g)
        BY <3>1, <3>2, Zenon DEF Reservable, Reportable, OwnedGrant, GrantMirrors
      <3>4. ~OwnedGrant(op[f].id)'
        BY <2>0, <3>1, <3>3, Zenon DEF OwnedGrant
      <3>5. op'[f].kind \notin {"consume", "settle"}
        BY <3>1
      <3> QED BY <3>4, <3>5, Zenon DEF OpMirrors
    <2> QED BY <1>4, <2>1, <2>2, <2>3, <2>4, Zenon DEF OpBegins, Begins
  <1>5. CASE OpConsumes(f)
    <2>1. op[f].kind = "report" /\ op'[f].kind = "consume" /\ op'[f].id = op[f].id
          /\ op'[f].rec.status = "REPORTED"
      BY <1>5 DEF OpConsumes
    <2>2. OwnedGrant(op[f].id)' => moved[grants'[op'[f].id].hold] = 1
      BY <1>0, <1>1, <2>1, Zenon DEF OpMirrors, OwnedGrant
    <2> QED BY <2>1, <2>2 DEF OpMirrors
  <1>6. CASE OpCorroborates(f)
    <2>1. op[f].kind = "hint" /\ op'[f].kind = "corroborate" /\ op'[f].id = op[f].id
      BY <1>0, <1>6 DEF OpCorroborates, Operation, Idle
    <2>2. ~OwnedGrant(op[f].id)'
      BY <1>0, <1>1, <2>1, Zenon DEF OpMirrors, OwnedGrant
    <2> QED BY <2>1, <2>2 DEF OpMirrors
  <1> QED BY <1>2, <1>3, <1>4, <1>5, <1>6, StepOps, Zenon DEF OpStays

\* So the gate's steps, restarts included, keep the mirror true.
LEMMA StepMirrors ==
    ASSUME IInv, MirrorInv, [Next]_vars, moved' = moved
    PROVE  MirrorInv'
  BY StepGrantMirrors, StepOpMirrors, Zenon DEF MirrorInv

\* A step of the handlers or of the clock leaves the trust roots alone.
LEMMA GateStepTrust ==
    ASSUME GateStep
    PROVE  Next /\ trust' = trust
  <1>1. ASSUME NEW e \in Engines, Request(e) \/ Sweep(e)
        PROVE  trust' = trust
    BY <1>1, RequestBegins, Zenon DEF Begin
  <1>2. ASSUME NEW e \in Engines, Write(e) \/ SignerFails(e)
        PROVE  trust' = trust
    BY <1>2, Zenon DEF Write, PutHold, SettleHold, ClaimStatus, ClaimReported, PutConsumption,
                       PutHint, Corroborate, SignerFails, Finish
  <1>3. CASE Tick
    BY <1>3, Zenon DEF Tick, Next
  <1> QED BY <1>1, <1>2, <1>3, Zenon DEF GateStep, Next

\* A gate step that leaves the ledgers alone keeps what they say.
LEMMA GateKeepsOwner ==
    ASSUME OwnerInv, [Next]_vars, trust' = trust, UNCHANGED ownerVars
    PROVE  OwnerInv'
  <1>0. IInv /\ BootsInv /\ LedgerInv /\ MirrorInv
    BY Zenon DEF OwnerInv
  <1>1. rows' = rows /\ booted' = booted /\ moved' = moved
    BY Zenon DEF ownerVars
  <1>2. IInv' /\ MirrorInv'
    BY <1>0, <1>1, NextInv, StepMirrors, ConstantsAssumption, Zenon
  <1>3. BootsInv'
    BY <1>0, <1>1, Zenon DEF BootsInv
  <1>4. \A h \in HoldIds : holds[h].status = "APPROVED" => holds'[h] = holds[h]
    BY <1>0, SettledStays, Zenon DEF Settled
  <1>5. \A e \in OwnerEngines : \A r \in rows[e] : r.hold \in HoldIds
    BY <1>0 DEF LedgerInv, Row
  <1>6. \A h \in HoldIds, e \in OwnerEngines : Recorded(e, h)' = Recorded(e, h)
    BY <1>1, Zenon DEF Recorded
  <1>7. LedgerInv'
    BY <1>0, <1>1, <1>4, <1>5, <1>6, Zenon DEF LedgerInv
  <1> QED BY <1>2, <1>3, <1>7, Zenon DEF OwnerInv

\* A restart, under a boot of its own for an owner, does too.
LEMMA RestartKeepsOwner ==
    ASSUME OwnerInv, NEW e \in Engines, NEW t \in BootTrust, RestartOwner(e, t)
    PROVE  OwnerInv'
  <1>0. /\ IInv /\ BootsInv /\ LedgerInv /\ MirrorInv
        /\ trust \in [Engines -> Trust] /\ OwnerEngines \subseteq Engines
    BY ConstantsAssumption, Zenon DEF OwnerInv, IInv, TypeOK, ConstantsAssumption
  <1>1. Next /\ moved' = moved /\ holds' = holds /\ booted' = booted \cup {t.boot}
    BY Zenon DEF RestartOwner, Restart, Next, store
  <1>2. IInv' /\ MirrorInv'
    BY <1>0, <1>1, NextInv, StepMirrors, ConstantsAssumption, Zenon
  <1>3. trust'[e] = t /\ \A f \in Engines \ {e} : trust'[f] = trust[f]
    BY <1>0, Zenon DEF RestartOwner, Restart
  <1>4. e \in OwnerEngines => t.boot \notin booted
    BY Zenon DEF RestartOwner, BootAllowed
  <1>5. BootsInv'
    <2>1. \A f \in Engines : trust'[f].boot \in booted'
      BY <1>0, <1>1, <1>3, Zenon DEF BootsInv
    <2>2. ASSUME NEW f \in OwnerEngines, NEW g \in OwnerEngines, trust'[f].boot = trust'[g].boot
          PROVE  f = g
      BY <1>0, <1>3, <1>4, <2>2, Zenon DEF BootsInv
    <2> QED BY <2>1, <2>2, Zenon DEF BootsInv
  <1>6. /\ rows' \in [OwnerEngines -> SUBSET Row]
        /\ \A f \in OwnerEngines : rows'[f] = IF f = e THEN {} ELSE rows[f]
    BY <1>0, Zenon DEF RestartOwner, LedgerInv
  <1>7. ASSUME NEW h \in HoldIds, moved[h] = 1, NEW f \in OwnerEngines,
               trust'[f].boot = holds[h].boot
        PROVE  Recorded(f, h)' # {}
    <2>1. holds[h].boot \in booted
      BY <1>0, <1>7, Zenon DEF LedgerInv
    <2>2. f # e
      BY <1>3, <1>4, <1>7, <2>1, Zenon
    <2>3. Recorded(f, h) # {}
      BY <1>0, <1>3, <1>7, <2>2, Zenon DEF LedgerInv
    <2> QED BY <1>6, <2>2, <2>3, Zenon DEF Recorded
  <1>8. LedgerInv'
    <2>1. \A f \in OwnerEngines : rows'[f] \subseteq rows[f]
      BY <1>6, Zenon
    <2>2. \A f \in OwnerEngines : \A r \in rows'[f] :
            /\ holds'[r.hold].status = "APPROVED" /\ holds'[r.hold].grant = r.grant
            /\ \A s \in rows'[f] : s.hold = r.hold => s = r
      BY <1>0, <1>1, <2>1, Zenon DEF LedgerInv
    <2>3. \A h \in HoldIds : moved'[h] = 1 =>
            holds'[h].status = "APPROVED" /\ holds'[h].body \in Owned /\ holds'[h].boot \in booted'
      BY <1>0, <1>1, Zenon DEF LedgerInv
    <2>4. moved' \in [HoldIds -> {0, 1}]
      BY <1>0, <1>1, Zenon DEF LedgerInv
    <2> QED BY <1>1, <1>6, <1>7, <2>2, <2>3, <2>4, Zenon DEF LedgerInv
  <1> QED BY <1>2, <1>5, <1>8, Zenon DEF OwnerInv

-----------------------------------------------------------------------------
\* The owner's steps

\* What commit has checked when it commits: the hold is approved and of the boot
\* of this process, which has no row for it, so it was never executed.
LEMMA CommitChecks ==
    ASSUME OwnerInv, NEW e \in OwnerEngines, NEW a, NEW h \in HoldIds, CommitHold(e, a, h)
    PROVE  /\ holds[h].status = "APPROVED" /\ holds[h].body \in Owned
           /\ holds[h].boot = trust[e].boot /\ holds[h].boot \in booted
           /\ holds[h].grant \in GrantIds /\ Exists(holds[h].grant)
           /\ grants[holds[h].grant].hold = h
           /\ Recorded(e, h) = {}
           /\ moved[h] = 0
  <1>0. /\ IInv /\ GrantsMatchApprovals /\ BootsInv /\ LedgerInv /\ e \in Engines
        /\ holds[h].body \in Owned /\ CommitAnswer(e, h) = "COMMITS"
    BY ConstantsAssumption, Zenon DEF OwnerInv, IInv, CommitHold, ConstantsAssumption
  <1>1. Recorded(e, h) = {}
    <2> SUFFICES ASSUME Recorded(e, h) # {} PROVE FALSE
      OBVIOUS
    <2> DEFINE w == CHOOSE r \in Recorded(e, h) : TRUE
    <2>1. w \in rows[e]
      BY Zenon DEF Recorded
    <2>2. w.outcome # "COMMITS"
      BY <1>0, <2>1 DEF LedgerInv, Row
    <2>3. CommitAnswer(e, h) \in {w.outcome, "EFFECT_AUTHORITY_CONSUMED"}
      BY Zenon DEF CommitAnswer
    <2> HIDE DEF w
    <2> QED BY <1>0, <2>2, <2>3
  <1>2. holds[h].status = "APPROVED" /\ EffectAuthority(e, h)
    BY <1>0, <1>1 DEF CommitAnswer
  <1>3. holds[h].boot = trust[e].boot /\ trust[e].boot \in booted
    BY <1>0, <1>2, Zenon DEF EffectAuthority, OfThisBoot, BootsInv
  <1>4. moved[h] # 1 /\ moved[h] \in {0, 1}
    BY <1>0, <1>1, <1>3, Zenon DEF LedgerInv
  <1> QED BY <1>0, <1>1, <1>2, <1>3, <1>4 DEF GrantsMatchApprovals

\* A commit changes the gate's state only by the report its mirror begins.
LEMMA CommitKeepsGate ==
    ASSUME OwnerInv, NEW e \in OwnerEngines, NEW a, NEW h \in HoldIds, CommitHold(e, a, h)
    PROVE  IInv'
  <1> DEFINE x == [kind |-> "report", id |-> holds[h].grant]
  <1>0. /\ IInv /\ TypeOK /\ OpsCurrent /\ e \in Engines
        /\ holds[h].grant \in GrantIds /\ Exists(holds[h].grant)
    BY CommitChecks, ConstantsAssumption, Zenon DEF OwnerInv, IInv, ConstantsAssumption
  <1>1. UNCHANGED <<store, history>> /\ (Begin(e, x) \/ UNCHANGED vars)
    BY Zenon DEF CommitHold, Begin, vars
  <1>2. CASE UNCHANGED vars
    BY <1>0, <1>2, NextInv, ConstantsAssumption, Zenon
  <1>3. CASE Begin(e, x)
    <2>1. x \in Operation /\ x.kind = "report" /\ x.id = holds[h].grant
      BY <1>0 DEF Operation
    <2> HIDE DEF x
    <2>2. TypeOK'
      BY <1>0, <1>3, <2>1, BeginType, Zenon
    <2>3. x.kind \notin {"hint", "corroborate"}
      BY <2>1
    <2>4. OpsCurrent'
      BY <1>0, <1>3, <2>1, <2>2, <2>3, GrantOpCurrent, Zenon
    <2> QED BY <1>0, <1>1, <2>2, <2>4, Zenon DEF IInv, store, history, GrantsMatchApprovals,
                ShownIsStored, ReservedOnce, ResolvedByItsRoot, Exists
  <1> QED BY <1>1, <1>2, <1>3, Zenon

\* A commit writes the one row of its hold.
LEMMA CommitKeepsLedger ==
    ASSUME OwnerInv, NEW e \in OwnerEngines, NEW a, NEW h \in HoldIds, CommitHold(e, a, h)
    PROVE  BootsInv' /\ LedgerInv'
  <1>0. BootsInv /\ LedgerInv /\ rows \in [OwnerEngines -> SUBSET Row] /\ moved \in [HoldIds -> {0, 1}]
    BY Zenon DEF OwnerInv, LedgerInv
  <1>a. /\ holds[h].status = "APPROVED" /\ holds[h].body \in Owned
        /\ holds[h].boot = trust[e].boot /\ holds[h].boot \in booted
        /\ holds[h].grant \in GrantIds /\ Recorded(e, h) = {} /\ moved[h] = 0
    BY CommitChecks
  <1>1. trust' = trust /\ booted' = booted /\ holds' = holds
    BY Zenon DEF CommitHold, store
  <1>2. PICK w \in Row :
          /\ w.hold = h /\ w.grant = holds[h].grant
          /\ rows' = [rows EXCEPT ![e] = @ \cup {w}]
    <2> DEFINE w == [hold |-> h, grant |-> holds[h].grant, outcome |-> Outcome(e, holds[h].body)]
    <2>1. rows' = [rows EXCEPT ![e] = @ \cup {w}]
      BY Zenon DEF CommitHold
    <2>2. w \in Row /\ w.hold = h /\ w.grant = holds[h].grant
      BY <1>a DEF Row, Outcome
    <2> QED BY <2>1, <2>2, Zenon
  <1>3. /\ rows'[e] = rows[e] \cup {w}
        /\ \A f \in OwnerEngines \ {e} : rows'[f] = rows[f]
        /\ rows' \in [OwnerEngines -> SUBSET Row]
    BY <1>0, <1>2, Zenon
  <1>4. moved' = [moved EXCEPT ![h] = @ + 1] \/ moved' = moved
    BY Zenon DEF CommitHold
  <1>5. /\ moved' \in [HoldIds -> {0, 1}]
        /\ \A k \in HoldIds \ {h} : moved'[k] = moved[k]
    BY <1>0, <1>4, <1>a
  <1>6. BootsInv'
    BY <1>0, <1>1, Zenon DEF BootsInv
  <1>7. ASSUME NEW f \in OwnerEngines, NEW r \in rows'[f]
        PROVE  /\ holds[r.hold].status = "APPROVED" /\ holds[r.hold].grant = r.grant
               /\ \A s \in rows'[f] : s.hold = r.hold => s = r
    <2>1. CASE f # e
      BY <1>0, <1>3, <1>7, <2>1, Zenon DEF LedgerInv
    <2>2. CASE f = e
      <3>1. \A s \in rows[e] : s.hold # h
        BY <1>a, Zenon DEF Recorded
      <3> QED BY <1>0, <1>a, <1>2, <1>3, <1>7, <2>2, <3>1, Zenon DEF LedgerInv
    <2> QED BY <2>1, <2>2, Zenon
  <1>8. ASSUME NEW k \in HoldIds, moved'[k] = 1
        PROVE  /\ holds[k].status = "APPROVED" /\ holds[k].body \in Owned
               /\ holds[k].boot \in booted
               /\ \A f \in OwnerEngines : trust[f].boot = holds[k].boot => Recorded(f, k)' # {}
    <2>1. CASE k = h
      <3>1. ASSUME NEW f \in OwnerEngines, trust[f].boot = holds[k].boot
            PROVE  Recorded(f, k)' # {}
        <4>1. f = e
          BY <1>0, <2>1, <3>1, <1>a, Zenon DEF BootsInv
        <4>2. w \in Recorded(f, k)'
          BY <1>2, <1>3, <2>1, <4>1, Zenon DEF Recorded
        <4> QED BY <4>2, Zenon
      <3> QED BY <2>1, <3>1, <1>a, Zenon
    <2>2. CASE k # h
      <3>1. moved[k] = 1
        BY <1>5, <1>8, <2>2, Zenon
      <3>2. \A f \in OwnerEngines : Recorded(f, k) \subseteq Recorded(f, k)'
        BY <1>3, Zenon DEF Recorded
      <3> QED BY <1>0, <3>1, <3>2, Zenon DEF LedgerInv
    <2> QED BY <2>1, <2>2, Zenon
  <1>9. LedgerInv'
    BY <1>1, <1>3, <1>5, <1>7, <1>8, Zenon DEF LedgerInv
  <1> QED BY <1>6, <1>9, Zenon

\* The grant of the committed hold is mirrored as consumed only afterwards.
LEMMA CommitKeepsMirror ==
    ASSUME OwnerInv, NEW e \in OwnerEngines, NEW a, NEW h \in HoldIds, CommitHold(e, a, h)
    PROVE  MirrorInv'
  <1>0. MirrorInv /\ moved \in [HoldIds -> {0, 1}] /\ op \in [Engines -> Operation] /\ e \in Engines
    BY ConstantsAssumption, Zenon DEF OwnerInv, LedgerInv, IInv, TypeOK, ConstantsAssumption
  <1>a. grants[holds[h].grant].hold = h /\ moved[h] = 0
    BY CommitChecks
  <1>1. holds' = holds /\ grants' = grants /\ reserved' = reserved
    BY Zenon DEF CommitHold, store, history
  <1>2. \/ UNCHANGED <<moved, op>>
        \/ /\ moved' = [moved EXCEPT ![h] = @ + 1]
           /\ op' = [op EXCEPT ![e] = [kind |-> "report", id |-> holds[h].grant]]
    BY Zenon DEF CommitHold
  <1>3. CASE UNCHANGED <<moved, op>>
    BY <1>0, <1>1, <1>3, Zenon DEF MirrorInv, GrantMirrors, OpMirrors, OwnedGrant, Exists
  <1>4. CASE /\ moved' = [moved EXCEPT ![h] = @ + 1]
             /\ op' = [op EXCEPT ![e] = [kind |-> "report", id |-> holds[h].grant]]
    <2>1. moved'[h] = 1 /\ \A k : k # h => moved'[k] = moved[k]
      BY <1>0, <1>4, <1>a
    <2>2. \A k : moved[k] = 1 => moved'[k] = 1
      BY <2>1, Zenon
    <2>3. \A g \in GrantIds : GrantMirrors(g)'
      BY <1>0, <1>1, <2>2, Zenon DEF MirrorInv, GrantMirrors, OwnedGrant, Exists
    <2>4. ASSUME NEW f \in Engines PROVE OpMirrors(op[f])'
      <3>1. CASE f # e
        <4>1. op'[f] = op[f] /\ OpMirrors(op[f])
          BY <1>0, <1>4, <3>1, Zenon DEF MirrorInv
        <4> QED BY <1>1, <2>2, <4>1, Zenon DEF OpMirrors, OwnedGrant
      <3>2. CASE f = e
        <4>1. op'[f].kind = "report" /\ op'[f].id = holds[h].grant
          BY <1>0, <1>4, <3>2
        <4>2. moved'[grants'[op'[f].id].hold] = 1
          BY <1>1, <2>1, <4>1, <1>a, Zenon
        <4> QED BY <4>1, <4>2 DEF OpMirrors
      <3> QED BY <3>1, <3>2, Zenon
    <2> QED BY <2>3, <2>4, Zenon DEF MirrorInv
  <1> QED BY <1>2, <1>3, <1>4, Zenon

\* A mirror the store refuses ends there.
LEMMA MirrorFailsKeeps ==
    ASSUME OwnerInv, NEW e \in OwnerEngines, MirrorFails(e)
    PROVE  OwnerInv'
  <1>0. /\ IInv /\ TypeOK /\ OpsCurrent /\ BootsInv /\ LedgerInv /\ MirrorInv /\ e \in Engines
        /\ op \in [Engines -> Operation]
    BY ConstantsAssumption, Zenon DEF OwnerInv, IInv, TypeOK, ConstantsAssumption
  <1>1. /\ UNCHANGED <<store, history, ownerVars, now, restarts, trust>>
        /\ op' = [op EXCEPT ![e] = Idle]
    BY Zenon DEF MirrorFails, Finish
  <1>2. TypeOK'
    BY <1>0, <1>1, FinishType, Zenon DEF TypeOK, store, history, Finish
  <1>3. OpsCurrent'
    BY <1>0, <1>1, <1>2, EndCurrent, Zenon
  <1>4. IInv'
    BY <1>0, <1>1, <1>2, <1>3, Zenon DEF IInv, store, history, GrantsMatchApprovals,
                ShownIsStored, ReservedOnce, ResolvedByItsRoot, Exists
  <1>5. BootsInv' /\ LedgerInv'
    BY <1>0, <1>1, Zenon DEF BootsInv, LedgerInv, Recorded, store, ownerVars
  <1>6. \A g \in GrantIds : GrantMirrors(g)'
    BY <1>0, <1>1, Zenon DEF MirrorInv, GrantMirrors, OwnedGrant, Exists, store, history, ownerVars
  <1>7. ASSUME NEW f \in Engines PROVE OpMirrors(op[f])'
    <2>1. OpMirrors(op[f]) /\ (op'[f] = op[f] \/ op'[f] = Idle)
      BY <1>0, <1>1, Zenon DEF MirrorInv
    <2>2. CASE op'[f] = op[f]
      BY <1>1, <2>1, <2>2, Zenon DEF OpMirrors, OwnedGrant, store, ownerVars
    <2>3. CASE op'[f] = Idle
      BY <2>3 DEF OpMirrors, Idle
    <2> QED BY <2>1, <2>2, <2>3, Zenon
  <1> QED BY <1>4, <1>5, <1>6, <1>7, Zenon DEF OwnerInv, MirrorInv

\* The invariant holds at the start.
LEMMA OwnerInitInv ==
    ASSUME OwnerInit
    PROVE  OwnerInv
  <1>1. IInv
    BY InitInv, ConstantsAssumption, Zenon DEF OwnerInit
  <1>2. BootsInv
    BY Zenon DEF OwnerInit, BootsInv
  <1>3. LedgerInv
    BY DEF OwnerInit, LedgerInv
  <1>4. MirrorInv
    <2>1. \A g \in GrantIds : ~Exists(g)
      BY DEF OwnerInit, Init, Exists, GrantStatus, Absent
    <2>2. \A e \in Engines : op[e].kind = "idle"
      BY DEF OwnerInit, Init, Idle
    <2> QED BY <2>1, <2>2 DEF MirrorInv, GrantMirrors, OpMirrors
  <1> QED BY <1>1, <1>2, <1>3, <1>4, Zenon DEF OwnerInv

\* Every step keeps it.
LEMMA OwnerNextInv ==
    ASSUME OwnerInv, [OwnerNext]_allVars
    PROVE  OwnerInv'
  <1>1. CASE GateStep /\ UNCHANGED ownerVars
    BY <1>1, GateStepTrust, GateKeepsOwner, Zenon
  <1>2. CASE UNCHANGED allVars
    BY <1>2, GateKeepsOwner, Zenon DEF allVars, vars
  <1>3. ASSUME NEW e \in OwnerEngines, NEW a \in Agents, NEW h \in HoldIds, CommitHold(e, a, h)
        PROVE  OwnerInv'
    BY <1>3, CommitKeepsGate, CommitKeepsLedger, CommitKeepsMirror, Zenon DEF OwnerInv
  <1> QED BY <1>1, <1>2, <1>3, MirrorFailsKeeps, RestartKeepsOwner, Zenon DEF OwnerNext

\* The invariant holds in every state of every deployment with effect owners.
THEOREM OwnerInvariance == OwnerSpec => []OwnerInv
  <1>1. OwnerInit => OwnerInv
    BY OwnerInitInv, Zenon
  <1>2. OwnerInv /\ [OwnerNext]_allVars => OwnerInv'
    BY OwnerNextInv, Zenon
  <1> QED BY <1>1, <1>2, PTL DEF OwnerSpec

\* A committed effect is never answered as refused afterwards: as long as the
\* process is up, commit answers with the row it wrote (commit: replay first).
THEOREM CommitsAreAnswered == OwnerSpec => []CommittedIsAnswered
  <1>1. OwnerInv => CommittedIsAnswered
    <2> SUFFICES ASSUME OwnerInv, NEW e \in OwnerEngines, NEW r \in rows[e]
                 PROVE  CommitAnswer(e, r.hold) = r.outcome
      BY Zenon DEF CommittedIsAnswered
    <2>1. /\ r.grant = holds[r.hold].grant
          /\ \A s \in rows[e] : s.hold = r.hold => s = r
      BY Zenon DEF OwnerInv, LedgerInv
    <2>2. Recorded(e, r.hold) = {r}
      BY <2>1, Zenon DEF Recorded
    <2>3. (CHOOSE w \in Recorded(e, r.hold) : TRUE) = r
      BY <2>2, Zenon
    <2> QED BY <2>1, <2>2, <2>3, Zenon DEF CommitAnswer
  <1> QED BY <1>1, OwnerInvariance, PTL

\* The grant of an effect-owned action reads consumed only if its transfer was
\* executed, and no wrapper ever reserves it (mirrorGrantConsumed, reserve).
THEOREM MirrorStaysTrue == OwnerSpec => []MirrorIsTrue
  <1>1. OwnerInv => MirrorIsTrue
    BY Zenon DEF OwnerInv, MirrorInv, GrantMirrors, OwnedGrant, MirrorIsTrue
  <1> QED BY <1>1, OwnerInvariance, PTL

\* What the gate's safety theorems say stays true beside an effect owner, whose
\* mirror begins a report on a grant nobody reserved (commit, decide, reserve,
\* settleExpiry, cancelLocalStateLost).
THEOREM GateSafeWithOwners ==
    OwnerSpec => [](GrantsMatchApprovals /\ ShownIsStored /\ ReservedOnce /\ ResolvedByItsRoot)
  <1>1. OwnerInv => GrantsMatchApprovals /\ ShownIsStored /\ ReservedOnce /\ ResolvedByItsRoot
    BY Zenon DEF OwnerInv, IInv
  <1> QED BY <1>1, OwnerInvariance, PTL

-----------------------------------------------------------------------------
\* Refinement, with the gate's own executions

\* What a hold's approval has admitted, in the two ways.
LEMMA ExecutionsOf ==
    ASSUME LedgerInv, TypeOK, GrantsMatchApprovals, NEW h \in HoldIds
    PROVE  /\ Executions[h] = AuthorityUses[h] + moved[h]
           /\ AuthorityUses[h] \in Nat /\ moved[h] \in Nat
  <1>1. CASE holds[h].status = "APPROVED"
    <2>1. holds[h].grant \in GrantIds
      BY <1>1, Zenon DEF GrantsMatchApprovals
    <2>2. AuthorityUses[h] = reserved[holds[h].grant] /\ Executions[h] = reserved[holds[h].grant] + moved[h]
      BY <1>1, Zenon DEF AuthorityUses, Executions
    <2>3. reserved[holds[h].grant] \in Nat /\ moved[h] \in {0, 1}
      BY <2>1, Zenon DEF TypeOK, LedgerInv
    <2> QED BY <2>2, <2>3
  <1>2. CASE holds[h].status # "APPROVED"
    <2>1. moved[h] = 0
      BY <1>2, Zenon DEF LedgerInv
    <2>2. AuthorityUses[h] = 0 /\ Executions[h] = 0
      BY <1>2, Zenon DEF AuthorityUses, Executions
    <2> QED BY <2>1, <2>2
  <1> QED BY <1>1, <1>2

\* The executions are a function on the holds.
LEMMA ExecutionsAreFunction ==
    /\ Executions = [h \in HoldIds |-> Executions[h]]
    /\ Executions' = [h \in HoldIds |-> Executions'[h]]
  BY Zenon DEF Executions

\* A gate step, which executes nothing itself, is the step it was without owners.
LEMMA GateSimulates ==
    ASSUME OwnerInv, OwnerInv', [Next]_vars, moved' = moved
    PROVE  [OwnedAuthority!Next]_<<AuthorityState, Executions>>
  <1>0. /\ IInv /\ TypeOK /\ GrantsMatchApprovals /\ LedgerInv
        /\ TypeOK' /\ GrantsMatchApprovals' /\ LedgerInv'
    BY Zenon DEF OwnerInv, IInv
  <1>1. \A h \in HoldIds : /\ Executions[h] = AuthorityUses[h] + moved[h]
                           /\ Executions'[h] = AuthorityUses'[h] + moved[h]
    <2>1. ASSUME NEW h \in HoldIds PROVE Executions'[h] = AuthorityUses'[h] + moved'[h]
      <3>1. (Executions[h] = AuthorityUses[h] + moved[h])'
        BY <1>0, ExecutionsOf, PTL
      <3> QED BY <3>1, Zenon
    <2> QED BY <1>0, <2>1, ExecutionsOf, Zenon
  <1>2. AuthorityUses' = AuthorityUses => Executions' = Executions
    <2> SUFFICES ASSUME AuthorityUses' = AuthorityUses PROVE Executions' = Executions
      BY Zenon
    <2>1. \A h \in HoldIds : Executions'[h] = Executions[h]
      BY <1>1, Zenon
    <2> QED BY <2>1, ExecutionsAreFunction, Zenon
  <1>3. ASSUME NEW h \in HoldIds, Authority!Use(h)
        PROVE  OwnedAuthority!Use(h)
    <2>1. /\ AuthorityState[h] = "granted" /\ AuthorityUses[h] = 0
          /\ AuthorityUses' = [AuthorityUses EXCEPT ![h] = 1] /\ AuthorityState' = AuthorityState
      BY <1>3, Zenon DEF Authority!Use
    <2>2. AuthorityUses'[h] = 1 /\ \A k \in HoldIds \ {h} : AuthorityUses'[k] = AuthorityUses[k]
      BY <2>1, MappingsAreFunctions, Zenon
    <2>3. moved[h] = 0
      <3>1. SUFFICES ASSUME moved[h] # 0 PROVE FALSE
        OBVIOUS
      <3>2. holds[h].status = "APPROVED" /\ holds[h].body \in Owned
        BY <1>0, <3>1, Zenon DEF LedgerInv
      <3>3. holds'[h] = holds[h]
        BY <1>0, <3>2, SettledStays, Zenon DEF Settled
      <3>4. PICK g \in GrantIds : g = holds[h].grant /\ Exists(g) /\ grants[g].hold = h
        BY <1>0, <3>2, Zenon DEF GrantsMatchApprovals
      <3>5. AuthorityUses[h] = reserved[g] /\ AuthorityUses'[h] = reserved'[g]
        BY <3>2, <3>3, <3>4, Zenon DEF AuthorityUses
      <3>6. reserved'[g] # reserved[g]
        BY <2>1, <2>2, <3>5
      <3>7. PICK e \in Engines : op[e].kind = "reserve" /\ op[e].id = g
        BY <1>0, <3>6, StepReserves, Zenon
      <3>8. ~OwnedGrant(g)
        BY <3>7, Zenon DEF OwnerInv, MirrorInv, OpMirrors
      <3> QED BY <3>2, <3>4, <3>8, Zenon DEF OwnedGrant
    <2>4. Executions[h] = 0 /\ Executions'[h] = 1
      BY <1>1, <2>1, <2>2, <2>3
    <2>5. \A k \in HoldIds \ {h} : Executions'[k] = Executions[k]
      BY <1>1, <2>2, Zenon
    <2>6. Executions' = [Executions EXCEPT ![h] = 1]
      BY <2>4, <2>5, ExecutionsAreFunction, OneArgument, Zenon
    <2> QED BY <2>1, <2>4, <2>6, Zenon DEF OwnedAuthority!Use
  <1>4. ASSUME NEW h \in HoldIds, Authority!Open(h) \/ Authority!Resolve(h)
        PROVE  OwnedAuthority!Open(h) \/ OwnedAuthority!Resolve(h)
    BY <1>2, <1>4, Zenon DEF Authority!Open, Authority!Resolve,
                             OwnedAuthority!Open, OwnedAuthority!Resolve
  <1>5. CASE Authority!Next
    BY <1>3, <1>4, <1>5, Zenon DEF Authority!Next, OwnedAuthority!Next
  <1>6. CASE UNCHANGED <<AuthorityState, AuthorityUses>>
    BY <1>2, <1>6, Zenon
  <1> QED BY <1>0, <1>5, <1>6, StepSimulation, Zenon

\* Committing an executed transfer uses the approval; a refused one, or a failed
\* mirror, does not.
LEMMA CommitSimulates ==
    ASSUME OwnerInv, NEW e \in OwnerEngines, NEW a, NEW h \in HoldIds, CommitHold(e, a, h)
    PROVE  OwnedAuthority!Use(h) \/ UNCHANGED <<AuthorityState, Executions>>
  <1>0. /\ moved \in [HoldIds -> {0, 1}] /\ MirrorInv
        /\ holds' = holds /\ reserved' = reserved
    BY Zenon DEF OwnerInv, LedgerInv, CommitHold, store, history
  <1>1. /\ holds[h].status = "APPROVED" /\ holds[h].body \in Owned
        /\ holds[h].grant \in GrantIds /\ Exists(holds[h].grant)
        /\ grants[holds[h].grant].hold = h /\ moved[h] = 0
    BY CommitChecks
  <1>2. AuthorityState' = AuthorityState /\ AuthorityState[h] = "granted"
    BY <1>0, <1>1, StateOf, Zenon DEF AuthorityState
  <1>3. reserved[holds[h].grant] = 0
    BY <1>0, <1>1, Zenon DEF MirrorInv, GrantMirrors, OwnedGrant
  <1>4. CASE moved' = moved
    BY <1>0, <1>2, <1>4, Zenon DEF Executions
  <1>5. CASE moved' = [moved EXCEPT ![h] = @ + 1]
    <2>1. moved'[h] = 1 /\ \A k \in HoldIds \ {h} : moved'[k] = moved[k]
      BY <1>0, <1>1, <1>5
    <2>2. Executions[h] = reserved[holds[h].grant] + moved[h]
          /\ Executions'[h] = reserved[holds[h].grant] + moved'[h]
      BY <1>0, <1>1, Zenon DEF Executions
    <2>3. Executions[h] = 0 /\ Executions'[h] = 1
      BY <1>1, <1>3, <2>1, <2>2
    <2>4. \A k \in HoldIds \ {h} : Executions'[k] = Executions[k]
      BY <1>0, <2>1, Zenon DEF Executions
    <2>5. Executions' = [Executions EXCEPT ![h] = 1]
      BY <2>3, <2>4, ExecutionsAreFunction, OneArgument, Zenon
    <2> QED BY <1>2, <2>3, <2>5, Zenon DEF OwnedAuthority!Use
  <1> QED BY <1>4, <1>5, Zenon DEF CommitHold

\* Every step is a step of the abstract specification or a stutter.
LEMMA OwnerSimulation ==
    ASSUME OwnerInv, OwnerInv', [OwnerNext]_allVars
    PROVE  [OwnedAuthority!Next]_<<AuthorityState, Executions>>
  <1>1. CASE GateStep /\ UNCHANGED ownerVars
    BY <1>1, GateStepTrust, GateSimulates, Zenon DEF ownerVars
  <1>2. CASE UNCHANGED allVars
    BY <1>2, GateSimulates, Zenon DEF allVars, ownerVars
  <1>3. ASSUME NEW e \in Engines, NEW t \in BootTrust, RestartOwner(e, t)
        PROVE  [OwnedAuthority!Next]_<<AuthorityState, Executions>>
    <2>1. Next /\ moved' = moved
      BY <1>3, Zenon DEF RestartOwner, Next
    <2> QED BY <2>1, GateSimulates, Zenon
  <1>4. ASSUME NEW e \in OwnerEngines, MirrorFails(e)
        PROVE  UNCHANGED <<AuthorityState, Executions>>
    BY <1>4, Zenon DEF MirrorFails, store, history, ownerVars, AuthorityState, Executions
  <1>5. ASSUME NEW e \in OwnerEngines, NEW a \in Agents, NEW h \in HoldIds, CommitHold(e, a, h)
        PROVE  [OwnedAuthority!Next]_<<AuthorityState, Executions>>
    BY <1>5, CommitSimulates, Zenon DEF OwnedAuthority!Next
  <1> QED BY <1>1, <1>2, <1>3, <1>4, <1>5, Zenon DEF OwnerNext

\* With effect owners, too, an approval is worth one execution, whoever executes
\* it and whichever process restarts or fails to mirror meanwhile (commit,
\* commitOnce, mirrorGrantConsumed, reserve).
THEOREM CommitRefinement == OwnerSpec => CommitImplementsAuthority
  <1>1. OwnerInit => OwnedAuthority!Init
    <2> SUFFICES ASSUME OwnerInit PROVE OwnedAuthority!Init
      BY Zenon
    <2>1. \A h \in HoldIds : holds[h].status = "ABSENT"
      BY Zenon DEF OwnerInit, Init, Absent
    <2>2. \A h \in HoldIds : AuthorityState[h] = "none" /\ Executions[h] = 0
      BY <2>1, StateOf, Zenon DEF Executions
    <2> QED BY <2>2, MappingsAreFunctions, ExecutionsAreFunction, Zenon DEF OwnedAuthority!Init
  <1>2. OwnerInv /\ OwnerInv' /\ [OwnerNext]_allVars =>
          [OwnedAuthority!Next]_<<AuthorityState, Executions>>
    BY OwnerSimulation, Zenon
  <1> QED BY <1>1, <1>2, OwnerInvariance, PTL
          DEF OwnerSpec, CommitImplementsAuthority, OwnedAuthority!Spec
=============================================================================
