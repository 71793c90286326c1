---------------------------- MODULE GuardProofs -----------------------------
(***************************************************************************)
(* Guard's safety theorems, for any number of gate processes, invocations, *)
(* keys and restarts, whatever the network loses or delays.                *)
(*                                                                         *)
(* Every step is one of the gate or leaves it alone, so the gate's         *)
(* invariant carries over; at most one invocation moves, and it moves as   *)
(* its wrapper does.  From that: the winner of a reservation is the only   *)
(* invocation that executes, and what is recorded and told is what         *)
(* happened.                                                               *)
(***************************************************************************)
EXTENDS Guard, GateProofs, TLAPS

-----------------------------------------------------------------------------
\* The invariant

Outcomes ==
    {"none", "THREW", "ERROR", "ERROR_RAN", "REFUSED_GRANT_RACE", "REFUSED_PARAMS_MISMATCH",
     "PENDING_TIMEOUT", "EXECUTED", "UNKNOWN_AFTER_DISPATCH", "ABSENT"} \cup HoldStatus

Invocation ==
    [pc : {"create", "wait", "reserve", "dispatch", "running", "report", "done"},
     key : Keys, body : Bodies, chain : Chains,
     hold : HoldIds \cup {None}, grant : GrantIds \cup {None},
     result : {"none", "DISPATCHED", "UNKNOWN"}, outcome : Outcomes]

GuardTypeOK ==
    /\ inv \in [Invocations -> {NotStarted} \cup Invocation]
    /\ net \subseteq [from : Invocations, step : {"create", "reserve", "report"}]
    /\ serving \in [Engines -> Invocations \cup {None}]
    /\ ran \subseteq [by : Invocations, hold : HoldIds, ok : BOOLEAN]

HasGrant(x) == x # NotStarted /\ x.grant # None

\* What an invocation knows in each phase; its grant is its hold's.
PhaseOK(x) ==
    /\ x.pc \in {"wait", "reserve", "dispatch", "running", "report"} => x.hold \in HoldIds
    /\ x.pc \in {"create", "wait"} => ~HasGrant(x) /\ x.result = "none"
    /\ x.pc \in {"reserve", "dispatch", "running", "report"} => HasGrant(x)
    /\ HasGrant(x) => x.hold \in HoldIds /\ Exists(x.grant) /\ grants[x.grant].hold = x.hold

\* A request on its way is of an invocation that got that far.
SentOK(r) ==
    /\ inv[r.from] # NotStarted
    /\ r.step \in {"reserve", "report"} => HasGrant(inv[r.from])

PhasesInv ==
    /\ GuardTypeOK
    /\ \A i \in Invocations : PhaseOK(inv[i])
    /\ \A r \in net : SentOK(r)

-----------------------------------------------------------------------------
\* What a step does to an invocation

\* Invocation i moves on to y.
Starts(i, y) ==
    /\ inv[i] = NotStarted
    /\ y \in Invocation /\ y.pc = "create" /\ y.grant = None /\ y.result = "none"
    /\ ran' = ran

Finds(i, y) ==
    /\ inv[i].pc = "create"
    /\ \E h \in HoldIds : y = [inv[i] EXCEPT !.pc = "wait", !.hold = h]
    /\ ran' = ran

Asks(i, y) ==
    /\ inv[i].pc = "wait" /\ holds[inv[i].hold].status = "APPROVED"
    /\ y = [inv[i] EXCEPT !.pc = "reserve", !.grant = holds[inv[i].hold].grant]
    /\ ran' = ran

Wins(i, y) ==
    /\ inv[i].pc = "reserve"
    /\ \E e \in Engines :
          ClaimStatus(e) /\ serving[e] = i /\ i # None /\ ClaimStatusWins(op[e].id)
    /\ y = [inv[i] EXCEPT !.pc = "dispatch"]
    /\ ran' = ran

Runs(i, y) ==
    /\ inv[i].pc = "dispatch"
    /\ y = [inv[i] EXCEPT !.pc = "running"]
    /\ ran' = ran \cup {[by |-> i, hold |-> inv[i].hold, ok |-> FALSE]}

Returns(i, y) ==
    /\ inv[i].pc = "running"
    /\ \E ok \in BOOLEAN :
          /\ y = [inv[i] EXCEPT !.pc = "report", !.result = ReportResult(ok)]
          /\ ran' = (ran \ {[by |-> i, hold |-> inv[i].hold, ok |-> FALSE]})
                       \cup {[by |-> i, hold |-> inv[i].hold, ok |-> ok]}

Ends(i, y) ==
    /\ inv[i].pc \notin {"idle", "done"}
    /\ \E o \in Outcomes :
          /\ y = [inv[i] EXCEPT !.pc = "done", !.outcome = o]
          /\ o \in Settled =>
                inv[i].pc = "wait" /\ o = holds[inv[i].hold].status /\ o # "APPROVED"
    /\ ran' = ran

Moved(i, y) ==
    \/ Starts(i, y) \/ Finds(i, y) \/ Asks(i, y) \/ Wins(i, y)
    \/ Runs(i, y) \/ Returns(i, y) \/ Ends(i, y)

\* No invocation moves, or one does.
OneMoves ==
    \/ UNCHANGED <<inv, ran>>
    \/ \E i \in Invocations : \E y : Moved(i, y) /\ inv' = [inv EXCEPT ![i] = y]

\* A refusal ends an invocation.
LEMMA RefusedEnds ==
    ASSUME NEW i \in Invocations, NEW o \in Outcomes, o \notin Settled,
           inv[i].pc \notin {"idle", "done"}, ran' = ran,
           inv' = [inv EXCEPT ![i] = Refused(i, o)]
    PROVE  OneMoves
  <1>1. Ends(i, Refused(i, o))
    BY Zenon DEF Ends, Refused
  <1> QED BY <1>1, Zenon DEF OneMoves, Moved

\* The wrapper's own steps.
LEMMA WrapperMoves ==
    ASSUME TypeOK, PhasesInv, NEW i \in Invocations, Wrapper(i)
    PROVE  OneMoves
  <1>0. inv[i] \in {NotStarted} \cup Invocation /\ inv[i].pc # "idle" => inv[i] \in Invocation
    BY DEF PhasesInv, GuardTypeOK, NotStarted
  <1>1. ASSUME NEW k \in Keys, NEW b \in Bodies, NEW c \in Chains, CallCreate(i, k, b, c)
        PROVE  OneMoves
    <2> DEFINE y == [pc |-> "create", key |-> k, body |-> b, chain |-> c, hold |-> None,
                     grant |-> None, result |-> "none", outcome |-> "none"]
    <2>1. inv[i] = NotStarted /\ ran' = ran /\ inv' = [inv EXCEPT ![i] = y]
      BY <1>1, Zenon DEF CallCreate
    <2>2. y \in Invocation /\ y.pc = "create" /\ y.grant = None /\ y.result = "none"
      BY Zenon DEF Invocation, Outcomes
    <2> HIDE DEF y
    <2>3. Starts(i, y)
      BY <2>1, <2>2, Zenon DEF Starts
    <2> QED BY <2>1, <2>3, Zenon DEF OneMoves, Moved
  <1>2. CASE Wait(i)
    <2>1. inv[i].pc = "wait" /\ inv[i].hold \in HoldIds /\ ran' = ran
      BY <1>2, Zenon DEF Wait, PhasesInv, PhaseOK
    <2>2. holds[inv[i].hold].status \in HoldStatus \cup {"ABSENT"}
      BY <2>1 DEF TypeOK, HoldRecord, Absent
    <2>3. CASE inv' = [inv EXCEPT ![i].pc = "reserve", ![i].grant = holds[inv[i].hold].grant]
               /\ holds[inv[i].hold].status = "APPROVED"
      <3> DEFINE y == [inv[i] EXCEPT !.pc = "reserve", !.grant = holds[inv[i].hold].grant]
      <3>1. Asks(i, y)
        BY <2>1, <2>3, Zenon DEF Asks
      <3>2. inv' = [inv EXCEPT ![i] = y]
        BY <2>3, Zenon
      <3> HIDE DEF y
      <3> QED BY <3>1, <3>2, Zenon DEF OneMoves, Moved
    <2>4. ASSUME NEW o \in Outcomes, Return(i, o),
                 o \in Settled => o = holds[inv[i].hold].status /\ o # "APPROVED"
          PROVE  OneMoves
      <3>1. Ends(i, [inv[i] EXCEPT !.pc = "done", !.outcome = o])
        BY <2>1, <2>4, Zenon DEF Ends
      <3> QED BY <2>4, <3>1, Zenon DEF OneMoves, Moved, Return
    <2>5. \/ inv' = [inv EXCEPT ![i].pc = "reserve", ![i].grant = holds[inv[i].hold].grant]
               /\ holds[inv[i].hold].status = "APPROVED"
          \/ Return(i, "REFUSED_PARAMS_MISMATCH") \/ Return(i, "PENDING_TIMEOUT")
          \/ holds[inv[i].hold].status # "APPROVED" /\ Return(i, holds[inv[i].hold].status)
      <3>1. CASE holds[inv[i].hold].status = "APPROVED"
        BY <1>2, <3>1, Zenon DEF Wait, Waited
      <3>2. CASE holds[inv[i].hold].status # "APPROVED"
        BY <1>2, <3>2, Zenon DEF Wait, Waited
      <3> QED BY <3>1, <3>2, Zenon
    <2>6. holds[inv[i].hold].status \in Outcomes /\ "REFUSED_PARAMS_MISMATCH" \in Outcomes
          /\ "PENDING_TIMEOUT" \in Outcomes
      BY <2>2, Zenon DEF Outcomes
    <2> QED BY <2>3, <2>4, <2>5, <2>6, Zenon DEF Settled
  <1>3. CASE Dispatch(i)
    <2>1. Runs(i, [inv[i] EXCEPT !.pc = "running"])
      BY <1>3, Zenon DEF Dispatch, Runs
    <2> QED BY <1>3, <2>1, Zenon DEF Dispatch, OneMoves, Moved
  <1>4. ASSUME NEW ok \in BOOLEAN, Executed(i, ok)
        PROVE  OneMoves
    <2> DEFINE y == [inv[i] EXCEPT !.pc = "report", !.result = ReportResult(ok)]
    <2>1. Returns(i, y)
      BY <1>4, Zenon DEF Executed, Returns
    <2>2. inv' = [inv EXCEPT ![i] = y]
      BY <1>4, Zenon DEF Executed
    <2> HIDE DEF y
    <2> QED BY <2>1, <2>2, Zenon DEF OneMoves, Moved
  <1>5. CASE Abandon(i)
    <2>1. "THREW" \in Outcomes /\ "THREW" \notin Settled
      BY Zenon DEF Outcomes, Settled
    <2> QED BY <1>5, <2>1, RefusedEnds, Zenon DEF Abandon, Return, Refused
  <1> QED BY <1>1, <1>2, <1>3, <1>4, <1>5, Zenon DEF Wrapper

\* The outcomes of a refused or answered request.
LEMMA OutcomesNamed ==
    \A o \in {"ERROR", "ERROR_RAN", "REFUSED_GRANT_RACE", "EXECUTED", "UNKNOWN_AFTER_DISPATCH"} :
        o \in Outcomes /\ o \notin Settled
  BY Zenon DEF Outcomes, Settled

\* A request the gate takes on, or answers at once.
LEMMA ServeMoves ==
    ASSUME TypeOK, PhasesInv, AgentAssumption, NEW e \in Engines, Serve(e)
    PROVE  OneMoves
  <1>1. PICK r \in net : \/ \E h \in HoldIds, ttl \in Ttls : ServeCreate(e, r, h, ttl)
                         \/ ServeReserve(e, r) \/ ServeReport(e, r)
    BY Zenon DEF Serve
  <1>2. r.from \in Invocations
    BY Zenon DEF PhasesInv, GuardTypeOK
  <1>3. ASSUME NEW step \in {"create", "reserve", "report"}, NEW o \in Outcomes, o \notin Settled,
               Answer(r.from, step, Refused(r.from, o)), ran' = ran
        PROVE  OneMoves
    BY <1>2, <1>3, RefusedEnds, Zenon DEF Answer, OneMoves
  <1>4. ASSUME NEW h \in HoldIds, NEW ttl \in Ttls, ServeCreate(e, r, h, ttl)
        PROVE  OneMoves
    <2> DEFINE x == inv[r.from]
               answer == CreateAnswer(e, agent, x.key, x.body, x.chain, h)
               found == byIdem[agent][x.key]
    <2>1. CASE UNCHANGED <<inv, ran>>
      BY <2>1, Zenon DEF OneMoves
    <2>2. CASE answer = "IDEMPOTENT" /\ ran' = ran
               /\ Answer(r.from, "create", [x EXCEPT !.pc = "wait", !.hold = found])
      <3>1. CASE inv' = inv
        BY <2>2, <3>1, Zenon DEF OneMoves
      <3>2. CASE inv[r.from].pc = "create"
                 /\ inv' = [inv EXCEPT ![r.from] = [x EXCEPT !.pc = "wait", !.hold = found]]
        <4>1. x \in Invocation
          BY <1>2, <3>2 DEF PhasesInv, GuardTypeOK, NotStarted
        <4>2. agent \in Agents /\ x.key \in Keys
          BY <4>1, AgentAssumption, SMTT(30) DEF agent, AgentAssumption, Invocation
        <4>3. found \in HoldIds
          BY <2>2, <4>2 DEF CreateAnswer, TypeOK
        <4> HIDE DEF found
        <4>4. Finds(r.from, [x EXCEPT !.pc = "wait", !.hold = found])
          BY <2>2, <3>2, <4>3, Zenon DEF Finds
        <4> QED BY <1>2, <3>2, <4>4, Zenon DEF OneMoves, Moved
      <3> QED BY <2>2, <3>1, <3>2, Zenon DEF Answer
    <2>3. CASE Answer(r.from, "create", Refused(r.from, "ERROR")) /\ ran' = ran
      BY <1>3, <2>3, OutcomesNamed, Zenon
    <2> QED BY <1>4, <2>1, <2>2, <2>3, Zenon DEF ServeCreate
  <1>5. CASE ServeReserve(e, r)
    <2>1. CASE UNCHANGED <<inv, ran>>
      BY <2>1, Zenon DEF OneMoves
    <2>2. CASE Answer(r.from, "reserve", Refused(r.from, "REFUSED_GRANT_RACE")) /\ ran' = ran
      BY <1>3, <2>2, OutcomesNamed, Zenon
    <2> QED BY <1>5, <2>1, <2>2, Zenon DEF ServeReserve
  <1>6. CASE ServeReport(e, r)
    <2>1. CASE UNCHANGED <<inv, ran>>
      BY <2>1, Zenon DEF OneMoves
    <2>2. CASE Answer(r.from, "report", Refused(r.from, "ERROR_RAN")) /\ ran' = ran
      BY <1>3, <2>2, OutcomesNamed, Zenon
    <2> QED BY <1>6, <2>1, <2>2, Zenon DEF ServeReport
  <1> QED BY <1>1, <1>4, <1>5, <1>6, Zenon

\* The write that finishes a handler, and its answer.
LEMMA ServedMoves ==
    ASSUME TypeOK, PhasesInv, NEW e \in Engines, Served(e)
    PROVE  OneMoves
  <1> DEFINE i == serving[e]
  <1>0. i \in Invocations \cup {None} /\ op[e] \in Operation /\ ran' = ran
    BY Zenon DEF PhasesInv, GuardTypeOK, TypeOK, Served
  <1>1. CASE UNCHANGED inv
    BY <1>0, <1>1, Zenon DEF OneMoves
  <1>2. ASSUME NEW step \in {"create", "reserve", "report"}, NEW o \in Outcomes, o \notin Settled,
               Answer(i, step, Refused(i, o))
        PROVE  OneMoves
    BY <1>0, <1>1, <1>2, RefusedEnds, Zenon DEF Answer
  <1>3. CASE PutHold(e) /\ Answer(i, "create", [inv[i] EXCEPT !.pc = "wait", !.hold = op[e].id])
    <2>1. op[e].id \in HoldIds
      BY <1>0, <1>3 DEF PutHold, Operation, Idle
    <2>2. CASE i # None /\ inv[i].pc = "create"
               /\ inv' = [inv EXCEPT ![i] = [inv[i] EXCEPT !.pc = "wait", !.hold = op[e].id]]
      <3>1. Finds(i, [inv[i] EXCEPT !.pc = "wait", !.hold = op[e].id])
        BY <1>0, <2>1, <2>2, Zenon DEF Finds
      <3> QED BY <1>0, <2>2, <3>1, Zenon DEF OneMoves, Moved
    <2> QED BY <1>1, <1>3, <2>2, Zenon DEF Answer
  <1>4. CASE ClaimStatus(e) /\ Answer(i, "reserve", Reserved(e, i))
    <2>1. CASE ~ClaimStatusWins(op[e].id)
      <3>1. Answer(i, "reserve", Refused(i, "REFUSED_GRANT_RACE"))
        BY <1>4, <2>1, Zenon DEF Reserved
      <3> QED BY <1>2, <3>1, OutcomesNamed, Zenon
    <2>2. CASE /\ i # None /\ inv[i].pc = "reserve" /\ ClaimStatusWins(op[e].id)
               /\ inv' = [inv EXCEPT ![i] = [inv[i] EXCEPT !.pc = "dispatch"]]
      <3>1. Wins(i, [inv[i] EXCEPT !.pc = "dispatch"])
        BY <1>0, <1>4, <2>2, Zenon DEF Wins
      <3> QED BY <1>0, <2>2, <3>1, Zenon DEF OneMoves, Moved
    <2> QED BY <1>1, <1>4, <2>1, <2>2, Zenon DEF Answer, Reserved
  <1>5. CASE \/ Answer(i, "report", Refused(i, "ERROR_RAN"))
             \/ Answer(i, "report", Refused(i, "EXECUTED"))
             \/ Answer(i, "report", Refused(i, "UNKNOWN_AFTER_DISPATCH"))
    BY <1>2, <1>5, OutcomesNamed, Zenon
  <1> QED BY <1>1, <1>3, <1>4, <1>5, Zenon DEF Served

\* A handler that throws.
LEMMA FailureMoves ==
    ASSUME TypeOK, PhasesInv, NEW e \in Engines, ServiceFails(e)
    PROVE  OneMoves
  <1> DEFINE i == serving[e]
             o == IF inv[i].pc = "create" THEN "ERROR"
                  ELSE IF inv[i].pc = "reserve" THEN "REFUSED_GRANT_RACE" ELSE "ERROR_RAN"
  <1>0. i \in Invocations \cup {None} /\ ran' = ran
    BY Zenon DEF PhasesInv, GuardTypeOK, ServiceFails
  <1>1. CASE inv' = inv
    BY <1>0, <1>1, Zenon DEF OneMoves
  <1>2. CASE /\ i # None /\ inv[i].pc \notin {"idle", "done"}
             /\ inv' = [inv EXCEPT ![i] = Refused(i, o)]
    <2>1. o \in Outcomes /\ o \notin Settled
      BY OutcomesNamed, Zenon
    <2> HIDE DEF o
    <2> QED BY <1>0, <1>2, <2>1, RefusedEnds, Zenon
  <1> QED BY <1>1, <1>2, Zenon DEF ServiceFails

\* Every step of the composition moves one invocation at most.
LEMMA GuardMoves ==
    ASSUME TypeOK, PhasesInv, AgentAssumption, [GuardNext]_allVars
    PROVE  OneMoves
  <1>1. ASSUME NEW e \in Engines, Own(e) \/ \E t \in BootTrust : GateRestarts(e, t)
        PROVE  OneMoves
    BY <1>1, Zenon DEF Own, GateRestarts, guardVars, OneMoves
  <1>2. CASE (\E r \in net : Lose(r)) \/ Ticks \/ UNCHANGED allVars
    BY <1>2, Zenon DEF Lose, Ticks, guardVars, allVars, OneMoves
  <1> QED BY <1>1, <1>2, WrapperMoves, ServeMoves, ServedMoves, FailureMoves, Zenon DEF GuardNext

-----------------------------------------------------------------------------
\* The gate within

\* Every step of the composition is a step of the gate or leaves it alone.
LEMMA GuardStep ==
    ASSUME TypeOK, PhasesInv, AgentAssumption, [GuardNext]_allVars
    PROVE  [Next]_vars
  <1>1. ASSUME NEW i \in Invocations, Wrapper(i)
        PROVE  UNCHANGED vars
    BY <1>1, Zenon DEF Wrapper, CallCreate, Wait, Dispatch, Executed, Abandon
  <1>2. ASSUME NEW e \in Engines, Serve(e)
        PROVE  Request(e) \/ UNCHANGED vars
    <2>1. PICK r \in net : \/ \E h \in HoldIds, ttl \in Ttls : ServeCreate(e, r, h, ttl)
                           \/ ServeReserve(e, r) \/ ServeReport(e, r)
      BY <1>2, Zenon DEF Serve
    <2> DEFINE x == inv[r.from]
    <2>2. x \in Invocation /\ SentOK(r) /\ agent \in Agents
      BY AgentAssumption, Zenon DEF PhasesInv, GuardTypeOK, SentOK, agent, AgentAssumption
    <2>3. ASSUME NEW h \in HoldIds, NEW ttl \in Ttls, ServeCreate(e, r, h, ttl)
          PROVE  Request(e) \/ UNCHANGED vars
      <3>1. x.key \in Keys /\ x.body \in Bodies /\ x.chain \in Chains \cup {Omitted}
        BY <2>2, Zenon DEF Invocation
      <3>2. CreateHold(e, agent, x.key, x.body, x.chain, ttl, h) \/ UNCHANGED vars
        BY <2>3, Zenon DEF ServeCreate
      <3> QED BY <2>2, <3>1, <3>2, Zenon DEF Request
    <2>4. ASSUME r.step \in {"reserve", "report"} PROVE x.grant \in GrantIds
      BY <2>2, <2>4, Zenon DEF SentOK, HasGrant, Invocation
    <2>5. CASE ServeReserve(e, r)
      <3>1. ReserveGrant(e, agent, x.grant) \/ UNCHANGED vars
        BY <2>5, Zenon DEF ServeReserve
      <3>2. x.grant \in GrantIds
        BY <2>4, <2>5, Zenon DEF ServeReserve
      <3> QED BY <2>2, <3>1, <3>2, Zenon DEF Request
    <2>6. CASE ServeReport(e, r)
      <3>1. \/ ReportDispatched(e, agent, x.grant) \/ ReportHint(e, agent, x.grant, "UNKNOWN")
            \/ UNCHANGED vars
        BY <2>6, Zenon DEF ServeReport
      <3>2. x.grant \in GrantIds /\ "UNKNOWN" \in {"FAILED_BEFORE_DISPATCH", "UNKNOWN"}
        BY <2>4, <2>6, Zenon DEF ServeReport
      <3> QED BY <2>2, <3>1, <3>2, Zenon DEF Request
    <2> QED BY <2>1, <2>3, <2>5, <2>6, Zenon
  <1>3. ASSUME NEW e \in Engines, Served(e)
        PROVE  Write(e)
    BY <1>3, Zenon DEF Served, Write
  <1>4. ASSUME NEW e \in Engines, Own(e)
        PROVE  Request(e) \/ Sweep(e)
    BY <1>4, Zenon DEF Own, Request
  <1>5. ASSUME NEW e \in Engines, ServiceFails(e) \/ \E t \in BootTrust : GateRestarts(e, t)
        PROVE  SignerFails(e) \/ \E t \in BootTrust : Restart(e, t)
    BY <1>5, Zenon DEF ServiceFails, GateRestarts
  <1>6. CASE (\E r \in net : Lose(r)) \/ UNCHANGED allVars
    BY <1>6, Zenon DEF Lose, allVars
  <1>7. CASE Ticks
    BY <1>7, Zenon DEF Ticks, Next
  <1> QED BY <1>1, <1>2, <1>3, <1>4, <1>5, <1>6, <1>7, Zenon DEF GuardNext, Next

Taken(r) == r.status \in {"RESERVED", "REPORTED"}

\* Settled holds stay, grants stay with their holds, what is taken stays taken.
StoreKeeps ==
    /\ \A h \in HoldIds : holds[h].status \in Settled => holds'[h] = holds[h]
    /\ \A g \in GrantIds : Exists(g) =>
          /\ Exists(g)' /\ grants'[g].hold = grants[g].hold
          /\ Taken(grants[g]) => Taken(grants'[g])

-----------------------------------------------------------------------------
\* The phases

\* No invocation moves, or one does and the others stay.
LEMMA OneMover ==
    ASSUME GuardTypeOK, OneMoves
    PROVE  \/ UNCHANGED <<inv, ran>>
           \/ \E i \in Invocations :
                 Moved(i, inv'[i]) /\ \A j \in Invocations \ {i} : inv'[j] = inv[j]
  <1>1. ASSUME NEW i \in Invocations, NEW y, Moved(i, y), inv' = [inv EXCEPT ![i] = y]
        PROVE  Moved(i, inv'[i]) /\ \A j \in Invocations \ {i} : inv'[j] = inv[j]
    <2>1. inv'[i] = y /\ \A j \in Invocations \ {i} : inv'[j] = inv[j]
      BY <1>1, Zenon DEF GuardTypeOK
    <2> QED BY <1>1, <2>1, Zenon
  <1> QED BY <1>1, Zenon DEF OneMoves

\* An invocation that has a grant keeps it, and its hold.
Keeps(x, y) == HasGrant(x) => HasGrant(y) /\ y.grant = x.grant /\ y.hold = x.hold

\* An invocation moves from phase to phase; a new grant is its hold's.
LEMMA MovePhases ==
    ASSUME GrantsMatchApprovals, PhasesInv, NEW i \in Invocations, NEW y, Moved(i, y)
    PROVE  /\ y \in Invocation /\ Keeps(inv[i], y) /\ PhaseOK(y)
           /\ ran' \subseteq [by : Invocations, hold : HoldIds, ok : BOOLEAN]
  <1> DEFINE x == inv[i]
  <1>0. /\ PhaseOK(x) /\ (x.pc # "idle" => x \in Invocation /\ x # NotStarted)
        /\ ran \subseteq [by : Invocations, hold : HoldIds, ok : BOOLEAN]
    BY DEF PhasesInv, GuardTypeOK, NotStarted
  <1>1. \A z \in Invocation : z # NotStarted
    BY DEF Invocation, NotStarted
  <1>2. CASE Starts(i, y)
    BY <1>0, <1>1, <1>2, Zenon DEF Starts, Keeps, HasGrant, PhaseOK
  <1>3. CASE Finds(i, y)
    <2>1. PICK h \in HoldIds : y = [x EXCEPT !.pc = "wait", !.hold = h]
      BY <1>3, Zenon DEF Finds
    <2>2. x \in Invocation /\ ~HasGrant(x) /\ x.result = "none" /\ ran' = ran
      BY <1>0, <1>3, Zenon DEF Finds, PhaseOK
    <2>3. y \in Invocation /\ y.pc = "wait" /\ y.hold = h /\ y.grant = x.grant /\ y.result = x.result
      BY <2>1, <2>2, Zenon DEF Invocation
    <2> QED BY <1>0, <1>1, <2>2, <2>3, Zenon DEF Keeps, HasGrant, PhaseOK
  <1>4. CASE Asks(i, y)
    <2> DEFINE g == holds[x.hold].grant
    <2>1. x \in Invocation /\ ~HasGrant(x) /\ x.hold \in HoldIds /\ ran' = ran
      BY <1>0, <1>4, Zenon DEF Asks, PhaseOK
    <2>2. g \in GrantIds /\ Exists(g) /\ grants[g].hold = x.hold /\ g # None
      BY <1>4, <2>1, ConstantsAssumption, Zenon DEF Asks, GrantsMatchApprovals, ConstantsAssumption
    <2>3. y = [x EXCEPT !.pc = "reserve", !.grant = g]
      BY <1>4, Zenon DEF Asks
    <2> HIDE DEF g
    <2>4. y \in Invocation /\ y.pc = "reserve" /\ y.hold = x.hold /\ y.grant = g
      BY <2>1, <2>2, <2>3, Zenon DEF Invocation
    <2> QED BY <1>0, <1>1, <2>1, <2>2, <2>4, Zenon DEF Keeps, HasGrant, PhaseOK
  <1>5. ASSUME NEW pc \in {"dispatch", "running", "report"}, NEW o \in {"none", "DISPATCHED", "UNKNOWN"},
               x \in Invocation, HasGrant(x), x.hold \in HoldIds,
               y = [x EXCEPT !.pc = pc, !.result = o] \/ y = [x EXCEPT !.pc = pc]
        PROVE  y \in Invocation /\ Keeps(x, y) /\ PhaseOK(y)
    <2>1. y \in Invocation /\ y.pc = pc /\ y.hold = x.hold /\ y.grant = x.grant
      BY <1>5, Zenon DEF Invocation
    <2> QED BY <1>0, <1>1, <1>5, <2>1, Zenon DEF Keeps, HasGrant, PhaseOK
  <1>6. CASE Wins(i, y) \/ Runs(i, y)
    <2>1. x \in Invocation /\ HasGrant(x) /\ x.hold \in HoldIds
      BY <1>0, <1>6, Zenon DEF Wins, Runs, PhaseOK
    <2>2. y = [x EXCEPT !.pc = "dispatch"] \/ y = [x EXCEPT !.pc = "running"]
      BY <1>6, Zenon DEF Wins, Runs
    <2>3. ran' = ran \/ ran' = ran \cup {[by |-> i, hold |-> x.hold, ok |-> FALSE]}
      BY <1>6, Zenon DEF Wins, Runs
    <2>4. [by |-> i, hold |-> x.hold, ok |-> FALSE] \in [by : Invocations, hold : HoldIds, ok : BOOLEAN]
      BY <2>1, Zenon
    <2>5. ran' \subseteq [by : Invocations, hold : HoldIds, ok : BOOLEAN]
      BY <1>0, <2>3, <2>4, Zenon
    <2> QED BY <1>5, <2>1, <2>2, <2>5, Zenon
  <1>7. CASE Returns(i, y)
    <2>1. x \in Invocation /\ HasGrant(x) /\ x.hold \in HoldIds
      BY <1>0, <1>7, Zenon DEF Returns, PhaseOK
    <2>2. PICK ok \in BOOLEAN :
            /\ y = [x EXCEPT !.pc = "report", !.result = ReportResult(ok)]
            /\ ran' = (ran \ {[by |-> i, hold |-> x.hold, ok |-> FALSE]})
                         \cup {[by |-> i, hold |-> x.hold, ok |-> ok]}
      BY <1>7, Zenon DEF Returns
    <2>3. ReportResult(ok) \in {"none", "DISPATCHED", "UNKNOWN"}
      BY Zenon DEF ReportResult
    <2>4. ran' \subseteq [by : Invocations, hold : HoldIds, ok : BOOLEAN]
      BY <1>0, <2>1, <2>2
    <2> QED BY <1>5, <2>1, <2>2, <2>3, <2>4, Zenon
  <1>8. CASE Ends(i, y)
    <2>1. PICK o \in Outcomes : y = [x EXCEPT !.pc = "done", !.outcome = o]
      BY <1>8, Zenon DEF Ends
    <2>2. x \in Invocation /\ ran' = ran
      BY <1>0, <1>8, Zenon DEF Ends
    <2>3. y \in Invocation /\ y.pc = "done" /\ y.hold = x.hold /\ y.grant = x.grant
      BY <2>1, <2>2, Zenon DEF Invocation
    <2> QED BY <1>0, <1>1, <2>2, <2>3, Zenon DEF Keeps, HasGrant, PhaseOK
  <1> QED BY <1>2, <1>3, <1>4, <1>6, <1>7, <1>8, Zenon DEF Moved

\* A request is sent by an invocation that enters the phase it is for.
LEMMA StepSends ==
    ASSUME PhasesInv, [GuardNext]_allVars
    PROVE  /\ serving' \in [Engines -> Invocations \cup {None}]
           /\ \/ net' \subseteq net
              \/ \E i \in Invocations, s \in {"create", "reserve", "report"} :
                    net' = net \cup {[from |-> i, step |-> s]} /\ inv'[i].pc = s
  <1>0. /\ serving \in [Engines -> Invocations \cup {None}]
        /\ net \subseteq [from : Invocations, step : {"create", "reserve", "report"}]
        /\ inv \in [Invocations -> {NotStarted} \cup Invocation]
    BY Zenon DEF PhasesInv, GuardTypeOK
  <1>1. ASSUME NEW i \in Invocations, Wrapper(i)
        PROVE  /\ serving' = serving
               /\ \/ net' = net
                  \/ \E s \in {"create", "reserve", "report"} :
                        net' = net \cup {[from |-> i, step |-> s]} /\ inv'[i].pc = s
    <2>1. ASSUME NEW k \in Keys, NEW b \in Bodies, NEW c \in Chains, CallCreate(i, k, b, c)
          PROVE  /\ serving' = serving /\ inv'[i].pc = "create"
                 /\ net' = net \cup {[from |-> i, step |-> "create"]}
      BY <1>0, <2>1, Zenon DEF CallCreate
    <2>2. CASE Wait(i)
      <3>1. serving' = serving
        BY <2>2, Zenon DEF Wait
      <3>2. \/ net' = net
            \/ /\ inv[i].pc = "wait" /\ net' = net \cup {[from |-> i, step |-> "reserve"]}
               /\ inv' = [inv EXCEPT ![i].pc = "reserve", ![i].grant = holds[inv[i].hold].grant]
        BY <2>2, Zenon DEF Wait
      <3>3. CASE /\ inv[i].pc = "wait" /\ net' = net \cup {[from |-> i, step |-> "reserve"]}
                 /\ inv' = [inv EXCEPT ![i].pc = "reserve", ![i].grant = holds[inv[i].hold].grant]
        <4>1. inv[i] \in Invocation
          BY <1>0, <3>3 DEF NotStarted
        <4>2. inv'[i] = [inv[i] EXCEPT !.pc = "reserve", !.grant = holds[inv[i].hold].grant]
          BY <1>0, <3>3, Zenon
        <4>3. inv'[i].pc = "reserve"
          BY <4>1, <4>2, Zenon DEF Invocation
        <4> QED BY <3>1, <3>3, <4>3, Zenon
      <3> QED BY <3>1, <3>2, <3>3, Zenon
    <2>3. CASE Dispatch(i) \/ Abandon(i)
      BY <2>3, Zenon DEF Dispatch, Abandon
    <2>4. ASSUME NEW ok \in BOOLEAN, Executed(i, ok)
          PROVE  /\ serving' = serving /\ inv'[i].pc = "report"
                 /\ net' = net \cup {[from |-> i, step |-> "report"]}
      <3>1. inv[i] \in Invocation
        BY <1>0, <2>4 DEF NotStarted, Executed
      <3>2. inv'[i] = [inv[i] EXCEPT !.pc = "report", !.result = ReportResult(ok)]
        BY <1>0, <2>4, Zenon DEF Executed
      <3>3. inv'[i].pc = "report"
        BY <3>1, <3>2, Zenon DEF Invocation
      <3> QED BY <2>4, <3>3, Zenon DEF Executed
    <2> QED BY <1>1, <2>1, <2>2, <2>3, <2>4, Zenon DEF Wrapper
  <1>2. ASSUME NEW e \in Engines, Serve(e)
        PROVE  net' \subseteq net /\ serving' \in [Engines -> Invocations \cup {None}]
    <2>1. PICK r \in net : \/ \E h \in HoldIds, ttl \in Ttls : ServeCreate(e, r, h, ttl)
                           \/ ServeReserve(e, r) \/ ServeReport(e, r)
      BY <1>2, Zenon DEF Serve
    <2>2. net' = net \ {r} /\ (serving' = serving \/ serving' = [serving EXCEPT ![e] = r.from])
      BY <2>1, Zenon DEF ServeCreate, ServeReserve, ServeReport, Accept
    <2> QED BY <1>0, <2>2, Zenon
  <1>3. ASSUME NEW e \in Engines,
               Served(e) \/ Own(e) \/ ServiceFails(e) \/ \E t \in BootTrust : GateRestarts(e, t)
        PROVE  net' = net /\ serving' \in [Engines -> Invocations \cup {None}]
    <2>1. serving' = serving \/ serving' = [serving EXCEPT ![e] = None]
      BY <1>3, Zenon DEF Served, Own, ServiceFails, GateRestarts, guardVars
    <2>2. net' = net
      BY <1>3, Zenon DEF Served, Own, ServiceFails, GateRestarts, guardVars
    <2> QED BY <1>0, <2>1, <2>2, Zenon
  <1>4. CASE (\E r \in net : Lose(r)) \/ Ticks \/ UNCHANGED allVars
    BY <1>0, <1>4, Zenon DEF Lose, Ticks, guardVars, allVars
  <1>5. CASE \E i \in Invocations : Wrapper(i)
    BY <1>0, <1>1, <1>5, Zenon
  <1>6. CASE \E e \in Engines : \/ Serve(e) \/ Served(e) \/ Own(e) \/ ServiceFails(e)
                                \/ \E t \in BootTrust : GateRestarts(e, t)
    BY <1>2, <1>3, <1>6, Zenon
  <1> QED BY <1>4, <1>5, <1>6, Zenon DEF GuardNext

\* Every step of the composition keeps the phases.
LEMMA NextPhases ==
    ASSUME TypeOK, GrantsMatchApprovals, StoreKeeps, PhasesInv, AgentAssumption,
           [GuardNext]_allVars
    PROVE  PhasesInv' /\ \A i \in Invocations : Keeps(inv[i], inv'[i])
  <1>0. /\ TypeOK /\ GuardTypeOK /\ \A r \in net : SentOK(r)
        /\ inv \in [Invocations -> {NotStarted} \cup Invocation]
        /\ net \subseteq [from : Invocations, step : {"create", "reserve", "report"}]
    BY Zenon DEF PhasesInv, GuardTypeOK
  <1>1. StoreKeeps /\ OneMoves
    BY <1>0, GuardMoves, Zenon
  <1>2. ASSUME NEW i \in Invocations
        PROVE  /\ inv'[i] \in {NotStarted} \cup Invocation
               /\ inv[i] # NotStarted => inv'[i] \in Invocation
               /\ Keeps(inv[i], inv'[i]) /\ PhaseOK(inv'[i])
    <2>1. CASE inv'[i] = inv[i]
      BY <1>0, <2>1, Zenon DEF PhasesInv, Keeps
    <2>2. CASE Moved(i, inv'[i])
      BY <2>2, MovePhases, Zenon
    <2> QED BY <1>0, <1>1, <2>1, <2>2, OneMover, Zenon
  <1>3. ran' \subseteq [by : Invocations, hold : HoldIds, ok : BOOLEAN]
    <2>1. CASE ran' = ran
      BY <1>0, <2>1, Zenon DEF GuardTypeOK
    <2> QED BY <1>0, <1>1, <2>1, OneMover, MovePhases, Zenon
  <1>4. inv' \in [Invocations -> {NotStarted} \cup Invocation]
    <2>1. inv' = inv \/ \E i \in Invocations : \E y : inv' = [inv EXCEPT ![i] = y]
      BY <1>1, Zenon DEF OneMoves
    <2>2. DOMAIN inv' = Invocations /\ inv' = [i \in Invocations |-> inv'[i]]
      BY <1>0, <2>1, Zenon
    <2> QED BY <1>2, <2>2, Zenon
  <1>5. ASSUME NEW i \in Invocations
        PROVE  PhaseOK(inv[i])'
    <2> DEFINE x == inv'[i]
    <2>1. PhaseOK(x) /\ x \in {NotStarted} \cup Invocation
      BY <1>2, Zenon
    <2>2. CASE ~HasGrant(x)
      BY <2>1, <2>2, Zenon DEF PhaseOK, HasGrant
    <2>3. CASE HasGrant(x)
      <3>1. x.grant \in GrantIds /\ Exists(x.grant) /\ grants[x.grant].hold = x.hold
        BY <2>1, <2>3, Zenon DEF PhaseOK, HasGrant, Invocation
      <3>2. grants'[x.grant].status \in GrantStatus /\ grants'[x.grant].hold = x.hold
        BY <1>1, <3>1, Zenon DEF StoreKeeps, Exists
      <3> QED BY <2>1, <2>3, <3>2, Zenon DEF PhaseOK, HasGrant, Exists
    <2> QED BY <2>2, <2>3, Zenon
  <1>6. ASSUME NEW r \in net'
        PROVE  /\ r \in [from : Invocations, step : {"create", "reserve", "report"}]
               /\ SentOK(r)'
    <2>1. CASE r \in net
      <3>1. SentOK(r) /\ r.from \in Invocations
        BY <1>0, <2>1, Zenon
      <3>2. inv'[r.from] # NotStarted
        BY <1>2, <3>1 DEF SentOK, Invocation, NotStarted
      <3> QED BY <1>0, <1>2, <2>1, <3>1, <3>2, Zenon DEF SentOK, Keeps, HasGrant
    <2>2. CASE r \notin net
      <3>1. PICK i \in Invocations, s \in {"create", "reserve", "report"} :
              net' = net \cup {[from |-> i, step |-> s]} /\ inv'[i].pc = s
        BY <1>6, <2>2, StepSends, Zenon
      <3>2. r = [from |-> i, step |-> s]
        BY <1>6, <2>2, <3>1, Zenon
      <3>3. inv'[i] # NotStarted /\ (s \in {"reserve", "report"} => HasGrant(inv'[i]))
        BY <1>2, <3>1 DEF NotStarted, PhaseOK
      <3> QED BY <3>2, <3>3, Zenon DEF SentOK, HasGrant
    <2> QED BY <2>1, <2>2, Zenon
  <1>7. GuardTypeOK'
    BY <1>3, <1>4, <1>6, StepSends, Zenon DEF GuardTypeOK
  <1> QED BY <1>2, <1>5, <1>6, <1>7, Zenon DEF PhasesInv

-----------------------------------------------------------------------------
\* What the steps begin, and what they add to the executions

\* A reservation and a report are of the invocation that asks for them, and a
\* report says DISPATCHED when that invocation does.
AskedFor(f) ==
    /\ op'[f].kind = "reserve" /\ serving'[f] # None =>
          \/ op'[f] = op[f] /\ serving'[f] = serving[f]
          \/ HasGrant(inv[serving'[f]]) /\ op'[f].id = inv[serving'[f]].grant
    /\ op'[f].kind = "report" =>
          \/ op'[f] = op[f]
          \/ \E i \in Invocations :
                HasGrant(inv[i]) /\ inv[i].result = "DISPATCHED" /\ op'[f].id = inv[i].grant

\* Every step of the composition begins what was asked for.
LEMMA StepAsks ==
    ASSUME TypeOK, PhasesInv, [GuardNext]_allVars, NEW f \in Engines
    PROVE  AskedFor(f)
  <1>0. /\ op \in [Engines -> Operation] /\ serving \in [Engines -> Invocations \cup {None}]
        /\ \A r \in net : SentOK(r) /\ r.from \in Invocations
    BY Zenon DEF TypeOK, PhasesInv, GuardTypeOK
  <1>1. CASE op'[f] = op[f] /\ serving'[f] = serving[f]
    BY <1>1, Zenon DEF AskedFor
  <1>2. CASE op'[f].kind \notin {"reserve", "report"}
    BY <1>2, Zenon DEF AskedFor
  <1>3. ASSUME NEW e \in Engines, NEW x, op' = [op EXCEPT ![e] = x], x.kind \notin {"reserve", "report"},
               \/ serving' = serving \/ serving' = [serving EXCEPT ![e] = None]
               \/ \E i \in Invocations : serving' = [serving EXCEPT ![e] = i]
        PROVE  AskedFor(f)
    BY <1>0, <1>1, <1>2, <1>3, Zenon
  <1>4. ASSUME NEW e \in Engines, Serve(e)
        PROVE  AskedFor(f)
    <2>1. PICK r \in net : \/ \E h \in HoldIds, ttl \in Ttls : ServeCreate(e, r, h, ttl)
                           \/ ServeReserve(e, r) \/ ServeReport(e, r)
      BY <1>4, Zenon DEF Serve
    <2>2. CASE UNCHANGED <<vars, serving>>
      BY <1>1, <2>2, Zenon DEF vars
    <2>3. ASSUME NEW h \in HoldIds, NEW ttl \in Ttls, ServeCreate(e, r, h, ttl)
          PROVE  AskedFor(f)
      <3> DEFINE z == inv[r.from]
                 x == [kind |-> "create", id |-> h, rec |-> NewHold(e, agent, z.key, z.body, z.chain, ttl, h)]
      <3>1. UNCHANGED <<vars, serving>> \/ (Begin(e, x) /\ Accept(e, r))
        BY <2>3, Zenon DEF ServeCreate, CreateHold
      <3>2. x.kind = "create"
        BY Zenon
      <3> HIDE DEF x
      <3> QED BY <1>0, <1>3, <2>2, <3>1, <3>2, Zenon DEF Begin, Accept
    <2>4. CASE ServeReserve(e, r)
      <3> DEFINE x == [kind |-> "reserve", id |-> inv[r.from].grant]
      <3>1. UNCHANGED <<vars, serving>> \/ (Begin(e, x) /\ Accept(e, r))
        BY <2>4, Zenon DEF ServeReserve, ReserveGrant
      <3>2. HasGrant(inv[r.from])
        BY <1>0, <2>4, Zenon DEF ServeReserve, SentOK
      <3>3. CASE Begin(e, x) /\ Accept(e, r)
        <4>1. f # e => op'[f] = op[f] /\ serving'[f] = serving[f]
          BY <1>0, <3>3, Zenon DEF Begin, Accept
        <4>2. op'[e] = x /\ serving'[e] = r.from
          BY <1>0, <3>3, Zenon DEF Begin, Accept
        <4> QED BY <1>1, <3>2, <4>1, <4>2 DEF AskedFor
      <3> QED BY <2>2, <3>1, <3>3, Zenon
    <2>5. CASE ServeReport(e, r)
      <3> DEFINE g == inv[r.from].grant
      <3>1. \/ UNCHANGED <<vars, serving>>
            \/ /\ inv[r.from].result = "DISPATCHED"
               /\ Begin(e, [kind |-> "report", id |-> g]) /\ Accept(e, r)
            \/ /\ Begin(e, [kind |-> "hint", id |-> g, rec |-> Hinted(g, "UNKNOWN")])
               /\ Accept(e, r)
        BY <2>5, Zenon DEF ServeReport, ReportDispatched, ReportHint
      <3>2. HasGrant(inv[r.from])
        BY <1>0, <2>5, SMTT(30) DEF ServeReport, SentOK
      <3>3. CASE /\ inv[r.from].result = "DISPATCHED"
                 /\ Begin(e, [kind |-> "report", id |-> g]) /\ Accept(e, r)
        <4>1. f # e => op'[f] = op[f] /\ serving'[f] = serving[f]
          BY <1>0, <3>3, Zenon DEF Begin, Accept
        <4>2. op'[e] = [kind |-> "report", id |-> g]
          BY <1>0, <3>3, Zenon DEF Begin
        <4> QED BY <1>0, <1>1, <3>2, <3>3, <4>1, <4>2 DEF AskedFor
      <3>4. CASE /\ Begin(e, [kind |-> "hint", id |-> g, rec |-> Hinted(g, "UNKNOWN")])
                 /\ Accept(e, r)
        BY <1>0, <1>3, <3>4, Zenon DEF Begin, Accept
      <3> QED BY <2>2, <3>1, <3>3, <3>4, Zenon
    <2> QED BY <2>1, <2>3, <2>4, <2>5, Zenon
  <1>5. ASSUME NEW e \in Engines, Served(e)
        PROVE  AskedFor(f)
    <2>1. serving' = serving \/ serving' = [serving EXCEPT ![e] = None]
      BY <1>5, Zenon DEF Served
    <2>2. CASE op' = [op EXCEPT ![e] = Idle]
      BY <1>3, <2>1, <2>2, Zenon DEF Idle
    <2>3. CASE \/ PutHold(e) \/ ClaimStatus(e) \/ PutConsumption(e) \/ Corroborate(e) \/ SettleHold(e)
      BY <2>2, <2>3, Zenon DEF PutHold, ClaimStatus, PutConsumption, Corroborate, SettleHold, Finish
    <2>4. CASE ClaimReported(e)
      <3> DEFINE x == [kind |-> "consume", id |-> op[e].id,
                       rec |-> [grants[op[e].id] EXCEPT !.status = "REPORTED", !.reportedAt = "set"]]
      <3>1. op' = [op EXCEPT ![e] = Idle] \/ op' = [op EXCEPT ![e] = x]
        BY <2>4, Zenon DEF ClaimReported
      <3>2. x.kind = "consume"
        BY Zenon
      <3> HIDE DEF x
      <3> QED BY <1>3, <2>1, <2>2, <3>1, <3>2, Zenon
    <2>5. CASE PutHint(e)
      <3>1. op' = [op EXCEPT ![e] = [op[e] EXCEPT !.kind = "corroborate"]] /\ op[e].kind = "hint"
        BY <2>5, Zenon DEF PutHint
      <3>2. [op[e] EXCEPT !.kind = "corroborate"].kind = "corroborate"
        BY <1>0, <3>1 DEF Operation, Idle
      <3> QED BY <1>3, <2>1, <3>1, <3>2, Zenon
    <2> QED BY <1>5, <2>3, <2>4, <2>5, Zenon DEF Served
  <1>6. ASSUME NEW e \in Engines, Own(e)
        PROVE  AskedFor(f)
    <2>1. \E x : Begin(e, x) /\ x.kind \in {"settle", "corroborate"}
      <3>1. \A h, s : Settlement(e, h, s).kind = "settle"
        BY Zenon DEF Settlement
      <3>2. \A h, g : Approval(e, h, g).kind = "settle"
        BY Zenon DEF Approval
      <3>3. ASSUME NEW h, NEW v, NEW g, DecideHold(e, h, v, g)
            PROVE  \E x : Begin(e, x) /\ x.kind = "settle"
        BY <3>1, <3>2, <3>3, Zenon DEF DecideHold
      <3>4. ASSUME NEW h, ExpireHold(e, h)
            PROVE  \E x : Begin(e, x) /\ x.kind = "settle"
        BY <3>1, <3>4, Zenon DEF ExpireHold
      <3>5. ASSUME NEW g, SweepGrant(e, g)
            PROVE  \E x : Begin(e, x) /\ x.kind = "corroborate"
        BY <3>5 DEF SweepGrant
      <3> QED BY <1>6, <3>3, <3>4, <3>5, Zenon DEF Own, Sweep
    <2> QED BY <1>3, <1>6, <2>1, Zenon DEF Own, guardVars, Begin
  <1>7. ASSUME NEW e \in Engines, ServiceFails(e) \/ \E t \in BootTrust : GateRestarts(e, t)
        PROVE  AskedFor(f)
    <2>1. op' = [op EXCEPT ![e] = Idle] /\ serving' = [serving EXCEPT ![e] = None]
      BY <1>7, Zenon DEF ServiceFails, GateRestarts, SignerFails, Finish, Restart
    <2> QED BY <1>3, <2>1, Zenon DEF Idle
  <1>8. ASSUME (\E i \in Invocations : Wrapper(i)) \/ (\E r \in net : Lose(r)) \/ Ticks \/ UNCHANGED allVars
        PROVE  AskedFor(f)
    <2>1. op' = op /\ serving' = serving
      BY <1>8, Zenon DEF Wrapper, CallCreate, Wait, Dispatch, Executed, Abandon, Lose, Ticks, Tick,
                         guardVars, allVars, vars
    <2> QED BY <1>1, <2>1, Zenon
  <1> QED BY <1>4, <1>5, <1>6, <1>7, <1>8, Zenon DEF GuardNext

\* Who is on the list of executions was running, or runs now.
LEMMA MoveRuns ==
    ASSUME NEW i \in Invocations, NEW y, Moved(i, y), NEW x \in ran'
    PROVE  \/ x \in ran
           \/ /\ x.by = i /\ x.hold = inv[i].hold
              /\ Runs(i, y) \/ Returns(i, y)
  <1>1. CASE Runs(i, y)
    BY <1>1 DEF Runs
  <1>2. CASE Returns(i, y)
    <2>1. PICK ok \in BOOLEAN :
            ran' = (ran \ {[by |-> i, hold |-> inv[i].hold, ok |-> FALSE]})
                      \cup {[by |-> i, hold |-> inv[i].hold, ok |-> ok]}
      BY <1>2, Zenon DEF Returns
    <2>2. x \in ran \/ x = [by |-> i, hold |-> inv[i].hold, ok |-> ok]
      BY <2>1, SMTT(30)
    <2> QED BY <1>2, <2>2
  <1> QED BY <1>1, <1>2, Zenon DEF Moved, Starts, Finds, Asks, Wins, Ends

-----------------------------------------------------------------------------
\* The winner

\* An invocation that won its grant, whatever became of it since.
Won(i) ==
    \/ inv[i].pc \in {"dispatch", "running", "report"}
    \/ \E x \in ran : x.by = i

\* The grant of a winner is spent and no one else won it, the executor runs for
\* the winner's hold, and a reservation is of the grant of who asked for it.
WinnersInv ==
    /\ \A i \in Invocations : Won(i) => HasGrant(inv[i]) /\ Taken(grants[inv[i].grant])
    /\ \A i, j \in Invocations : Won(i) /\ Won(j) /\ inv[i].grant = inv[j].grant => i = j
    /\ \A x \in ran : x.hold = inv[x.by].hold
    /\ \A e \in Engines : op[e].kind = "reserve" /\ serving[e] # None =>
          HasGrant(inv[serving[e]]) /\ op[e].id = inv[serving[e]].grant

\* Every step of the composition keeps the winners.
LEMMA NextWinners ==
    ASSUME TypeOK, GrantsMatchApprovals, StoreKeeps, PhasesInv, WinnersInv, AgentAssumption,
           [GuardNext]_allVars
    PROVE  WinnersInv'
  <1>0. /\ TypeOK /\ GuardTypeOK /\ ran \subseteq [by : Invocations, hold : HoldIds, ok : BOOLEAN]
        /\ op \in [Engines -> Operation] /\ serving \in [Engines -> Invocations \cup {None}]
        /\ grants \in [GrantIds -> GrantRecord \cup {Absent}]
    BY Zenon DEF PhasesInv, GuardTypeOK, TypeOK
  <1>1. StoreKeeps /\ OneMoves /\ PhasesInv' /\ \A i \in Invocations : Keeps(inv[i], inv'[i])
    BY <1>0, GuardMoves, NextPhases, Zenon
  <1>2. /\ ran' \subseteq [by : Invocations, hold : HoldIds, ok : BOOLEAN]
        /\ serving' \in [Engines -> Invocations \cup {None}]
    BY <1>1, Zenon DEF PhasesInv, GuardTypeOK
  <1>3. ASSUME NEW i \in Invocations, HasGrant(inv[i])
        PROVE  /\ inv[i].grant \in GrantIds /\ Exists(inv[i].grant)
               /\ HasGrant(inv'[i]) /\ inv'[i].grant = inv[i].grant /\ inv'[i].hold = inv[i].hold
    <2>1. inv[i] \in Invocation /\ inv[i].grant # None /\ PhaseOK(inv[i])
      BY <1>0, <1>3, Zenon DEF PhasesInv, GuardTypeOK, HasGrant
    <2>2. inv[i].grant \in GrantIds /\ Exists(inv[i].grant)
      BY <1>3, <2>1, Zenon DEF PhaseOK, Invocation
    <2> QED BY <1>1, <1>3, <2>2, Zenon DEF Keeps
  <1>4. ASSUME NEW i \in Invocations, Won(i)', ~Won(i)
        PROVE  Wins(i, inv'[i]) /\ \A j \in Invocations \ {i} : inv'[j] = inv[j] /\ ran' = ran
    <2>1. PICK k \in Invocations :
            Moved(k, inv'[k]) /\ \A j \in Invocations \ {k} : inv'[j] = inv[j]
      BY <1>0, <1>1, <1>4, OneMover, Zenon DEF Won
    <2>2. ASSUME NEW x \in ran', x.by = i
          PROVE  FALSE
      <3>1. x \in ran \/ (x.by = k /\ (Runs(k, inv'[k]) \/ Returns(k, inv'[k])))
        BY <2>1, MoveRuns, Zenon
      <3>2. x \in ran \/ inv[i].pc \in {"dispatch", "running"}
        BY <2>2, <3>1, Zenon DEF Runs, Returns
      <3> QED BY <1>4, <2>2, <3>2, Zenon DEF Won
    <2>3. inv'[i].pc \in {"dispatch", "running", "report"}
      BY <1>4, <2>2, Zenon DEF Won
    <2>4. k = i
      BY <1>4, <2>1, <2>3, Zenon DEF Won
    <2>5. inv[i].pc # "idle" => inv[i] \in Invocation
      BY <1>0 DEF GuardTypeOK, NotStarted
    <2>6. ~Starts(i, inv'[i])
      BY <2>3, Zenon DEF Starts
    <2>7. ~Finds(i, inv'[i]) /\ ~Asks(i, inv'[i]) /\ ~Ends(i, inv'[i])
      BY <2>3, <2>5, Zenon DEF Finds, Asks, Ends, Invocation
    <2>8. ~Runs(i, inv'[i]) /\ ~Returns(i, inv'[i])
      BY <1>4, Zenon DEF Won, Runs, Returns
    <2> QED BY <2>1, <2>4, <2>6, <2>7, <2>8, Zenon DEF Moved, Wins
  <1>5. ASSUME NEW i \in Invocations, Wins(i, inv'[i])
        PROVE  /\ HasGrant(inv[i]) /\ grants[inv[i].grant].status = "UNUSED"
               /\ Taken(grants'[inv[i].grant])
    <2>1. PICK e \in Engines :
            ClaimStatus(e) /\ serving[e] = i /\ i # None /\ ClaimStatusWins(op[e].id)
      BY <1>5, Zenon DEF Wins
    <2>2. op[e].kind = "reserve"
      BY <2>1, Zenon DEF ClaimStatus
    <2>3. HasGrant(inv[i]) /\ op[e].id = inv[i].grant
      BY <2>1, <2>2, Zenon DEF WinnersInv
    <2>4. inv[i].grant \in GrantIds /\ grants[inv[i].grant] \in GrantRecord
      BY <1>0, <1>3, <2>3 DEF Exists, GrantStatus, Absent
    <2>5. grants'[inv[i].grant].status = "RESERVED"
      <3>1. grants' = [grants EXCEPT ![op[e].id].status = "RESERVED", ![op[e].id].reservedAt = now]
        BY <2>1, Zenon DEF ClaimStatus
      <3>2. grants'[op[e].id] = [grants[op[e].id] EXCEPT !.status = "RESERVED", !.reservedAt = now]
        BY <1>0, <2>3, <2>4, <3>1, Zenon
      <3> QED BY <2>3, <2>4, <3>2, Zenon DEF GrantRecord
    <2> QED BY <2>1, <2>3, <2>5, Zenon DEF ClaimStatusWins, Taken
  <1>6. ASSUME NEW i \in Invocations, Won(i)
        PROVE  HasGrant(inv[i]) /\ Taken(grants[inv[i].grant]) /\ Taken(grants'[inv[i].grant])
    BY <1>1, <1>3, <1>6, Zenon DEF WinnersInv, StoreKeeps
  <1>7. ASSUME NEW i \in Invocations, Won(i)'
        PROVE  HasGrant(inv'[i]) /\ inv'[i].grant = inv[i].grant /\ Taken(grants'[inv'[i].grant])
    BY <1>3, <1>4, <1>5, <1>6, <1>7, Zenon
  <1>8. ASSUME NEW i \in Invocations, NEW j \in Invocations, Won(i)', Won(j)',
               inv'[i].grant = inv'[j].grant
        PROVE  i = j
    <2>1. inv[i].grant = inv[j].grant
      BY <1>7, <1>8, Zenon
    <2>2. CASE Won(i) /\ Won(j)
      BY <2>1, <2>2, Zenon DEF WinnersInv
    <2>3. CASE ~Won(i) /\ Won(j)
      BY <1>4, <1>5, <1>6, <1>8, <2>1, <2>3, Zenon DEF Taken
    <2>4. CASE Won(i) /\ ~Won(j)
      BY <1>4, <1>5, <1>6, <1>8, <2>1, <2>4, Zenon DEF Taken
    <2>5. CASE ~Won(i) /\ ~Won(j)
      <3> SUFFICES ASSUME i # j PROVE FALSE
        BY Zenon
      <3>1. Wins(i, inv'[i]) /\ inv'[i] = inv[i]
        BY <1>4, <1>8, <2>5, Zenon
      <3>2. inv[i].pc = "reserve" /\ inv[i] \in Invocation
        BY <1>0, <3>1 DEF Wins, GuardTypeOK, NotStarted
      <3> QED BY <3>1, <3>2, Zenon DEF Wins, Invocation
    <2> QED BY <2>2, <2>3, <2>4, <2>5, Zenon
  <1>9. ASSUME NEW x \in ran'
        PROVE  x.hold = inv'[x.by].hold
    <2>1. x.by \in Invocations
      BY <1>2, Zenon
    <2>2. CASE x \in ran
      <3>1. Won(x.by) /\ x.hold = inv[x.by].hold
        BY <2>2, Zenon DEF Won, WinnersInv
      <3> QED BY <1>3, <1>6, <2>1, <3>1, Zenon
    <2>3. CASE x \notin ran
      <3>1. PICK k \in Invocations : Moved(k, inv'[k])
        BY <1>0, <1>1, <2>3, OneMover, Zenon
      <3>2. x.by = k /\ x.hold = inv[k].hold /\ (Runs(k, inv'[k]) \/ Returns(k, inv'[k]))
        BY <2>3, <3>1, MoveRuns, Zenon
      <3>3. Won(k)
        BY <3>2, Zenon DEF Runs, Returns, Won
      <3> QED BY <1>3, <1>6, <3>2, <3>3, Zenon
    <2> QED BY <2>2, <2>3, Zenon
  <1>10. ASSUME NEW e \in Engines, op'[e].kind = "reserve", serving'[e] # None
         PROVE  HasGrant(inv'[serving'[e]]) /\ op'[e].id = inv'[serving'[e]].grant
    <2>1. serving'[e] \in Invocations
      BY <1>2, <1>10, SMTT(30)
    <2>2. HasGrant(inv[serving'[e]]) /\ op'[e].id = inv[serving'[e]].grant
      BY <1>0, <1>10, StepAsks, Zenon DEF AskedFor, WinnersInv
    <2> QED BY <1>3, <2>1, <2>2, Zenon
  <1> QED BY <1>7, <1>8, <1>9, <1>10, Zenon DEF WinnersInv, HasGrant

-----------------------------------------------------------------------------
\* What the callers were told

\* A caller told a terminal status was told what the store holds.
Told(x) ==
    x # NotStarted /\ x.pc = "done" /\ x.outcome \in Settled =>
        /\ x.hold \in HoldIds /\ x.outcome # "APPROVED"
        /\ holds[x.hold].status = x.outcome

ToldInv == \A i \in Invocations : Told(inv[i])

\* Every step of the composition keeps what the callers were told.
LEMMA NextTold ==
    ASSUME TypeOK, GrantsMatchApprovals, StoreKeeps, PhasesInv, ToldInv, AgentAssumption,
           [GuardNext]_allVars
    PROVE  ToldInv'
  <1>0. TypeOK /\ GuardTypeOK
    BY Zenon DEF PhasesInv
  <1>1. StoreKeeps /\ OneMoves
    BY <1>0, GuardMoves, Zenon
  <1>2. ASSUME NEW i \in Invocations
        PROVE  Told(inv[i])'
    <2> DEFINE y == inv'[i]
    <2>1. SUFFICES ASSUME y # NotStarted, y.pc = "done", y.outcome \in Settled
                   PROVE  /\ y.hold \in HoldIds /\ y.outcome # "APPROVED"
                          /\ holds[y.hold].status = y.outcome
      BY <1>1, Zenon DEF Told, StoreKeeps
    <2>2. CASE y = inv[i]
      BY <2>1, <2>2, Zenon DEF ToldInv, Told
    <2>3. CASE Moved(i, y)
      <3>0. PhaseOK(inv[i]) /\ (inv[i].pc # "idle" => inv[i] \in Invocation)
        BY <1>0 DEF PhasesInv, GuardTypeOK, NotStarted
      <3>1. CASE Ends(i, y)
        <4>1. PICK o \in Outcomes :
                /\ y = [inv[i] EXCEPT !.pc = "done", !.outcome = o]
                /\ o \in Settled =>
                      inv[i].pc = "wait" /\ o = holds[inv[i].hold].status /\ o # "APPROVED"
          BY <3>1, Zenon DEF Ends
        <4>2. inv[i] \in Invocation
          BY <3>0, <3>1, Zenon DEF Ends
        <4>3. y.outcome = o /\ y.hold = inv[i].hold
          BY <4>1, <4>2, Zenon DEF Invocation
        <4>4. inv[i].pc = "wait" => inv[i].hold \in HoldIds
          BY <3>0, Zenon DEF PhaseOK
        <4> QED BY <2>1, <4>1, <4>3, <4>4, Zenon
      <3>2. CASE Starts(i, y)
        BY <2>1, <3>2, Zenon DEF Starts
      <3>3. CASE Finds(i, y) \/ Asks(i, y) \/ Wins(i, y) \/ Runs(i, y) \/ Returns(i, y)
        <4>1. inv[i].pc # "idle"
          BY <3>3, Zenon DEF Finds, Asks, Wins, Runs, Returns
        <4>2. y.pc \in {"wait", "reserve", "dispatch", "running", "report"}
          BY <3>0, <3>3, <4>1, Zenon DEF Finds, Asks, Wins, Runs, Returns, Invocation
        <4> QED BY <2>1, <4>2, Zenon
      <3> QED BY <2>3, <3>1, <3>2, <3>3, Zenon DEF Moved
    <2> QED BY <1>0, <1>1, <2>2, <2>3, OneMover, Zenon
  <1> QED BY <1>2, Zenon DEF ToldInv

-----------------------------------------------------------------------------
\* The gate underneath

\* The gate underneath keeps what its invariant promises.
LEMMA StepKeeps ==
    ASSUME IInv, ConstantsAssumption, [Next]_vars
    PROVE  StoreKeeps
  <1>1. TypeOK /\ OpsCurrent /\ TypeOK'
    BY NextInv, Zenon DEF IInv
  <1>2. ASSUME NEW e \in Engines, Write(e)
        PROVE  StoreKeeps
    <2>1. HoldsGrow(e) /\ GrantsGrow(e)
      BY <1>1, <1>2, WriteGrows, Zenon
    <2>2. \A g \in GrantIds : grants'[g] # Absent => Exists(g)'
      BY <1>1, Zenon DEF TypeOK, Exists, GrantRecord
    <2>3. \A g \in GrantIds : Exists(g) => grants[g] # Absent
      BY DEF Exists, Absent, GrantStatus
    <2>4. \A h \in HoldIds : holds[h].status \in Settled => holds[h] # Absent
      BY DEF Absent, Settled
    <2> QED BY <2>1, <2>2, <2>3, <2>4, Zenon DEF HoldsGrow, GrantsGrow, StoreKeeps, Spent, Taken
  <1>3. CASE UNCHANGED <<store, history>>
    BY <1>3, Zenon DEF StoreKeeps, Taken, store, Exists
  <1> QED BY <1>2, <1>3, NextStore, Zenon

\* An operation that begins on a grant carries the consumption it read.
LEMMA BegunOnGrant ==
    ASSUME TypeOK, NEW f, NEW o, BeginsOnGrant(f, o)
    PROVE  \E g \in GrantIds :
              /\ Exists(g) /\ grants[g] \in GrantRecord
              /\ o.id = g /\ o.kind \in {"reserve", "report", "hint", "corroborate"}
              /\ o.kind \in {"hint", "corroborate"} =>
                    o.rec.consumption = grants[g].consumption
  <1>1. PICK g \in GrantIds :
          /\ Exists(g)
          /\ \/ o = [kind |-> "reserve", id |-> g]
             \/ o = [kind |-> "report", id |-> g]
             \/ \E r \in {"FAILED_BEFORE_DISPATCH", "UNKNOWN"} :
                   o = [kind |-> "hint", id |-> g, rec |-> Hinted(g, r)]
             \/ o = [kind |-> "corroborate", id |-> g, rec |-> grants[g]]
    BY Zenon DEF BeginsOnGrant
  <1>2. grants[g] \in GrantRecord
    BY <1>1 DEF TypeOK, Exists, GrantStatus, Absent
  <1>3. CASE \E r \in {"FAILED_BEFORE_DISPATCH", "UNKNOWN"} :
                o = [kind |-> "hint", id |-> g, rec |-> Hinted(g, r)]
    BY <1>1, <1>2, <1>3, SMTT(30) DEF Hinted, GrantRecord
  <1> QED BY <1>1, <1>2, <1>3

-----------------------------------------------------------------------------
\* The record

\* The executor ran for hold h and returned ok.
Done(h) == \E x \in ran : x.hold = h /\ x.ok

\* Whatever says that an action was dispatched says so of one that was: a
\* wrapper's result, a stored consumption, a report in progress, and the copy of
\* a grant that a handler carries.
ResultTrue(x) ==
    x # NotStarted /\ x.result = "DISPATCHED" => HasGrant(x) /\ Done(x.hold)

OpTrue(o) ==
    /\ o.kind \in {"report", "consume"} => Done(grants[o.id].hold)
    /\ o.kind \in {"hint", "corroborate"} /\ o.rec.consumption = "signed" => Done(grants[o.id].hold)
    /\ o.kind = "settle" /\ o.gid # None => o.grant.consumption = "null"

RecordsInv ==
    /\ \A i \in Invocations : ResultTrue(inv[i])
    /\ ConsumptionIsTrue
    /\ \A e \in Engines : OpTrue(op[e])

\* What was done stays done.
LEMMA DoneStays ==
    ASSUME GuardTypeOK, OneMoves, NEW h, Done(h)
    PROVE  Done(h)'
  <1>1. PICK x \in ran : x.hold = h /\ x.ok
    BY Zenon DEF Done
  <1>2. x.ok # FALSE
    BY <1>1, Zenon DEF GuardTypeOK
  <1>3. ASSUME NEW i \in Invocations, NEW y, Moved(i, y)
        PROVE  x \in ran'
    <2>1. CASE Runs(i, y)
      BY <1>1, <2>1, Zenon DEF Runs
    <2>2. CASE Returns(i, y)
      BY <1>1, <1>2, <2>2 DEF Returns
    <2>3. CASE ran' = ran
      BY <1>1, <2>3, Zenon
    <2> QED BY <1>3, <2>1, <2>2, <2>3, Zenon DEF Moved, Starts, Finds, Asks, Wins, Ends
  <1>4. x \in ran'
    BY <1>1, <1>3, Zenon DEF OneMoves
  <1> QED BY <1>1, <1>4, Zenon DEF Done

\* A wrapper says DISPATCHED of what it saw return ok.
LEMMA MoveResult ==
    ASSUME PhasesInv, NEW i \in Invocations, NEW y, Moved(i, y), y \in Invocation,
           y.result = "DISPATCHED"
    PROVE  \/ inv[i] # NotStarted /\ inv[i].result = "DISPATCHED"
           \/ HasGrant(inv[i]) /\ \E x \in ran' : x.hold = inv[i].hold /\ x.ok
  <1>0. inv[i] \in {NotStarted} \cup Invocation /\ PhaseOK(inv[i])
    BY Zenon DEF PhasesInv, GuardTypeOK
  <1>1. CASE Starts(i, y)
    BY <1>1, Zenon DEF Starts
  <1>2. CASE Returns(i, y)
    <2>1. PICK ok \in BOOLEAN :
            /\ y = [inv[i] EXCEPT !.pc = "report", !.result = ReportResult(ok)]
            /\ ran' = (ran \ {[by |-> i, hold |-> inv[i].hold, ok |-> FALSE]})
                         \cup {[by |-> i, hold |-> inv[i].hold, ok |-> ok]}
      BY <1>2, Zenon DEF Returns
    <2>2. inv[i] \in Invocation /\ HasGrant(inv[i])
      BY <1>0, <1>2 DEF Returns, PhaseOK, NotStarted
    <2>3. ReportResult(ok) = "DISPATCHED"
      BY <2>1, <2>2, Zenon DEF Invocation
    <2>4. ok
      BY <2>3, Zenon DEF ReportResult
    <2>5. [by |-> i, hold |-> inv[i].hold, ok |-> ok] \in ran'
      BY <2>1, Zenon
    <2> QED BY <2>2, <2>4, <2>5, Zenon
  <1>3. CASE Finds(i, y) \/ Asks(i, y) \/ Wins(i, y) \/ Runs(i, y) \/ Ends(i, y)
    <2>0. inv[i].pc # "idle"
      BY <1>3, Zenon DEF Finds, Asks, Wins, Runs, Ends
    <2>1. inv[i] \in Invocation
      BY <1>0, <2>0 DEF NotStarted
    <2>2. y.result = inv[i].result
      BY <1>3, <2>1, Zenon DEF Finds, Asks, Wins, Runs, Ends, Invocation
    <2> QED BY <2>1, <2>2 DEF Invocation, NotStarted
  <1> QED BY <1>1, <1>2, <1>3, Zenon DEF Moved

\* Every step of the composition keeps the record true.
LEMMA NextRecords ==
    ASSUME IInv, PhasesInv, RecordsInv, ConstantsAssumption, AgentAssumption, [GuardNext]_allVars
    PROVE  RecordsInv'
  <1>0. /\ TypeOK /\ OpsCurrent /\ GuardTypeOK /\ inv \in [Invocations -> {NotStarted} \cup Invocation]
        /\ op \in [Engines -> Operation] /\ grants \in [GrantIds -> GrantRecord \cup {Absent}]
    BY Zenon DEF IInv, PhasesInv, GuardTypeOK, TypeOK
  <1>1. /\ [Next]_vars /\ StoreKeeps /\ OneMoves /\ PhasesInv'
        /\ \A i \in Invocations : Keeps(inv[i], inv'[i])
    BY <1>0, GuardStep, StepKeeps, GuardMoves, NextPhases, Zenon DEF IInv
  <1>2. ASSUME NEW g \in GrantIds, Exists(g), Done(grants[g].hold)
        PROVE  Done(grants[g].hold)'
    <2> DEFINE h == grants[g].hold
    <2>1. grants'[g].hold = h
      BY <1>1, <1>2, Zenon DEF StoreKeeps
    <2>2. \E x \in ran' : x.hold = h /\ x.ok
      <3> HIDE DEF h
      <3>1. \A k : Done(k) => \E x \in ran' : x.hold = k /\ x.ok
        BY <1>0, <1>1, DoneStays, Zenon DEF Done
      <3> QED BY <1>2, <3>1, Zenon DEF h
    <2> QED BY <2>1, <2>2, Zenon DEF Done
  <1>3. ASSUME NEW i \in Invocations
        PROVE  ResultTrue(inv[i])'
    <2>1. SUFFICES ASSUME inv'[i] # NotStarted, inv'[i].result = "DISPATCHED"
                   PROVE  HasGrant(inv'[i]) /\ \E x \in ran' : x.hold = inv'[i].hold /\ x.ok
      BY Zenon DEF ResultTrue, Done, HasGrant
    <2>2. inv'[i] \in Invocation
      BY <1>1, <2>1, Zenon DEF PhasesInv, GuardTypeOK
    <2>3. CASE inv[i] # NotStarted /\ inv[i].result = "DISPATCHED"
      <3>1. HasGrant(inv[i]) /\ Done(inv[i].hold)
        BY <2>3, Zenon DEF RecordsInv, ResultTrue
      <3>2. \A k : Done(k) => \E x \in ran' : x.hold = k /\ x.ok
        BY <1>0, <1>1, DoneStays, Zenon DEF Done
      <3> QED BY <1>1, <3>1, <3>2, Zenon DEF Keeps
    <2>4. CASE ~(inv[i] # NotStarted /\ inv[i].result = "DISPATCHED")
      <3>1. Moved(i, inv'[i])
        BY <1>0, <1>1, <2>1, <2>4, OneMover, Zenon
      <3>2. HasGrant(inv[i]) /\ \E x \in ran' : x.hold = inv[i].hold /\ x.ok
        BY <2>1, <2>2, <2>4, <3>1, MoveResult, Zenon
      <3> QED BY <1>1, <3>2, Zenon DEF Keeps
    <2> QED BY <2>3, <2>4, Zenon
  <1>4. ASSUME NEW g \in GrantIds, Exists(g)', grants'[g].consumption = "signed"
        PROVE  Done(grants[g].hold)'
    <2> SUFFICES Exists(g) /\ Done(grants[g].hold)
      BY <1>2, Zenon
    <2>1. CASE grants'[g] = grants[g]
      BY <1>4, <2>1, Zenon DEF RecordsInv, ConsumptionIsTrue, Done, Exists
    <2>2. CASE grants'[g] # grants[g]
      <3>1. PICK e \in Engines : Write(e)
        BY <1>1, <2>2, NextStore, Zenon DEF store
      <3>2. GrantWritten(e, g) /\ GrantCurrent(e) /\ SettleCurrent(e) /\ OpTrue(op[e])
        BY <1>0, <2>2, <3>1, WriteGrants, Zenon DEF OpsCurrent, RecordsInv
      <3> DEFINE o == op[e]
      <3>3. o.kind # "settle" \/ o.gid # g
        <4>1. g # None
          BY ConstantsAssumption, Zenon DEF ConstantsAssumption
        <4>2. SUFFICES ASSUME o.kind = "settle", o.gid = g PROVE FALSE
          BY Zenon
        <4> QED BY <1>4, <3>2, <4>1, <4>2, Zenon DEF GrantWritten, OpTrue
      <3>4. o.id = g /\ o.kind \in {"reserve", "report", "consume", "hint", "corroborate"}
        BY <3>2, <3>3, Zenon DEF GrantWritten
      <3>5. Exists(g) /\ grants[g] \in GrantRecord
        BY <1>0, <3>2, <3>4 DEF GrantCurrent, Exists, GrantStatus, Absent
      <3>6. CASE o.kind \in {"reserve", "report"}
        <4>1. grants[g].consumption = "signed"
          BY <1>4, <3>2, <3>5, <3>6, Zenon DEF GrantWritten, GrantRecord
        <4> QED BY <3>5, <4>1, Zenon DEF RecordsInv, ConsumptionIsTrue, Done
      <3>7. CASE o.kind = "consume"
        BY <3>2, <3>4, <3>5, <3>7, Zenon DEF OpTrue
      <3>8. CASE o.kind \in {"hint", "corroborate"}
        <4>1. o.rec \in GrantRecord
          BY <1>0, <3>8, OperationKinds, Zenon
        <4>2. grants'[g] = o.rec \/ grants'[g] = [o.rec EXCEPT !.uncertainty = "signed"]
          BY <3>2, <3>4, <3>8, Zenon DEF GrantWritten
        <4>3. o.rec.consumption = "signed"
          BY <1>4, <4>1, <4>2, Zenon DEF GrantRecord
        <4> QED BY <3>2, <3>4, <3>5, <3>8, <4>3, Zenon DEF OpTrue
      <3> QED BY <3>4, <3>6, <3>7, <3>8, Zenon
    <2> QED BY <2>1, <2>2, Zenon
  <1>5. ASSUME NEW f \in Engines
        PROVE  OpTrue(op[f])'
    <2>0. op[f] \in Operation /\ GrantCurrent(f) /\ OpTrue(op[f])
      BY <1>0, Zenon DEF OpsCurrent, RecordsInv
    <2>1. ASSUME op[f].kind \in {"report", "consume", "hint", "corroborate"}, Done(grants[op[f].id].hold)
          PROVE  op[f].id \in GrantIds /\ \E x \in ran' : x.hold = grants'[op[f].id].hold /\ x.ok
      <3>1. op[f].id \in GrantIds /\ Exists(op[f].id)
        BY <2>0, <2>1, OperationKinds, Zenon DEF GrantCurrent, Exists, GrantStatus
      <3>2. PICK g \in GrantIds : g = op[f].id
        BY <3>1, Zenon
      <3>3. Done(grants[g].hold)'
        BY <1>2, <2>1, <3>1, <3>2, Zenon
      <3> QED BY <3>2, <3>3, Zenon DEF Done
    <2>2. CASE op'[f] = op[f]
      BY <2>0, <2>1, <2>2, Zenon DEF OpTrue, Done
    <2>3. CASE op'[f] = Idle
      BY <2>3 DEF OpTrue, Idle
    <2>4. CASE OpBegins(f) /\ op'[f] # op[f]
      <3>1. Begins(f, op'[f]) /\ grants' = grants
        BY <2>4, Zenon DEF OpBegins, store
      <3>2. CASE BeginsCreate(f, op'[f])
        <4>1. op'[f].kind = "create"
          BY <3>2 DEF BeginsCreate
        <4> QED BY <4>1, Zenon DEF OpTrue
      <3>3. CASE BeginsSettlement(f, op'[f])
        <4>1. op'[f].kind = "settle" /\ op'[f].gid = None
          BY <3>3 DEF BeginsSettlement, Settlement
        <4> QED BY <4>1, Zenon DEF OpTrue
      <3>4. CASE BeginsApproval(f, op'[f])
        <4>0. PICK h \in HoldIds, g \in GrantIds : op'[f] = Approval(f, h, g)
          BY <3>4, Zenon DEF BeginsApproval
        <4>1. op'[f].kind = "settle" /\ op'[f].grant.consumption = "null"
          BY <4>0 DEF Approval, IssueGrant
        <4> QED BY <4>1, Zenon DEF OpTrue
      <3>5. CASE BeginsOnGrant(f, op'[f])
        <4>1. PICK g \in GrantIds :
                /\ Exists(g) /\ grants[g] \in GrantRecord
                /\ op'[f].id = g /\ op'[f].kind \in {"reserve", "report", "hint", "corroborate"}
                /\ op'[f].kind \in {"hint", "corroborate"} =>
                      op'[f].rec.consumption = grants[g].consumption
          BY <1>0, <3>5, BegunOnGrant, Zenon
        <4>2. op'[f].id = g /\ op'[f].kind \in {"reserve", "report", "hint", "corroborate"}
          BY <4>1, Zenon
        <4>5. ASSUME op'[f].kind = "report"
              PROVE  Done(grants[g].hold)
          <5>1. PICK i \in Invocations :
                  HasGrant(inv[i]) /\ inv[i].result = "DISPATCHED" /\ op'[f].id = inv[i].grant
            BY <1>0, <2>4, <4>5, StepAsks, Zenon DEF AskedFor
          <5>2. Done(inv[i].hold) /\ grants[g].hold = inv[i].hold
            BY <4>2, <5>1, Zenon DEF RecordsInv, ResultTrue, HasGrant, PhasesInv, PhaseOK
          <5> QED BY <5>2, Zenon
        <4>6. ASSUME op'[f].kind \in {"hint", "corroborate"}, op'[f].rec.consumption = "signed"
              PROVE  Done(grants[g].hold)
          BY <4>1, <4>6, Zenon DEF RecordsInv, ConsumptionIsTrue, Done
        <4>7. Done(grants[g].hold) => Done(grants[g].hold)'
          BY <1>2, <4>1, Zenon
        <4> QED BY <4>2, <4>5, <4>6, <4>7, Zenon DEF OpTrue, Done
      <3> QED BY <3>1, <3>2, <3>3, <3>4, <3>5, Zenon DEF Begins
    <2>5. CASE OpConsumes(f)
      <3>1. op[f].kind = "report" /\ op'[f].kind = "consume" /\ op'[f].id = op[f].id
        BY <2>5 DEF OpConsumes
      <3> QED BY <2>0, <2>1, <3>1, Zenon DEF OpTrue, Done
    <2>6. CASE OpCorroborates(f)
      <3>1. op[f].kind = "hint" /\ op'[f] = [op[f] EXCEPT !.kind = "corroborate"]
        BY <2>6, Zenon DEF OpCorroborates
      <3>2. op'[f].kind = "corroborate" /\ op'[f].id = op[f].id /\ op'[f].rec = op[f].rec
        BY <2>0, <3>1 DEF Operation, Idle
      <3> QED BY <2>0, <2>1, <3>1, <3>2, Zenon DEF OpTrue, Done
    <2> QED BY <1>1, <2>2, <2>3, <2>4, <2>5, <2>6, StepOps, Zenon DEF OpStays
  <1>6. ConsumptionIsTrue'
    BY <1>4, Zenon DEF ConsumptionIsTrue, Done
  <1> QED BY <1>3, <1>5, <1>6, Zenon DEF RecordsInv

-----------------------------------------------------------------------------
\* Theorems

\* Inductive: the gate's invariant and those of its wrappers.
GuardInv == IInv /\ PhasesInv /\ WinnersInv /\ RecordsInv /\ ToldInv

\* It holds before anyone calls.
LEMMA GuardInitInv ==
    ASSUME GuardInit, ConstantsAssumption
    PROVE  GuardInv
  <1>1. IInv
    BY InitInv, Zenon DEF GuardInit
  <1>2. /\ inv = [i \in Invocations |-> NotStarted] /\ net = {} /\ ran = {}
        /\ serving = [e \in Engines |-> None] /\ op = [e \in Engines |-> Idle]
        /\ grants = [g \in GrantIds |-> Absent]
    BY Zenon DEF GuardInit, Init
  <1>3. PhasesInv
    BY <1>2, Zenon DEF PhasesInv, GuardTypeOK, PhaseOK, HasGrant, NotStarted
  <1>4. WinnersInv
    BY <1>2, Zenon DEF WinnersInv, Won, NotStarted, Idle
  <1>5. RecordsInv
    BY <1>2, Zenon DEF RecordsInv, ResultTrue, OpTrue, ConsumptionIsTrue, NotStarted, Idle,
                Exists, Absent, GrantStatus
  <1>6. ToldInv
    BY <1>2, Zenon DEF ToldInv, Told
  <1> QED BY <1>1, <1>3, <1>4, <1>5, <1>6, Zenon DEF GuardInv

\* Every step of the composition keeps it.
LEMMA GuardNextInv ==
    ASSUME GuardInv, ConstantsAssumption, AgentAssumption, [GuardNext]_allVars
    PROVE  GuardInv'
  <1>1. IInv'
    BY GuardStep, NextInv, Zenon DEF GuardInv, IInv
  <1>2. TypeOK /\ GrantsMatchApprovals /\ StoreKeeps
    BY GuardStep, StepKeeps, Zenon DEF GuardInv, IInv
  <1> QED BY <1>1, <1>2, NextPhases, NextWinners, NextRecords, NextTold, Zenon DEF GuardInv

\* The inductive invariant holds in every state of a gate and its wrappers.
THEOREM GuardInvariance == GuardSpec => []GuardInv
  <1>1. GuardInit => GuardInv
    BY GuardInitInv, ConstantsAssumption, Zenon
  <1>2. GuardInv /\ [GuardNext]_allVars => GuardInv'
    BY GuardNextInv, ConstantsAssumption, AgentAssumption, Zenon
  <1> QED BY <1>1, <1>2, PTL DEF GuardSpec

\* The wrappers, the network and the gate together do nothing to the gate that
\* the gate's own specification does not allow: all that is proved of the gate
\* holds behind guard() (GateEngine as guard calls it).
THEOREM GuardImplementsGate == GuardSpec => Spec
  <1>1. GuardInit => Init
    BY Zenon DEF GuardInit
  <1>2. GuardInv /\ [GuardNext]_allVars => [Next]_vars
    BY GuardStep, AgentAssumption, Zenon DEF GuardInv, IInv
  <1> QED BY <1>1, <1>2, GuardInvariance, PTL DEF GuardSpec, Spec

\* One hold, one execution, however many invocations share its key, and whatever
\* the network and the crashes do: a race loser refuses (guard, reserve).
THEOREM ExecutesOnce == GuardSpec => []OneExecution
  <1>1. GuardInv => OneExecution
    <2> SUFFICES ASSUME GuardInv, NEW x \in ran, NEW y \in ran, x.hold = y.hold
                 PROVE  x.by = y.by
      BY Zenon DEF OneExecution
    <2>1. x.by \in Invocations /\ y.by \in Invocations /\ Won(x.by) /\ Won(y.by)
      BY Zenon DEF GuardInv, PhasesInv, GuardTypeOK, Won
    <2>2. ASSUME NEW i \in Invocations, Won(i)
          PROVE  /\ inv[i].hold \in HoldIds
                 /\ holds[inv[i].hold].grant = inv[i].grant
      <3>1. HasGrant(inv[i]) /\ PhaseOK(inv[i]) /\ inv[i] \in Invocation
        BY <2>2, Zenon DEF GuardInv, WinnersInv, PhasesInv, GuardTypeOK, HasGrant
      <3>2. inv[i].grant \in GrantIds /\ Exists(inv[i].grant) /\ grants[inv[i].grant].hold = inv[i].hold
        BY <3>1, Zenon DEF PhaseOK, HasGrant, Invocation
      <3> QED BY <3>1, <3>2, Zenon DEF GuardInv, IInv, GrantsMatchApprovals, PhaseOK
    <2>3. inv[x.by].hold = inv[y.by].hold
      BY Zenon DEF GuardInv, WinnersInv
    <2>4. inv[x.by].grant = inv[y.by].grant
      BY <2>1, <2>2, <2>3, Zenon
    <2> QED BY <2>1, <2>4, Zenon DEF GuardInv, WinnersInv
  <1> QED BY <1>1, GuardInvariance, PTL

\* What the gate signs is true: a consumption says DISPATCHED only of an action
\* whose executor was invoked and returned ok, whatever copy of the grant was
\* written back in between (guard, report, claimGrantReported).
THEOREM SignedIsTrue == GuardSpec => []ConsumptionIsTrue
  <1>1. GuardInv => ConsumptionIsTrue
    BY Zenon DEF GuardInv, RecordsInv
  <1> QED BY <1>1, GuardInvariance, PTL

\* A caller told DENIED, EXPIRED or CANCELLED may rely on it: no invocation has
\* executed or will execute that hold (guard, wait, settleHold).
THEOREM RefusalIsFinal == GuardSpec => []RefusedNeverRuns
  <1>1. GuardInv => RefusedNeverRuns
    <2> SUFFICES ASSUME GuardInv, NEW i \in Invocations, NEW x \in ran,
                        inv[i].pc = "done", inv[i].outcome \in Settled, x.hold = inv[i].hold
                 PROVE  FALSE
      BY Zenon DEF RefusedNeverRuns
    <2>1. holds[x.hold].status # "APPROVED"
      <3>1. inv[i] # NotStarted
        BY DEF NotStarted
      <3> QED BY <3>1, Zenon DEF GuardInv, ToldInv, Told
    <2>2. /\ x.by \in Invocations /\ Won(x.by) /\ x.hold = inv[x.by].hold
      BY Zenon DEF GuardInv, PhasesInv, GuardTypeOK, Won, WinnersInv
    <2>3. HasGrant(inv[x.by]) /\ PhaseOK(inv[x.by]) /\ inv[x.by] \in Invocation
      BY <2>2, Zenon DEF GuardInv, WinnersInv, PhasesInv, GuardTypeOK, HasGrant
    <2>4. /\ inv[x.by].grant \in GrantIds /\ Exists(inv[x.by].grant)
          /\ grants[inv[x.by].grant].hold = x.hold
      BY <2>2, <2>3, Zenon DEF PhaseOK, HasGrant, Invocation
    <2> QED BY <2>1, <2>4 DEF GuardInv, IInv, GrantsMatchApprovals
  <1> QED BY <1>1, GuardInvariance, PTL
=============================================================================
