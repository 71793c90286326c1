------------------------------- MODULE Guard --------------------------------
(***************************************************************************)
(* The gate and its execution wrapper: guard() (packages/gate/src/         *)
(* wrapper.ts) as the client of GateEngine.                                *)
(*                                                                         *)
(* An invocation of guard creates a hold under its caller's idempotency    *)
(* key, waits for the decision, reserves the grant, calls the executor and *)
(* reports what it returned.  Every call crosses a network: a request may  *)
(* be lost or served after its caller has given up, an answer may be lost, *)
(* a wrapper may crash at any point, and its caller may run guard again    *)
(* under the same key.  The handlers of the gate are those of module Gate; *)
(* serving[e] is the invocation whose request process e is answering.      *)
(***************************************************************************)
EXTENDS Gate

CONSTANTS
    Invocations     \* the calls of guard, all by one agent

ASSUME AgentAssumption == Agents # {}

VARIABLES
    inv,            \* the state of every invocation
    net,            \* requests on their way to the gate
    serving,
    ran             \* history: who invoked the executor, for which hold

guardVars == <<inv, net, serving, ran>>
allVars == <<vars, guardVars>>

agent == CHOOSE a \in Agents : TRUE

NotStarted == [pc |-> "idle"]

(* A refusal or an error: ran:false, or ran:true once it was dispatched.   *)
Return(i, outcome) ==
    inv' = [inv EXCEPT ![i] = [inv[i] EXCEPT !.pc = "done",
                                             !.outcome = outcome]]

GuardInit ==
    /\ Init
    /\ inv = [i \in Invocations |-> NotStarted]
    /\ net = {}
    /\ serving = [e \in Engines |-> None]
    /\ ran = {}

-----------------------------------------------------------------------------
(* The wrapper.                                                            *)

(* guard up to createHold: the params are snapshotted and hashed.          *)
CallCreate(i, k, b, c) ==
    /\ inv[i] = NotStarted
    /\ inv' = [inv EXCEPT ![i] =
           [pc |-> "create", key |-> k, body |-> b, chain |-> c,
            hold |-> None, grant |-> None, result |-> "none",
            outcome |-> "none"]]
    /\ net' = net \cup {[from |-> i, step |-> "create"]}
    /\ UNCHANGED <<vars, serving, ran>>

(* wait: the status the gate shows.                                        *)
Waited(h) == holds[h].status

(* wait answered: a terminal status ends the invocation, a pending one     *)
(* does when the long poll times out.                                      *)
Wait(i) ==
    /\ inv[i].pc = "wait"
    /\ LET status == Waited(inv[i].hold)
           g == holds[inv[i].hold].grant
       IN  IF status = "APPROVED"
           THEN IF holds[grants[g].hold].body = inv[i].body
                THEN /\ inv' = [inv EXCEPT ![i].pc = "reserve", ![i].grant = g]
                     /\ net' = net \cup {[from |-> i, step |-> "reserve"]}
                ELSE Return(i, "REFUSED_PARAMS_MISMATCH") /\ UNCHANGED net
           ELSE /\ Return(i, IF status = "PENDING" THEN "PENDING_TIMEOUT"
                             ELSE status)
                /\ UNCHANGED net
    /\ UNCHANGED <<vars, serving, ran>>

(* The executor is invoked.  Once it is, a side effect may have happened.  *)
Dispatch(i) ==
    /\ inv[i].pc = "dispatch"
    /\ inv' = [inv EXCEPT ![i].pc = "running"]
    /\ ran' = ran \cup {[by |-> i, hold |-> inv[i].hold, ok |-> FALSE]}
    /\ UNCHANGED <<vars, net, serving>>

\* Mutant: a wrapper that reports every return of the executor as a
\* dispatch.
ReportAlways(ok) == "DISPATCHED"

(* Anything but a clean return is reported as UNKNOWN.                     *)
ReportResult(ok) == IF ok THEN "DISPATCHED" ELSE "UNKNOWN"

Executed(i, ok) ==
    /\ inv[i].pc = "running"
    /\ inv' = [inv EXCEPT ![i].pc = "report", ![i].result = ReportResult(ok)]
    /\ net' = net \cup {[from |-> i, step |-> "report"]}
    /\ ran' = (ran \ {[by |-> i, hold |-> inv[i].hold, ok |-> FALSE]})
                 \cup {[by |-> i, hold |-> inv[i].hold, ok |-> ok]}
    /\ UNCHANGED <<vars, serving>>

(* The call throws (its answer is lost or late), or the wrapper crashes.   *)
Abandon(i) ==
    /\ inv[i].pc \notin {"idle", "done"}
    /\ Return(i, "THREW")
    /\ UNCHANGED <<vars, net, serving, ran>>

Lose(r) ==
    /\ net' = net \ {r}
    /\ UNCHANGED <<vars, inv, serving, ran>>

-----------------------------------------------------------------------------
(* The gate answers.                                                       *)

(* The answer reaches the invocation unless that has given up.             *)
Answer(i, step, next) ==
    inv' = IF i # None /\ inv[i].pc = step
           THEN [inv EXCEPT ![i] = next] ELSE inv

Refused(i, outcome) == [inv[i] EXCEPT !.pc = "done", !.outcome = outcome]

Accept(e, r) ==
    /\ net' = net \ {r}
    /\ serving' = [serving EXCEPT ![e] = r.from]

(* createHold: a new hold, the hold of an earlier request, or a refusal.   *)
ServeCreate(e, r, h, ttl) ==
    LET x == inv[r.from]
        answer == CreateAnswer(e, agent, x.key, x.body, x.chain, h)
        found == byIdem[agent][x.key]
    IN  /\ r.step = "create"
        /\ op[e] = Idle
        /\ FreshHold(h)
        /\ \/ /\ CreateHold(e, agent, x.key, x.body, x.chain, ttl, h)
              /\ Accept(e, r)
              /\ UNCHANGED <<inv, ran>>
           \/ /\ answer # "CREATED"
              /\ Answer(r.from, "create",
                     IF answer = "IDEMPOTENT"
                     THEN [x EXCEPT !.pc = "wait", !.hold = found]
                     ELSE Refused(r.from, "ERROR"))
              /\ net' = net \ {r}
              /\ UNCHANGED <<vars, serving, ran>>

ServeReserve(e, r) ==
    LET g == inv[r.from].grant
    IN  /\ r.step = "reserve"
        /\ op[e] = Idle
        /\ \/ /\ ReserveGrant(e, agent, g)
              /\ Accept(e, r)
              /\ UNCHANGED <<inv, ran>>
           \/ /\ ~Reservable(e, g)
              /\ Answer(r.from, "reserve",
                        Refused(r.from, "REFUSED_GRANT_RACE"))
              /\ net' = net \ {r}
              /\ UNCHANGED <<vars, serving, ran>>

ServeReport(e, r) ==
    LET g == inv[r.from].grant
    IN  /\ r.step = "report"
        /\ op[e] = Idle
        /\ \/ /\ IF inv[r.from].result = "DISPATCHED"
                 THEN ReportDispatched(e, agent, g)
                 ELSE ReportHint(e, agent, g, "UNKNOWN")
              /\ Accept(e, r)
              /\ UNCHANGED <<inv, ran>>
           \/ /\ ~Reportable(e, g)
              /\ Answer(r.from, "report", Refused(r.from, "ERROR_RAN"))
              /\ net' = net \ {r}
              /\ UNCHANGED <<vars, serving, ran>>

\* Mutant: a wrapper that goes on whatever reserve answered.
ReserveGoesOn(e, i) == [inv[i] EXCEPT !.pc = "dispatch"]

(* reserve answered 200 to the winner of the swap and 409 to the others.   *)
Reserved(e, i) ==
    IF ClaimStatusWins(op[e].id)
    THEN [inv[i] EXCEPT !.pc = "dispatch"]
    ELSE Refused(i, "REFUSED_GRANT_RACE")

(* The write that finishes a handler, with the answer it sends.            *)
Served(e) ==
    LET i == serving[e]
        done == serving' = [serving EXCEPT ![e] = None]
    IN  /\ \/ /\ PutHold(e)
              /\ Answer(i, "create",
                        [inv[i] EXCEPT !.pc = "wait", !.hold = op[e].id])
              /\ done
           \/ /\ ClaimStatus(e)
              /\ Answer(i, "reserve", Reserved(e, i))
              /\ done
           \/ /\ ClaimReported(e)
              /\ IF op'[e] = Idle
                 THEN Answer(i, "report", Refused(i, "ERROR_RAN")) /\ done
                 ELSE UNCHANGED <<inv, serving>>
           \/ /\ PutConsumption(e)
              /\ Answer(i, "report", Refused(i, "EXECUTED"))
              /\ done
           \/ PutHint(e) /\ UNCHANGED <<inv, serving>>
           \/ /\ Corroborate(e)
              /\ Answer(i, "report", Refused(i, "UNKNOWN_AFTER_DISPATCH"))
              /\ done
           \/ SettleHold(e) /\ UNCHANGED <<inv, serving>>
        /\ UNCHANGED <<net, ran>>

(* A handler that throws answers 500.                                      *)
ServiceFails(e) ==
    LET i == serving[e]
    IN  /\ SignerFails(e)
        /\ inv' = IF i # None /\ inv[i].pc \notin {"idle", "done"}
                  THEN [inv EXCEPT ![i] = Refused(i,
                          IF inv[i].pc = "create" THEN "ERROR"
                          ELSE IF inv[i].pc = "reserve"
                               THEN "REFUSED_GRANT_RACE" ELSE "ERROR_RAN")]
                  ELSE inv
        /\ serving' = [serving EXCEPT ![e] = None]
        /\ UNCHANGED <<net, ran>>

(* A gate process restarts: the connection it was serving breaks.          *)
GateRestarts(e, t) ==
    /\ Restart(e, t)
    /\ serving' = [serving EXCEPT ![e] = None]
    /\ UNCHANGED <<inv, net, ran>>

-----------------------------------------------------------------------------
Wrapper(i) ==
    \/ \E k \in Keys, b \in Bodies, c \in Chains : CallCreate(i, k, b, c)
    \/ Wait(i)
    \/ Dispatch(i)
    \/ \E ok \in BOOLEAN : Executed(i, ok)
    \/ Abandon(i)

Serve(e) ==
    \E r \in net :
        \/ \E h \in HoldIds, ttl \in Ttls : ServeCreate(e, r, h, ttl)
        \/ ServeReserve(e, r)
        \/ ServeReport(e, r)

(* The approver's decisions, the sweeps and the clock are the gate's own.  *)
Own(e) ==
    /\ \/ \E h \in HoldIds, v \in {"APPROVE", "DENY"}, g \in GrantIds :
              DecideHold(e, h, v, g)
       \/ Sweep(e)
    /\ UNCHANGED guardVars

Ticks == Tick /\ UNCHANGED guardVars

GuardNext ==
    \/ \E i \in Invocations : Wrapper(i)
    \/ \E r \in net : Lose(r)
    \/ \E e \in Engines : \/ Serve(e) \/ Served(e) \/ Own(e) \/ ServiceFails(e)
                          \/ \E t \in BootTrust : GateRestarts(e, t)
    \/ Ticks

GuardSpec == GuardInit /\ [][GuardNext]_allVars

(* As in the gate: its timers and handlers run on, its signer recovers.    *)
(* Nothing is assumed of the wrappers, the network or the approver.        *)
SweepsGrant(e, g) == SweepGrant(e, g) /\ UNCHANGED guardVars
SweepsHold(e, h) == ExpireHold(e, h) /\ UNCHANGED guardVars
Settles(e) == SettleHold(e) /\ Served(e)
Corroborates(e) == Corroborate(e) /\ Served(e)

GuardFairness ==
    /\ \A e \in Engines :
          /\ \A g \in GrantIds : SF_allVars(SweepsGrant(e, g))
          /\ \A h \in HoldIds : SF_allVars(SweepsHold(e, h))
          /\ SF_allVars(Settles(e))
          /\ SF_allVars(Corroborates(e))
          /\ WF_allVars(Served(e))
    /\ WF_allVars(Ticks)

FairGuardSpec == GuardSpec /\ GuardFairness

-----------------------------------------------------------------------------
(* One hold, one execution, however often guard is run again under its key *)
(* after a lost answer or a crash: "a race loser (409) refuses, never a    *)
(* double execute" (wrapper.ts:426).                                       *)
OneExecution == \A x, y \in ran : x.hold = y.hold => x.by = y.by

(* What the gate signs is true: a consumption says DISPATCHED only of an   *)
(* action whose executor was invoked and returned ok (wrapper.ts, report). *)
ConsumptionIsTrue ==
    \A g \in GrantIds : Exists(g) /\ grants[g].consumption = "signed" =>
        \E x \in ran : x.hold = grants[g].hold /\ x.ok

(* A caller told DENIED, EXPIRED or CANCELLED may rely on it: no           *)
(* invocation has executed or will execute that hold (guard, wait).        *)
RefusedNeverRuns ==
    \A i \in Invocations : \A x \in ran :
        inv[i].pc = "done" /\ inv[i].outcome \in Settled =>
            x.hold # inv[i].hold

(* An action that was executed is on the gate's record in the end, as a    *)
(* consumption or, from the end of the sweep window on, as an uncertainty, *)
(* though the wrapper crashed or its report was lost (report,              *)
(* sweepUncertainty).  The window must end before the clock's bound does.  *)
ExecutionIsRecorded ==
    \A g \in GrantIds :
        /\ Exists(g) /\ grants[g].reservedAt # None
        /\ now >= grants[g].reservedAt + SweepWindow
        /\ \E x \in ran : x.hold = grants[g].hold
        ~> /\ Exists(g)
           /\ grants[g].consumption = "signed" \/ grants[g].uncertainty = "signed"
=============================================================================
