-------------------------------- MODULE Relay --------------------------------
(***************************************************************************)
(* The relay's holds (packages/relay/src/engine.ts): agents open holds and *)
(* wait for them, devices decide them with receipts a human signed, time   *)
(* expires them; over the file store and the HTTP server's order of        *)
(* authenticating a device, reading the body and calling the engine.       *)
(*                                                                         *)
(* A decision receipt carries the action it is for and the deferred        *)
(* receipt it chains onto; "shown" is the hold the human was looking at,   *)
(* which nothing in the relay reads.  Messages are posted at any time, in  *)
(* any order, more than once, and to any hold.                             *)
(***************************************************************************)
EXTENDS RelayStore, FiniteSets

CONSTANTS
    Agents, Devices, Holds, Keys, Actions,
    Deferreds,      \* deferred receipts (chain hashes)
    Verdicts,       \* of "ALLOWED" and "BLOCKED", those the approver uses
    None,
    Ttl, Timeout,   \* of a hold and of a long poll
    MaxPending,     \* maxPendingPerAgent
    MaxTime, MaxPosts, MaxWaits   \* bounds of the model

VARIABLES
    now,
    receipts,   \* decision receipts the devices have signed
    posts,      \* decision requests whose body is still being read
    waiting,    \* the waiters
    told,       \* history: the lifecycles agents were answered
    unsaved     \* history: the holds changed in memory by a put that threw,
                \* until a put succeeds or the process ends

vars == <<storeVars, now, receipts, posts, waiting, told, unsaved>>

Receipts == [by : Devices, action : Actions, prev : Deferreds \cup {None},
             verdict : Verdicts, shown : Holds]
Init ==
    /\ StoreInit([hold |-> [h \in Holds |-> None],
                  device |-> [d \in Devices |-> [agent |-> None,
                                                 revoked |-> FALSE]]])
    /\ now = 0
    /\ receipts = {}
    /\ posts = {}
    /\ waiting = {}
    /\ told = {}
    /\ unsaved = {}

-----------------------------------------------------------------------------
Stored == {h \in Holds : mem.hold[h] # None}
Pending == {h \in Stored : mem.hold[h].status = "PENDING"}

(* lifecycleOf                                                             *)
Lifecycle(status) ==
    IF status \in {"APPROVED", "DENIED"} THEN "DECIDED" ELSE status

Overdue(h) == h \in Pending /\ now >= mem.hold[h].ends

WithHold(h, rec) == [mem EXCEPT !.hold[h] = rec]
WithDevice(d, rec) == [mem EXCEPT !.device[d] = rec]

ExpiredHold(h) == [mem.hold[h] EXCEPT !.status = "EXPIRED"]
AllExpired(S) ==
    [mem EXCEPT !.hold = [h \in Holds |-> IF h \in S THEN ExpiredHold(h)
                                          ELSE mem.hold[h]]]

Tell(h, status, saved) ==
    told' = told \cup {[hold |-> h, lifecycle |-> Lifecycle(status), saved |-> saved]}

(* A put writes all of memory, the holds of earlier puts that threw too.   *)
NoteUnsaved(o, S) == unsaved' = IF o = "failed" THEN unsaved \cup S ELSE {}

(* wake: every waiter of the hold is answered.                             *)
Wake(S) == waiting' = {w \in waiting : w.hold \notin S}

(* What is left of a process that died: nobody waits, nothing is read.     *)
Gone == waiting' = {} /\ posts' = {}

-----------------------------------------------------------------------------
\* Mutant: a key is looked up among the open holds only.
ByKeyPending(a, k) ==
    {h \in Pending : mem.hold[h].agent = a /\ mem.hold[h].key = k}

(* createHold of a request seen before answers with the hold it opened.    *)
ByKey(a, k) == {h \in Stored : mem.hold[h].agent = a /\ mem.hold[h].key = k}

Retry(a, k) ==
    /\ up
    /\ \E h \in ByKey(a, k) :
           /\ mem.hold[h].status # "PENDING"
           /\ Tell(h, mem.hold[h].status, h \notin unsaved)
    /\ UNCHANGED <<storeVars, now, receipts, posts, waiting, unsaved>>

\* Mutant: a deferred receipt may open a second hold.
AnyDeferred(d) == TRUE

(* No other hold, of any agent and in any status, was opened with it.      *)
FreshDeferred(d) == d = None \/ \A h \in Stored : mem.hold[h].deferred # d

(* createHold                                                              *)
CreateHold(a, k, act, d, h, o) ==
    /\ up
    /\ ByKey(a, k) = {}
    /\ Cardinality({g \in Pending : mem.hold[g].agent = a}) < MaxPending
    /\ FreshDeferred(d)
    /\ h \notin Stored
    /\ PutCopy(WithHold(h, [agent |-> a, key |-> k, action |-> act,
                            deferred |-> d, status |-> "PENDING",
                            receipt |-> None, ends |-> now + Ttl]), o)
    /\ NoteUnsaved(o, {})
    /\ IF o = "died" THEN Gone ELSE UNCHANGED <<waiting, posts>>
    /\ UNCHANGED <<now, receipts, told>>

-----------------------------------------------------------------------------
(* lazyExpire on a request for an overdue hold: the wake comes after the   *)
(* put, and not at all when the put throws.                                *)
LazyExpire(h, o) ==
    /\ up
    /\ Overdue(h)
    /\ PutInPlace(WithHold(h, ExpiredHold(h)), o)
    /\ NoteUnsaved(o, {h})
    /\ \/ o = "ok" /\ Wake({h}) /\ Tell(h, "EXPIRED", TRUE) /\ UNCHANGED posts
       \/ o = "failed" /\ UNCHANGED <<waiting, told, posts>>
       \/ o = "died" /\ Gone /\ UNCHANGED told
    /\ UNCHANGED <<now, receipts>>

(* sweepExpired, from the server's interval.  Nothing catches a put that   *)
(* throws there: the process ends, with the holds before it expired.       *)
Sweep ==
    /\ up
    /\ LET S == {h \in Holds : Overdue(h)}
       IN  /\ S # {}
           /\ \/ Persisted(AllExpired(S)) /\ Wake(S) /\ UNCHANGED posts
              \/ /\ failures < MaxFailures
                 /\ \E T \in (SUBSET S) \ {S} :
                        DiesWith(IF T = {} THEN disk ELSE AllExpired(T))
                 /\ Gone
    /\ unsaved' = {}
    /\ UNCHANGED <<now, receipts, told>>

(* getHold, and wait on a settled hold, answer at once.                    *)
GetHold(h) ==
    /\ up
    /\ h \in Stored \ Pending
    /\ Tell(h, mem.hold[h].status, h \notin unsaved)
    /\ UNCHANGED <<storeVars, now, receipts, posts, waiting, unsaved>>

(* wait                                                                    *)
Wait(h) ==
    /\ up
    /\ h \in Pending /\ ~Overdue(h)
    /\ Cardinality(waiting) < MaxWaits /\ now + Timeout <= MaxTime
    /\ waiting' = waiting \cup {[hold |-> h, until |-> now + Timeout]}
    /\ UNCHANGED <<storeVars, now, receipts, posts, told, unsaved>>

\* Mutant: a poll timer that does not keep the process's event loop alive.
PollEndsUnref(w) == FALSE

(* The timer of a long poll fires: its own answer, of a hold not overdue.  *)
(* An overdue one is expired first (LazyExpire, or Sweep when it throws).  *)
PollEnds(w) ==
    /\ up
    /\ w.until <= now
    /\ ~Overdue(w.hold)
    /\ waiting' = waiting \ {w}
    /\ UNCHANGED <<storeVars, now, receipts, posts, told, unsaved>>

-----------------------------------------------------------------------------
(* The approver's phone: a human is shown a pending hold and signs.        *)
Sign(d, h, v) ==
    /\ up
    /\ h \in Pending
    /\ mem.device[d].agent = mem.hold[h].agent
    /\ receipts' = receipts \cup
           {[by |-> d, action |-> mem.hold[h].action,
             prev |-> mem.hold[h].deferred, verdict |-> v, shown |-> h]}
    /\ UNCHANGED <<storeVars, now, posts, waiting, told, unsaved>>

(* The server authenticates the device and starts to read the body.        *)
PostDecision(d, h, r) ==
    /\ up
    /\ Cardinality(posts) < MaxPosts
    /\ ~mem.device[d].revoked
    /\ posts' = posts \cup {[device |-> d, agent |-> mem.device[d].agent,
                             hold |-> h, receipt |-> r]}
    /\ UNCHANGED <<storeVars, now, receipts, waiting, told, unsaved>>

(* deviceOwnsHold, of the device as it was authenticated.                  *)
OwnsHold(p) ==
    /\ p.hold \in Stored
    /\ p.agent # None /\ mem.hold[p.hold].agent = p.agent

\* Mutant: the presenter signed the receipt; its state was read with the
\* header.
SignedByPresenter(p) == p.receipt.by = p.device

(* The signer is looked up anew, and has not been revoked meanwhile.       *)
SignedByDevice(p) ==
    /\ ~mem.device[p.receipt.by].revoked
    /\ p.receipt.by = p.device

(* The decision is for this action and chains onto this hold's deferred    *)
(* receipt, or onto none when the hold has none.                           *)
BindsHold(p) ==
    /\ p.receipt.action = mem.hold[p.hold].action
    /\ p.receipt.prev = mem.hold[p.hold].deferred

DecidedHold(p) ==
    [mem.hold[p.hold] EXCEPT
        !.receipt = p.receipt,
        !.status = IF p.receipt.verdict = "ALLOWED" THEN "APPROVED" ELSE "DENIED"]

(* decide of a hold that is open: the hold is changed in place, then put.  *)
Decide(p, o) ==
    /\ up
    /\ OwnsHold(p)
    /\ p.hold \in Pending /\ ~Overdue(p.hold)
    /\ SignedByDevice(p)
    /\ BindsHold(p)
    /\ PutInPlace(WithHold(p.hold, DecidedHold(p)), o)
    /\ NoteUnsaved(o, {p.hold})
    /\ \/ /\ o = "ok"
          /\ Wake({p.hold})
          /\ Tell(p.hold, "APPROVED", TRUE)
          /\ posts' = posts \ {p}
       \/ /\ o = "failed"
          /\ posts' = posts \ {p}
          /\ UNCHANGED <<waiting, told>>
       \/ /\ o = "died"
          /\ Gone
          /\ UNCHANGED told
    /\ UNCHANGED <<now, receipts>>

(* decide refuses, having changed nothing (an overdue hold is expired      *)
(* first, by LazyExpire).                                                  *)
RefuseDecision(p) ==
    /\ up
    /\ \/ ~OwnsHold(p)
       \/ p.hold \notin Pending
       \/ /\ p.hold \in Pending /\ ~Overdue(p.hold)
          /\ ~(SignedByDevice(p) /\ BindsHold(p))
    /\ posts' = posts \ {p}
    /\ UNCHANGED <<storeVars, now, receipts, waiting, told, unsaved>>

-----------------------------------------------------------------------------
(* claimDevice: once, by one agent.                                        *)
ClaimDevice(a, d, o) ==
    /\ up
    /\ mem.device[d].agent = None /\ ~mem.device[d].revoked
    /\ PutCopy(WithDevice(d, [mem.device[d] EXCEPT !.agent = a]), o)
    /\ NoteUnsaved(o, {})
    /\ IF o = "died" THEN Gone ELSE UNCHANGED <<waiting, posts>>
    /\ UNCHANGED <<now, receipts, told>>

(* revokeSelf                                                              *)
RevokeSelf(d, o) ==
    /\ up
    /\ ~mem.device[d].revoked
    /\ PutCopy(WithDevice(d, [mem.device[d] EXCEPT !.revoked = TRUE]), o)
    /\ NoteUnsaved(o, {})
    /\ IF o = "died" THEN Gone ELSE UNCHANGED <<waiting, posts>>
    /\ UNCHANGED <<now, receipts, told>>

Tick ==
    /\ now < MaxTime
    /\ now' = now + 1
    /\ UNCHANGED <<storeVars, receipts, posts, waiting, told, unsaved>>

Stop == (Crash \/ Close) /\ Gone /\ unsaved' = {} /\ UNCHANGED <<now, receipts, told>>

Restart ==
    /\ RemoveLock \/ Open
    /\ UNCHANGED <<now, receipts, posts, waiting, told, unsaved>>

Next ==
    \/ \E o \in Outcomes :
        \/ \E a \in Agents, k \in Keys, act \in Actions,
              d \in Deferreds \cup {None}, h \in Holds : CreateHold(a, k, act, d, h, o)
        \/ \E h \in Holds : LazyExpire(h, o)
        \/ \E p \in posts : Decide(p, o)
        \/ \E a \in Agents, d \in Devices : ClaimDevice(a, d, o)
        \/ \E d \in Devices : RevokeSelf(d, o)
    \/ \E a \in Agents, k \in Keys : Retry(a, k)
    \/ Sweep
    \/ \E h \in Holds : GetHold(h) \/ Wait(h)
    \/ \E w \in waiting : PollEnds(w)
    \/ \E d \in Devices, h \in Holds, v \in Verdicts : Sign(d, h, v)
    \/ \E d \in Devices, h \in Holds, r \in receipts : PostDecision(d, h, r)
    \/ \E p \in posts : RefuseDecision(p)
    \/ Tick
    \/ Stop
    \/ Restart

Spec == Init /\ [][Next]_vars

(* Timers fire, bodies arrive and time passes; nothing else is promised.   *)
Fairness ==
    /\ WF_vars(Tick)
    /\ WF_vars(Sweep)
    /\ WF_vars(\E w \in waiting : PollEnds(w))

FairSpec == Spec /\ Fairness

-----------------------------------------------------------------------------
(* "an approval of another hold with the same action is not an approval of *)
(* this one": a hold opened with a deferred receipt is decided only by a   *)
(* receipt signed for that very hold, whatever was posted where            *)
(* (createHold, decide).                                                   *)
DecidedForThisHold ==
    \A h \in Stored :
        mem.hold[h].receipt # None /\ mem.hold[h].deferred # None
            => mem.hold[h].receipt.shown = h

(* What an agent was told of a hold is in the file, and stays there over   *)
(* every failed put and every crash.  The one answer that may run ahead of *)
(* the file is of a hold whose own put threw, which stays changed in       *)
(* memory, until the next put that succeeds (decide, lazyExpire, holdView).*)
ToldIsDurable ==
    \A t \in told : t.saved =>
        /\ disk.hold[t.hold] # None
        /\ Lifecycle(disk.hold[t.hold].status) = t.lifecycle

(* A retry after a lost answer or a crash finds its hold: one hold for     *)
(* each agent and key (createHold).                                        *)
OneHoldPerKey ==
    \A g, h \in Stored :
        mem.hold[g].agent = mem.hold[h].agent /\ mem.hold[g].key = mem.hold[h].key
            => g = h

(* A device that was revoked while the body of its decision was on the way *)
(* decides nothing (server.ts authenticates before it reads the body).     *)
DecidesUnrevoked ==
    \A h \in Stored :
        mem.hold[h].receipt = None /\ mem'.hold[h].receipt # None
            => ~mem.device[mem'.hold[h].receipt.by].revoked

(* A long poll is always answered, or its process is gone (wait).          *)
EveryWaitEnds ==
    \A w \in [hold : Holds, until : 0..MaxTime] : w \in waiting ~> w \notin waiting
=============================================================================
