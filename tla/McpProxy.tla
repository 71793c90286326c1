------------------------------ MODULE McpProxy ------------------------------
(***************************************************************************)
(* The governed MCP proxy with its human-approval gate:                    *)
(* createProxyServer (packages/mcp-proxy/src/create-proxy-server.mjs) over *)
(* the chain session store, the pending store                              *)
(* (packages/adapter-core/src/pending-store.mjs) and the approve CLI       *)
(* (packages/adapter-core/src/approve-cli.mjs).                            *)
(*                                                                         *)
(* A tool call runs an exclusive section per session: it looks for an      *)
(* outstanding hold, spends an approval ticket if there is one, prepares a *)
(* decision receipt on the head of the session's chain, has it persisted   *)
(* to the receipt log and commits it.  The section is suspended while a    *)
(* receipt is signed remotely or persisted, and the store's sweep, other   *)
(* sessions and the approve CLI run then.  sect[s] is what the section     *)
(* carries over that suspension.                                           *)
(*                                                                         *)
(* A receipt's hash is a number never used before, so that equal hashes    *)
(* mean the same receipt.  tickets is the fold of the pending store's      *)
(* event log, in the order the records were created; refused says that the *)
(* fold met an illegal event, which makes every later load fail.           *)
(*                                                                         *)
(* log is what the appends left in the receipt log: an append is whole, or *)
(* torn before its newline, so that the next one continues its line.  An   *)
(* append that failed may have left either, or nothing.                    *)
(***************************************************************************)
EXTENDS ChainSessions, FiniteSets, SequencesExt

CONSTANTS
    Sessions, Calls,
    Held,           \* the calls an approval rule matches
    Refused,        \* the calls the policy denies
    Approvers,
    Trusted,        \* the approvers whose key is in --approver-keyring
    MaxReceipts,    \* bound on the receipts signed
    MaxRestarts,    \* bound on the restarts of the proxy
    MaxScraps,      \* bound on the bytes left by appends that did not return
    Idle

VARIABLES
    store,          \* the session store of this process
    inst,           \* its instance token: one per process lifetime
    sect,           \* the exclusive section of every session
    tickets,        \* the folded pending store
    refused,        \* the pending store no longer loads
    cli,            \* what each run of the approve CLI has read
    log,            \* the receipt log, append by append
    ran,            \* the decision receipts of the forwarded calls
    minted          \* receipts signed so far

vars == <<store, inst, sect, tickets, refused, cli, log, ran,
          minted>>

-----------------------------------------------------------------------------
(* Receipts.                                                               *)

Chain(s, seg) == <<s, inst, seg>>

Receipt(hash, chain, seq, prev, verdict, call, by) ==
    [hash |-> hash, chain |-> chain, seq |-> seq, prev |-> prev,
     verdict |-> verdict, call |-> call, by |-> by]

Agent == "proxy"

Verdict(c, suppress) ==
    IF c \in Refused THEN "BLOCKED"
    ELSE IF c \in Held /\ ~suppress THEN "DEFERRED" ELSE "ALLOWED"

(* prepareSessionReceipt on the slot that peek returned.                   *)
Prepare(slot, c, suppress) ==
    Receipt(minted + 1, Chain(slot.sid, slot.seg), slot.seq, slot.head,
            Verdict(c, suppress), c, Agent)

-----------------------------------------------------------------------------
(* The pending store.  A record is identified by its session and receipt   *)
(* id, and the id is made of the sequence number: preCheck's rcpt_<seq>.   *)

Ticket(s, r) ==
    [sid |-> s, id |-> r.seq, status |-> "pending", deferred |-> r,
     allowed |-> NoReceipt, fresh |-> FALSE]

(* findOutstanding: the first record of the session that is not settled.   *)
Outstanding(s) ==
    SelectInSeq(tickets, LAMBDA t : /\ t.sid = s
                                    /\ t.status \in {"pending", "approved"})

(* recordDeferred: a second created event for one record makes the whole   *)
(* log unloadable.                                                         *)
RecordDeferred(s, r) ==
    IF \E i \in 1..Len(tickets) : tickets[i].sid = s /\ tickets[i].id = r.seq
    THEN refused' = TRUE /\ UNCHANGED tickets
    ELSE tickets' = Append(tickets, Ticket(s, r)) /\ UNCHANGED refused

(* consumeApprovalTicket: the record must be approved and unexpired.       *)
Consumable(i) == tickets[i].status = "approved" /\ tickets[i].fresh

-----------------------------------------------------------------------------
(* verifyApprovalReceipt, with the chain of the head if there is one.      *)
Genuine(allowed, slot) ==
    /\ allowed.by \in Trusted
    /\ slot.head # NoReceipt => allowed.chain = Chain(slot.sid, slot.seg)

\* Mutant: adoptApprovedReceipt that checks only the segment.
AdoptsAnywhere(s, allowed, seg) == SlotOf(StateFor(store, s), s).seg = seg

(* adoptApprovedReceipt: the approval must extend the current head.        *)
Adopts(s, allowed, seg) ==
    LET slot == SlotOf(StateFor(store, s), s)
    IN  /\ slot.seg = seg
        /\ allowed.prev = slot.head
        /\ allowed.seq = slot.seq

-----------------------------------------------------------------------------
Init ==
    /\ store = [live |-> <<>>, counter |-> 0]
    /\ inst = 1
    /\ sect = [s \in Sessions |-> Idle]
    /\ tickets = <<>>
    /\ refused = FALSE
    /\ cli = [a \in Approvers |-> Idle]
    /\ log = <<>>
    /\ ran = {}
    /\ minted = 0

Suspend(s, step, r, seg, c) ==
    sect' = [sect EXCEPT ![s] =
                [step |-> step, receipt |-> r, seg |-> seg, call |-> c]]

Release(s) == sect' = [sect EXCEPT ![s] = Idle]

AtStep(s, step) == sect[s] # Idle /\ sect[s].step = step

(* onReceipt has returned: the receipt is in the log.                      *)
Appended(r) == log' = Append(log, [receipt |-> r, whole |-> TRUE, failed |-> FALSE])

(* It has not, and some of the receipt is in the log.                      *)
Scraps == {i \in 1..Len(log) : log[i].failed \/ ~log[i].whole}
LeftBehind(r, whole, failed) ==
    /\ Cardinality(Scraps) < MaxScraps
    /\ log' = Append(log, [receipt |-> r, whole |-> whole, failed |-> failed])

(* handleCallTool without an outstanding hold: peek, preCheck and sign.    *)
CallTool(s, c) ==
    /\ sect[s] = Idle
    /\ ~refused
    /\ Outstanding(s) = 0
    /\ minted < MaxReceipts
    /\ LET st == StateFor(store, s)
           slot == SlotOf(st, s)
       IN  /\ store' = st
           /\ Suspend(s, "decision", Prepare(slot, c, FALSE), slot.seg, c)
    /\ minted' = minted + 1
    /\ UNCHANGED <<inst, tickets, refused, cli, log, ran>>

(* handleCallTool with an approved hold that matches this call loads the   *)
(* ticket.  Any other call of a session with an outstanding hold is        *)
(* refused, and so is every call while the pending store does not load: no *)
(* state changes.                                                          *)
SpendTicket(s, c) ==
    LET i == Outstanding(s)
    IN  /\ sect[s] = Idle
        /\ ~refused
        /\ i # 0
        /\ tickets[i].deferred.call = c
        /\ Consumable(i)
        /\ sect' = [sect EXCEPT ![s] =
                       [step |-> "consume", record |-> i, receipt |-> tickets[i].allowed, call |-> c]]
        /\ UNCHANGED <<store, inst, tickets, refused, cli, log, ran, minted>>

(* A consumed event is legal from an approved record only.                 *)
FoldConsumed(i) ==
    IF tickets[i].status = "approved"
    THEN tickets' = [tickets EXCEPT ![i].status = "consumed"] /\ UNCHANGED refused
    ELSE refused' = TRUE /\ UNCHANGED tickets

(* Then it appends the consumed event, whatever another process appended   *)
(* since, and verifies the approval it has loaded: a bad one burns the     *)
(* ticket.  An append that fails refuses the call.                         *)
ConsumeTicket(s, appended) ==
    /\ AtStep(s, "consume")
    /\ LET x == sect[s]
           st == StateFor(store, s)
           slot == SlotOf(st, s)
       IN  \/ /\ appended
              /\ FoldConsumed(x.record)
              /\ store' = st
              /\ IF Genuine(x.receipt, slot)
                 THEN Suspend(s, "approval", x.receipt, slot.seg, x.call)
                 ELSE Release(s)
           \/ ~appended /\ Release(s) /\ UNCHANGED <<store, tickets, refused>>
    /\ UNCHANGED <<inst, cli, log, ran, minted>>

(* The approval reached the receipt log: adopt it onto the chain and go on *)
(* to the decision for the call, with the approval hold suppressed.        *)
ApprovalPersisted(s) ==
    /\ AtStep(s, "approval")
    /\ LET x == sect[s]
           st == StateFor(store, s)
           adopted == Advance(st, s, x.receipt.hash, x.seg)
           slot == SlotOf(adopted, s)
       IN  /\ Appended(x.receipt)
           /\ IF Adopts(s, x.receipt, x.seg)
              THEN /\ minted < MaxReceipts
                   /\ store' = adopted
                   /\ minted' = minted + 1
                   /\ Suspend(s, "decision", Prepare(slot, x.call, TRUE),
                              slot.seg, x.call)
              ELSE /\ store' = st
                   /\ Release(s)
                   /\ UNCHANGED minted
    /\ UNCHANGED <<inst, tickets, refused, cli, ran>>

(* The decision reached the log: commit it to the session's chain, which   *)
(* drops a stale one, then leave the section.  A held call is recorded in  *)
(* the pending store, unless that write fails; an allowed one is forwarded *)
(* whether or not its commit was dropped.                                  *)
DecisionPersisted(s, recorded) ==
    /\ AtStep(s, "decision")
    /\ LET x == sect[s]
       IN  /\ Appended(x.receipt)
           /\ store' = Advance(store, s, x.receipt.hash, x.seg)
           /\ IF x.receipt.verdict = "DEFERRED" /\ recorded
              THEN RecordDeferred(s, x.receipt)
              ELSE UNCHANGED <<tickets, refused>>
           /\ ran' = IF x.receipt.verdict = "ALLOWED"
                     THEN ran \cup {x.receipt} ELSE ran
    /\ Release(s)
    /\ UNCHANGED <<inst, cli, minted>>

(* Signing or persisting failed: the call is rejected, the chain does not  *)
(* move, and a ticket already spent stays spent.  An append that failed    *)
(* (a full disk, an error on close) may have written some or all of its    *)
(* line.                                                                   *)
PersistFails(s) ==
    /\ AtStep(s, "approval") \/ AtStep(s, "decision")
    /\ \/ UNCHANGED log
       \/ \E whole \in BOOLEAN : LeftBehind(sect[s].receipt, whole, TRUE)
    /\ Release(s)
    /\ UNCHANGED <<store, inst, tickets, refused, cli, ran, minted>>

(* server.onclose queues the end of the session behind its calls.          *)
CloseSession(s) ==
    /\ sect[s] = Idle
    /\ Live(store, s)
    /\ store' = End(store, s)
    /\ UNCHANGED <<inst, sect, tickets, refused, cli, log, ran,
                   minted>>

(* The sweep timer runs whenever no handler does, suspended ones included. *)
SweepIdle(n) ==
    /\ n \in 1..Len(store.live)
    /\ store' = Sweep(store, n)
    /\ UNCHANGED <<inst, sect, tickets, refused, cli, log, ran,
                   minted>>

(* A process that starts again with the same session ids: the store and    *)
(* the sections are gone, the pending store and the receipt log are not.   *)
(* One append can have been under way (createSequentialFileAppender).      *)
Restart ==
    /\ inst <= MaxRestarts
    /\ inst' = inst + 1
    /\ store' = [live |-> <<>>, counter |-> 0]
    /\ sect' = [s \in Sessions |-> Idle]
    /\ \/ UNCHANGED log
       \/ \E s \in Sessions, whole \in BOOLEAN :
             /\ AtStep(s, "approval") \/ AtStep(s, "decision")
             /\ LeftBehind(sect[s].receipt, whole, FALSE)
    /\ UNCHANGED <<tickets, refused, cli, ran, minted>>

-----------------------------------------------------------------------------
(* The approve CLI, one run per approver at a time: it loads the store,    *)
(* finds the one record with this id, which must be pending, and signs;    *)
(* the append that makes the decision live is its last step.  There is no  *)
(* lock between the two.                                                   *)
CliLoad(a, i, cmd) ==
    /\ cli[a] = Idle
    /\ ~refused
    /\ \A j \in 1..Len(tickets) : j # i => tickets[j].id # tickets[i].id
    /\ tickets[i].status = "pending"
    /\ cmd = "approve" => minted < MaxReceipts
    /\ cli' = [cli EXCEPT ![a] = [record |-> i, cmd |-> cmd]]
    /\ UNCHANGED <<store, inst, sect, tickets, refused, log, ran, minted>>

(* buildApprovalReceipt: the next receipt of the held call's own chain.    *)
Approval(d, a) ==
    Receipt(minted + 1, d.chain, d.seq + 1, d.hash, "ALLOWED", d.call, a)

(* recordApproved and recordDenied fold onto any existing record.          *)
CliRecord(a) ==
    /\ cli[a] # Idle
    /\ LET i == cli[a].record
       IN  IF cli[a].cmd = "approve"
           THEN /\ minted < MaxReceipts
                /\ tickets' = [tickets EXCEPT
                       ![i].status = "approved", ![i].fresh = TRUE,
                       ![i].allowed = Approval(tickets[i].deferred, a)]
                /\ minted' = minted + 1
           ELSE /\ tickets' = [tickets EXCEPT ![i].status = "denied"]
                /\ UNCHANGED minted
    /\ cli' = [cli EXCEPT ![a] = Idle]
    /\ UNCHANGED <<store, inst, sect, refused, log, ran>>

(* The CLI's own receipt log or the append failed: nothing is recorded.    *)
CliFails(a) ==
    /\ cli[a] # Idle
    /\ cli' = [cli EXCEPT ![a] = Idle]
    /\ UNCHANGED <<store, inst, sect, tickets, refused, log, ran, minted>>

(* ticketExpiresAt passes.                                                 *)
TicketExpires(i) ==
    /\ tickets[i].status = "approved"
    /\ tickets[i].fresh
    /\ tickets' = [tickets EXCEPT ![i].fresh = FALSE]
    /\ UNCHANGED <<store, inst, sect, refused, cli, log, ran,
                   minted>>

-----------------------------------------------------------------------------
Section(s) ==
    \/ ApprovalPersisted(s)
    \/ \E recorded \in BOOLEAN : DecisionPersisted(s, recorded)
    \/ PersistFails(s)

Host(s) ==
    \/ \E c \in Calls : CallTool(s, c) \/ SpendTicket(s, c)
    \/ CloseSession(s)

Cli(a) ==
    \/ \E i \in 1..Len(tickets), cmd \in {"approve", "deny"} :
           CliLoad(a, i, cmd)
    \/ CliRecord(a)
    \/ CliFails(a)

(* The proxy's process does nothing else between the load of a ticket and  *)
(* the append that spends it; the approve CLI is another process.          *)
Consuming == \E s \in Sessions : AtStep(s, "consume")

Proxy ==
    \/ \E s \in Sessions, appended \in BOOLEAN : ConsumeTicket(s, appended)
    \/ ~Consuming /\ \E s \in Sessions : Host(s) \/ Section(s)
    \/ ~Consuming /\ \E n \in 1..Len(store.live) : SweepIdle(n)

Next ==
    \/ Proxy
    \/ \E a \in Approvers : Cli(a)
    \/ \E i \in 1..Len(tickets) : TicketExpires(i)
    \/ Restart

Spec == Init /\ [][Next]_vars

-----------------------------------------------------------------------------
Logged == {log[i].receipt : i \in {k \in 1..Len(log) : log[k].whole /\ ~log[k].failed}}

(* Line i continues a torn one, and a reader cannot make it out.           *)
Continues(i) == i > 1 /\ ~log[i - 1].whole
Lines == {i \in 1..Len(log) : log[i].whole /\ ~Continues(i)}

(* The chains a failed append has spoilt: its receipt is in the log all    *)
(* the same and its sequence number is issued again, or it tore the line   *)
(* of the receipt that came next.                                          *)
Spoilt == {log[i].receipt.chain :
              i \in {k \in 1..Len(log) : (log[k].failed /\ log[k].whole) \/ Continues(k)}}

(* The receipt log verifies, chain by chain (create-proxy-server.mjs:399,  *)
(* "the log must stay gap-free/verifiable"): no sequence number occurs     *)
(* twice and every receipt but the first extends the one before it.  One   *)
(* failed or interrupted append spoils no other chain than its own and the *)
(* next line's.                                                            *)
LogVerifies ==
    \A i, j \in Lines :
        LET q == log[i].receipt
            r == log[j].receipt
        IN  q.chain = r.chain /\ r.chain \notin Spoilt /\ q.seq <= r.seq =>
                /\ i # j => q.seq < r.seq
                /\ r.seq = q.seq + 1 => r.prev = q.hash
                /\ r.seq > 0 =>
                       \E k \in Lines : /\ log[k].receipt.hash = r.prev
                                        /\ log[k].receipt.chain = r.chain
                                        /\ log[k].receipt.seq + 1 = r.seq

(* What a forwarded call of a held kind rests on: the receipts DEFERRED,   *)
(* ALLOWED and the decision are consecutive in one chain and for one call, *)
(* and the approval is by an approver of the keyring                       *)
(* (create-proxy-server.mjs:330, "keeps DEFERRED/ALLOWED/EXECUTED          *)
(* contiguous-seq in ONE scope.chain").                                    *)
Approves(d, a, r) ==
    /\ d.verdict = "DEFERRED" /\ d.by = Agent
    /\ a.verdict = "ALLOWED" /\ a.by \in Trusted
    /\ a.prev = d.hash /\ r.prev = a.hash
    /\ a.seq = d.seq + 1 /\ r.seq = a.seq + 1
    /\ d.chain = r.chain /\ a.chain = r.chain
    /\ d.call = r.call /\ a.call = r.call

(* No held call is forwarded without its own chain of hold and approval,   *)
(* and no denied call at all.                                              *)
HeldRunsApproved ==
    \A r \in ran :
        /\ r.call \notin Refused
        /\ r.call \in Held => \E d, a \in Logged : Approves(d, a, r)

(* One hold is forwarded at most once, whatever the approvers append:      *)
(* "single-use is enforced CRYPTOGRAPHICALLY" (pending-store.mjs:125).     *)
OncePerHold ==
    \A r, q \in ran : \A a, b \in Logged :
        /\ r.prev = a.hash /\ a.by # Agent
        /\ q.prev = b.hash /\ b.by # Agent
        /\ a.prev = b.prev
        => r = q

(* An honest event log always loads: the fold enforces "the transitions    *)
(* that a legit event log actually obeys" (pending-store.mjs:105-106).     *)
LegitLogLoads == ~refused
=============================================================================
