---------------------------- MODULE GrantSidecar ----------------------------
(***************************************************************************)
(* The grant signer: the process behind a socket that holds the only       *)
(* execution-signer key (packages/gate/src/grant-sidecar.ts), with its     *)
(* durable record of the approvals already granted (ApprovalReplayStore).  *)
(*                                                                         *)
(* A human approval of a hold is two artifacts, a decision over the hold's *)
(* envelope and an ALLOWED receipt over the approved parameters; the gate  *)
(* hands both in with the grant it wants signed.  A request names, field   *)
(* by field, which hold and approval each of its parts belongs to.  The    *)
(* handler is synchronous; a crash may come between any two of its system  *)
(* calls.  The journal is the set of the approvals it has a line for.      *)
(***************************************************************************)
EXTENDS Integers, FiniteSets

CONSTANTS
    Holds, Params,
    Lifetime,       \* how long a hold is open
    Windows,        \* the values --max-approval-age-ms may be started with
    Skew,           \* CLOCK_SKEW_MS
    MaxEntries,     \* MAX_REPLAY_ENTRIES
    None,
    MaxTime, MaxBoots  \* bounds of the model

ASSUME SidecarAssumption ==
    /\ Lifetime \in Nat /\ Skew \in Nat /\ MaxTime \in Nat /\ MaxBoots \in Nat
    /\ MaxEntries \in Nat
    /\ Windows \subseteq Nat
    /\ None \notin [params : Params, at : Int, ends : Int]

VARIABLES
    now,
    approval,       \* the human approval of each hold, if there is one
    up,
    window,         \* maxApprovalAgeMs of the running process
    seen,           \* its anti-replay set
    journal,        \* the approvals recorded in the replay file
    torn,           \* the replay file has an unreadable line
    boots,
    signed,         \* history: grants that left the process
    count           \* history: how many per approval

vars == <<now, approval, up, window, seen, journal, torn, boots, signed, count>>

Approvals == [params : Params, at : Int, ends : Int]

Init ==
    /\ now = 0
    /\ approval = [h \in Holds |-> None]
    /\ up = FALSE
    /\ window \in Windows
    /\ seen = {}
    /\ journal = {}
    /\ torn = FALSE
    /\ boots = 0
    /\ signed = {}
    /\ count = [h \in Holds |-> 0]

(* A human approves hold h; the phone's clock may be ahead or behind.      *)
Approve(h, p, at) ==
    /\ approval[h] = None
    /\ approval' = [approval EXCEPT ![h] =
                       [params |-> p, at |-> at, ends |-> now + Lifetime]]
    /\ UNCHANGED <<now, up, window, seen, journal, torn, boots, signed, count>>

-----------------------------------------------------------------------------
(* The anti-replay set.                                                    *)

expiryFor(h, w) == approval[h].at + w + Skew

(* prune                                                                   *)
Pruned(S, w) == {h \in S : now <= expiryFor(h, w)}

-----------------------------------------------------------------------------
(* A request: the hold, parameters and approval the grant document names   *)
(* and whether its window is too long, and the hold whose envelope and     *)
(* deferred receipt, the approval whose decision, and the approval whose   *)
(* ALLOWED receipt come with it.  An approval is named by its hold.        *)
Requests ==
    [hold : Holds, params : Params, ref : Holds, outlives : BOOLEAN,
     envelope : Holds, deferred : Holds, decision : Holds, receipt : Holds]

(* Step 2: the approval is fresh by this process's own clock.              *)
Fresh(h) ==
    /\ approval[h].at <= now + Skew
    /\ now - approval[h].at <= window

(* Steps 1, 3, 4 and 5: the receipt links onto the deferred receipt of the *)
(* envelope's hold, the envelope is this grant's, and the decision is over *)
(* this envelope.                                                          *)
OneHold(r) ==
    /\ r.receipt = r.deferred
    /\ r.deferred = r.envelope
    /\ r.hold = r.envelope
    /\ r.decision = r.envelope

\* Mutant: a grant bound to its approval and not to the approved
\* parameters.
BoundToReceipt(r) == r.ref = r.receipt

(* Step 6: the grant names this approval and the parameters it approved.   *)
Bound(r) == r.ref = r.receipt /\ r.params = approval[r.receipt].params

(* validateGrantRequest                                                    *)
Valid(r) ==
    /\ approval[r.receipt] # None
    /\ Fresh(r.receipt)
    /\ OneHold(r)
    /\ now <= approval[r.envelope].ends
    /\ Bound(r)
    /\ ~r.outlives

(* claim refuses an approval seen before, and a full set.                  *)
Claims(h) ==
    /\ h \notin Pruned(seen, window)
    /\ Cardinality(Pruned(seen, window)) < MaxEntries

Signs(r) == [hold |-> r.hold, params |-> r.params, ref |-> r.ref]

(* append of one line: the file gets the whole line or an unreadable part. *)
WholeLine(h) == journal' = journal \cup {h} /\ UNCHANGED torn
TornLine == torn' = TRUE /\ UNCHANGED journal

(* claim that finds the approval spent, or the set full: it only prunes.   *)
RefuseClaim ==
    /\ seen' = Pruned(seen, window)
    /\ UNCHANGED <<journal, torn, signed, count>>

(* claim and the answer.  A short write is not noticed.                    *)
ClaimAndAnswer(r) ==
    /\ seen' = Pruned(seen, window) \cup {r.receipt}
    /\ WholeLine(r.receipt) \/ TornLine
    /\ signed' = signed \cup {Signs(r)}
    /\ count' = [count EXCEPT ![r.receipt] = @ + 1]

(* An append that throws before, after or within its write: the answer is  *)
(* a refusal and nothing is claimed in memory.                             *)
AppendThrows(r) ==
    /\ seen' = Pruned(seen, window)
    /\ UNCHANGED <<journal, torn>> \/ WholeLine(r.receipt) \/ TornLine
    /\ UNCHANGED <<signed, count>>

(* handleGrantSignerRequest of sign-grant: validate, sign, claim, answer.  *)
SignGrant(r) ==
    /\ up
    /\ Valid(r)
    /\ \/ ~Claims(r.receipt) /\ RefuseClaim
       \/ Claims(r.receipt) /\ (ClaimAndAnswer(r) \/ AppendThrows(r))
    /\ UNCHANGED <<now, approval, up, window, boots>>

(* A crash between the append and the answer: the approval is spent and no *)
(* grant was delivered.                                                    *)
CrashInClaim(r) ==
    /\ up
    /\ Valid(r)
    /\ Claims(r.receipt)
    /\ WholeLine(r.receipt) \/ TornLine
    /\ up' = FALSE
    /\ seen' = {}
    /\ UNCHANGED <<now, approval, window, boots, signed, count>>

Stop ==
    /\ up
    /\ up' = FALSE
    /\ seen' = {}
    /\ UNCHANGED <<now, approval, window, journal, torn, boots, signed, count>>

\* Mutant: a process that starts without reading the replay file.
LoadedNothing(w) == {}

(* load, then the prune of compact.                                        *)
Loaded(w) == Pruned(journal, w)

(* main: a replay file that cannot be read stops the start; compact        *)
(* rewrites it, atomically, unless the process dies before the rename.     *)
Boot(w, renamed) ==
    /\ ~up /\ ~torn
    /\ boots < MaxBoots
    /\ boots' = boots + 1
    /\ window' = w
    /\ up' = renamed
    /\ seen' = IF renamed THEN Loaded(w) ELSE {}
    /\ journal' = IF renamed THEN Loaded(w) ELSE journal
    /\ UNCHANGED <<now, approval, torn, signed, count>>

Tick ==
    /\ now < MaxTime
    /\ now' = now + 1
    /\ UNCHANGED <<approval, up, window, seen, journal, torn, boots, signed,
                   count>>

Next ==
    \/ \E h \in Holds, p \in Params, d \in (-Skew)..Skew : Approve(h, p, now + d)
    \/ \E r \in Requests : SignGrant(r) \/ CrashInClaim(r)
    \/ Stop
    \/ \E w \in Windows, renamed \in BOOLEAN : Boot(w, renamed)
    \/ Tick

Spec == Init /\ [][Next]_vars

-----------------------------------------------------------------------------
(* The types.                                                              *)
TypeOK ==
    /\ now \in Nat
    /\ approval \in [Holds -> Approvals \cup {None}]
    /\ up \in BOOLEAN /\ torn \in BOOLEAN
    /\ window \in Windows
    /\ seen \subseteq Holds /\ journal \subseteq Holds
    /\ count \in [Holds -> Nat]

(* "one human decision authorizes one grant": over crashes, failed and     *)
(* torn appends, restarts and compactions of the replay file               *)
(* (ApprovalReplayStore).                                                  *)
OneGrantPerApproval == \A h \in Holds : count[h] <= 1

(* "the parameters in a signed grant are the parameters a human approved"  *)
(* (grant-sidecar.ts:31), for the hold they approved, however the parts of *)
(* the request were put together.                                          *)
GrantIsApproved ==
    \A g \in signed :
        /\ approval[g.hold] # None
        /\ g.ref = g.hold
        /\ g.params = approval[g.hold].params

(* A spent approval that could still be granted is in the file the next    *)
(* start reads, or that start is refused (append before the answer).       *)
SpentIsRecorded ==
    \A h \in Holds :
        count[h] > 0 => \/ h \in journal
                        \/ torn
                        \/ now - approval[h].at > window

(* A spent approval is forgotten only when it would be refused as stale:   *)
(* the retention and the freshness check "cannot drift apart"              *)
(* (ApprovalReplayStore).                                                  *)
ForgottenIsStale ==
    up => \A h \in Holds :
              count[h] > 0 /\ h \notin seen => now - approval[h].at > window
=============================================================================
