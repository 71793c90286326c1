# A TLA+ model of NOA

NOA puts a human approval in front of an agent's action and leaves signed
evidence of what was asked, decided and done.  This directory models its stateful
parts and its receipt verifiers in TLA+, checks them with TLC on small instances and
proves the most important properties with TLAPS for every instance.

## The system

- **Gate** (`packages/gate`).  An agent asks to *hold* an action.  The gate
  freezes it in an envelope, an approver's device signs a decision, and the gate
  settles the hold: APPROVED, DENIED, EXPIRED or CANCELLED_LOCAL_STATE_LOST.  An
  approval issues one *execution grant*.  The agent's *wrapper* (`wrapper.ts`)
  *reserves* the grant before it acts and *reports* afterwards; a grant that stays
  reserved without a report gets a signed *uncertainty*.  `GateEngine` (`engine.ts`)
  has the handlers, `store.ts` the records and three compare-and-swap primitives.
  For *effect-owned* actions the gate commits the effect itself (`effect-owner.ts`).
  The key that signs grants may live in a process of its own (`grant-sidecar.ts`).
- **Relay** (`packages/relay`): carries holds, decisions and key manifests between
  agents and approver devices, over a store that rewrites one file at every put.
- **adapter-core, mcp-proxy**: sit in an agent's tool calls, keep a receipt chain per
  session and an event log of approval tickets that a command line tool also writes.
- **Receipt kernel and witness federation** (`src/`): receipts chained by hash,
  checkpoints and anchors that witnesses sign over a chain's head, and the offline
  verifiers for all of them.
- **tsa-anchor**: a monitor that looks for contradictions among the witnesses'
  anchors (`equivocation.mjs`), and time stamps for them.
- **evidence**, **approval-artifacts**, **signer-core**, **rail-x402**: formats,
  signatures and further verifiers.

The parts meet in five places, each of them modelled as a composition: wrapper and
gate (`Guard` extends `Gate`), effect owner and gate (`EffectOwner` extends `Gate`),
the relay's three services over one file store (`RelayStore`), the proxy, its
session store, its pending store and the approve tool (`McpProxy`), and the witnesses
and their monitor (`Monitor`, over `Notary` and `Equivocation`).

`PROJECT.json` lists every part with what is modelled of it, and the hazards at the
lines where they bite.

## Modules

| module | what it is |
| --- | --- |
| `Gate` | `GateEngine` over the `Store` interface: one module for both, since the races are between them |
| `HoldAuthority` | what the gate promises about one approval, without processes or stores |
| `EffectOwner` | the engine's `commit` and the in-memory ledger owner, over `Gate` |
| `Guard` | the execution wrapper as a client of `Gate`, over an unreliable network |
| `GrantSidecar` | the grant signer and its replay file |
| `RateLimiter` | the token buckets of gate and relay |
| `RelayStore` | the relay's file store: memory, file, rollback |
| `Relay`, `RelayEnrolment`, `RelayManifest` | the relay's holds, credentials and manifests, over `RelayStore` |
| `ChainSessions` | the in-memory chain session store of adapter-core |
| `FileSessionStore`, `SessionDirLock` | its file-backed form, and the lock of the directory |
| `DurableChains` | what a durable session store promises |
| `McpProxy` | the governed proxy, the pending store and the approve tool, over `ChainSessions` |
| `Receipts` | receipts, checkpoints, keyrings; `verifyChain` and `verifyHistoricalChain` |
| `Completeness` | anchors, the acceptance rule and `verifyChainWitnessed` |
| `Notary` | who builds, signs, retires and alters what those verifiers read |
| `Equivocation` | the monitor: the scan of a pool of anchors, the check of a finding elsewhere, the corroboration of a checkpoint |
| `Monitor` | the monitor over the anchors of `Notary`, and what makes its answers true |
| `MCGate`, `MCGateStore`, `MCLive`, `MCGuard`, `MCEffectOwner`, `MCRelay`, `MCStores`, `MCReceipts` | instances for TLC |
| `GateProofs`, `GatePromises` | theorems about `Gate`: its safety; its times and boots, and what one process promises |
| `AuthorityProofs` | theorems: `Gate` and `EffectOwner` implement `HoldAuthority`, and what a ledger and its mirror promise |
| `GuardProofs` | theorems about `Guard` |
| `SessionProofs` | theorems about `FileSessionStore` and `GrantSidecar` |
| `StoreProofs` | theorems about `SessionDirLock`, `Relay` and `RelayManifest` |
| `EnrolProofs` | theorems about `RelayEnrolment` and `RateLimiter` |
| `MonitorProofs` | theorems about `Equivocation`, `Monitor` and `Notary` |

An MC module that has a variable `part` holds several instances, and a behaviour is
of one of them: the instances do not interact, and share a run.  `alone` does the same
in `MCGateStore`, for two scenarios of one instance.

### Gate

Several gate processes (`Engines`) share one durable store.  A read returns a
detached copy (`structuredClone` in the store), a put writes the whole record, and
only `settleHold`, `claimGrantStatus` and `claimGrantReported` compare and swap.  A
handler is therefore split where another process can come in: a first action that
reads, checks and signs (`CreateHold`, `DecideHold`, `CancelHold`, `ExpireHold`,
`ReserveGrant`, `ReportDispatched`, `ReportHint`, `SweepGrant`), and one action per
write (`PutHold`, `SettleHold`, `ClaimStatus`, `ClaimReported`, `PutConsumption`,
`PutHint`, `Corroborate`).  `op[e]` is what process `e` carries in between.  The
handlers are synchronous functions of a single-threaded runtime, so a process
carries at most one, and with one process no handler interleaves with another.

| variable | code |
| --- | --- |
| `holds`, `byIdem`, `grants` | the store's maps of `HoldRecord`, the idempotency index, `GrantRecord` |
| `trust` | per process: boot identifier and start, the audience and epoch (tenant, gate key, manifest epoch) as one `root`, and the pinned roster's end and admitted classes |
| `now`, `restarts` | the clock; a count that bounds restarts |
| `op` | the handler in progress |
| `shown`, `reserved` | history: terminal views handed to callers; successful reserves |

A refused request changes nothing and is not an action: its checks are the guard.
`CreateAnswer` keeps the answers apart because the retry properties are about them.
`SignerFails` is the signer or the sealer throwing before the first write, `Restart`
a process coming back on the same store, possibly with another trust root and with
a boot identifier and start a supervisor reused (`BootSkew` is how far ahead of the
clock the code lets the start be).

Abstracted: a signature is who made it and over which record (`by`, `consumption`,
`uncertainty`); the request body is a model value, and so is its chain; identifiers
are fresh when drawn (`newId`).  `claimedAt`, `claimedBy` and the hint times are
written and never read, and are left out.  `sent` is a history field of a hold: the
chain the request named, which the retry properties need.  A sweep goes over a
listing; the model takes it hold by hold and grant by grant, each step from a copy
as old as the other processes make it.

### EffectOwner

An effect-owned action is executed by the gate.  `EffectOwner` adds to `Gate` the
ledger of each process with an owner: `rows` and `balances`, and the history `moved`,
how often a hold's transfer was executed.  `CommitHold` is `commit` up to and with the
owner's `commitOnce`: row, balances and answer in one step, as the code has it.  It
then carries the consumption to the grant (`mirrorGrantConsumed`) with the same two
store writes a report makes, and either may fail (`MirrorFails`).  `RestartOwner` loses
the ledger and keeps the store.  `CommitAnswer` is the order of commit's checks, replay
first.  An engine with this owner mints its own boot identifier, so `BootAllowed` draws
a fresh one that starts at the clock; `booted` remembers those in use.  Verifying the
signed bytes is comparing root and boot; which ledger a transfer names is left out,
since a hold for another ledger is refused when it is created.

### Guard

`inv[i]` is an invocation of `guard`: which step it is at (create, poll, reserve,
execute, report), the hold and grant it has learnt.  `net` holds the requests on their
way; one may be lost (`Lose`), served after its caller gave up, or answered into
nothing, and a wrapper may crash anywhere.  `serving[e]` says whose request process `e`
answers; the handlers are `Gate`'s own.  `ran` is the history of executor calls.

### GrantSidecar, RateLimiter

A request to the signer names for each of its parts the hold and approval it comes
from, so requests put together from several holds are in the model.  `SignGrant` is the
synchronous handler with its append to the replay file, which may fail or tear the last
line; `CrashInClaim` is a crash between two of its system calls; `Boot` reloads the
file, refuses a torn one and compacts (`renamed`: whether the compacted file replaced
the old one).  `seen` is the process's set, `journal` the file's lines.

`RateLimiter` has one action of the code, `Take` for a key; `Observe`, `since` and `count`
observe a window that may begin at any time.  `Gain` is what a key can gain in the idle
time: its refill, or a whole new bucket where an eviction gives more.

### Relay

`RelayStore` keeps `mem` and `disk`.  A put changes memory, then the file; its outcome
is done, failed (the put throws and rolls memory back) or died (the process ends before
or after the rename).  A fresh record is rolled back to the one before it; an object
changed in place before the put is rolled back to itself, as in the code; `unsaved` is
the history of the holds that differ from the file for that reason.  `Relay` has
the holds: `CreateHold`, `Retry`, `Decide`, `LazyExpire` (by a read) and `Sweep` (by the
timer), the long poll (`Wait`, `PollEnds`), `ClaimDevice`, `RevokeSelf`.  A decision
request is split where the server awaits its body: `PostDecision` authenticates the
device, `Decide` runs the engine.  A decision receipt has the action and the deferred
receipt it carries and, as a history field, the hold its signer was shown.
`RelayEnrolment` has pairing and device tokens; a redemption is two puts, and the first
may be durable without the second.  `RelayManifest` has `putManifest` with its version
rules, and the reset of a tenant whose record predates the bound on versions.

### Session stores, McpProxy

`ChainSessions` is a functional description of the store: slots ordered by last access,
eviction of the oldest, the segment counter.  `FileSessionStore` wraps it: every change
is made in memory, then appended, and an append fails before, within or after the line,
which poisons the store; `disk` is the fold of the file as a reload computes it.  It is
the file of one tenant: with several, a reload lists the slots file by file, and a cap
below their number keeps the last of that list.
`SessionDirLock` takes every file system call of `acquireLock` and `releaseLock` as a
step of its own.  `McpProxy` splits the exclusive section of a tool call where it is
suspended (signing, persisting) and between the load of an approved ticket and the append
that spends it (`SpendTicket`, `ConsumeTicket`): nothing else of the proxy runs there, but
the approve tool is another process.  `sect[s]` is what the section carries.  The approve
tool reads the pending store, signs and appends to the pending store in steps that other
runs of it and the proxy interleave with.  `log` is the receipt log append by append: an
append that failed, or that a restart interrupted, may have left its line, part of it or
nothing.  An append to the pending store is whole or absent: a torn one makes every later
load refuse, as a second created event does (`refused`).  The compaction of the grant
signer's file (`grant-sidecar.ts:576`) is likewise taken to write all of its text before
the rename, while the append of a claim (`:533`) may be short.

### Receipts, Completeness, Notary

A hash is the text that was hashed, a signature the key, domain and message it was made
from, so both are injective, which is what the verifiers rely on.  The verifiers are
operators, translated check by check in the order of the code, because that order
decides between TAMPERED, UNVERIFIED and VALID: `verifyParsedChain` (shape, order,
links, signatures, tenant, identity manifest, checkpoint), `verifyHistoricalChain` (key
lifecycle and the dated checkpoint), `verifyCompleteness` (pins, freshness,
contradiction, quorum), `verifyChainWitnessed`.

`Notary` is the world they are asked about: producers build receipts on whatever they
take for the head, so branches happen (`Sign`, `parent` is the history of what each was
built on); clerks sign checkpoints; witnesses anchor heads; the operator retires keys
while their holders can still sign (`retiredAt`, `builtAt`); time passes.  A verifier is
handed any list of the receipts: permuted, incomplete, repeated, with one copy altered
after signing.  The properties compare its verdict with that history, which no verifier
can see.

### Equivocation, Monitor

`scanForEquivocation` admits the anchors of a pool under the pins of its reader, groups
them by chain and sequence number and reports three kinds of contradiction: one key
that signed two heads at one place, two keys that signed one each, and a head that
differs from the presented chain.  The model keeps the order in which groups and
findings are met, because the bounds on findings and branches cut there.  A finding
carries its anchors; `verifyEquivocationProof` derives it again from them and the
recipient's own pins.  `checkpointCorroboration` scans one chain and counts distinct
keys.  A time stamp is on record or not: only the bound on how many are verified can
change a verdict.

`Monitor` has no actions of its own: the anchors are those `Notary`'s witnesses sign in
any order over any branch.  A pool is those anchors in every order, repeated, or with
one changed after signing; a finding is one the scan reported, or one put together from
any two anchors and any claims about them.

## Runs

| run | instances | question |
| --- | --- | --- |
| `gate_store` | two processes that race for one hold, with two grant ids, a short and a long roster; or one that restarts with other boots, starts, roots and rosters | is the store's compare-and-swap enough for single-use authority, and is anything decided, signed or spent across a restart that should not be? |
| `gate_single` | one process that may restart, several holds, keys and chains, an effect-owned action | the limits, the idempotent retry, the evidence on a grant |
| `live` | a gate under wrappers; long polls of a relay; fairness | is everything overdue settled, every execution recorded, every poll ended? |
| `guard` | two processes and one key; one process, two keys, a restart | is an approval executed twice, or a false consumption signed, over lost messages and crashes? |
| `owner` | an owner that restarts and loses its ledger; two owners over one store | is a transfer executed twice, or an executed one denied later? |
| `relay` | limiter; two holds, with a put that fails; two devices with revocation; enrolment; manifests | does an answer run ahead of the file, does a receipt decide another hold, does a version go back? |
| `stores` | grant signer; proxy with two sessions, an unreliable disk, an outsider, two approvers; session files; lock | does what lives by a file survive crashes and races for it? |
| `receipts` | four instances of `Notary`, two of `Monitor` | do the verifiers and the monitor say what is true of what was signed? |
| `gate_report_lock`, `gate_retry`, `relay_rollback`, `proxy_reload` | | expected violations (findings below) |

`gate_store` checks `GrantsMatchApprovals` (one grant per approval, stored together),
`ShownIsStored` (a process that lost the race shows nothing it signed), `ReservedOnce`,
`UncertaintyAfterWindow`, `SettledIsFinal`, `ResolvedByItsRoot`, `AuthorityWithinHold`
(the times of decisions and grants), `DecidedAndSpentAtHome` (a hold is decided by the
boot that froze it, its grant reserved under the same root), and that `Gate` implements
`HoldAuthority`.  `gate_single` checks `PendingHoldsLimited`,
`NamedRetryFindsHold`, `ReportedIsFinal` and `EvidenceIsKept`: these are claimed for one
process, the shipped configuration, and two findings show where they stop holding.

`live` checks `OverdueSettles`, `ExecutionIsRecorded` (as a consumption or an
uncertainty, though the wrapper crashed or its report was lost) and `EveryWaitEnds`.
`guard` checks `OneExecution`, `ConsumptionIsTrue` (a signed consumption is of an
executor that ran and returned ok) and `RefusedNeverRuns`.  `owner` checks
`CommittedIsAnswered` (a repeated commit gets the recorded outcome at any later time),
`MirrorIsTrue` (a grant reads consumed only after its transfer) and that commits and
reserves together implement `HoldAuthority`.

`relay` checks `WindowBound` (what a key is granted in any window, evictions included),
`DecidedForThisHold`, `AnswersAreDurable` (of holds, credentials and publishes, over failed
puts and crashes; an answer about a hold whose own put threw is excepted until a put
succeeds),
`OnePerIndex` (one hold per key, one device per kid, one credential per token),
`DevicesStayBound` (a device revoked while its request was read decides nothing; a
re-minted one keeps its binding) and `ManifestsMoveForward` (a published version is
never replaced by another manifest of that version or by a lower one).

`stores` checks `OneGrantPerApproval` and `GrantIsApproved` of the signer; `LogVerifies`
(the receipt log verifies chain by chain, and an append that failed or was interrupted
spoils its own chain and the next line's at most) and `HeldRunsOnce` (a held call is forwarded on
its own approval, once) of the proxy; `RestartResumes` and the refinement
`ImplementsDurableChains` of the session files; and `OneWriter` of the lock.

`receipts` checks of the verifiers `VerdictIsTrue` (VALID and TAMPERED are said exactly of the lists that deserve
it), `AttributionIsEarned` (what is attributed as of a past instant was built by then
under a key then active), `HistoryOutlivesKeys` (a later retirement takes back no
attribution) and `AnswerIsTrue` (no quorum is claimed that independent witnesses did not
form, and a fork they saw is reported, in any order of the anchors), and of the monitor
`MonitorIsTrue`: the scan accuses exactly where pinned witnesses contradict each other
or the presented chain, says clean only of a pool it read in full, and lists every
contradiction unless it says that it was cut; each finding that is no longer than the
verifier reads verifies, with the same key, at every recipient that pins the signers, under
other names too, and a longer one nowhere; no other finding verifies unless it is true; and a head is corroborated exactly when a quorum anchored it
in time and nobody contradicts its chain.

**Bounds.**  Two processes are enough for every race on one record, since a write
races with at most one other between its read and itself as far as one property can
tell; two grant identifiers let both processes approve.  `MaxTime` is past the end
of a hold, of its grant and of the sweep window, so every deadline is met from both
sides.  `MaxRestarts` and `MaxBoots` bring a process up under each other boot, root and
state of the file.  `MaxFailures` allows one failed put at any place, and `MaxScraps` two
appends of the receipt log that leave something without returning.  The limiter's burst of
three does not refill in its idle time of two, so that an eviction gives tokens away; three
keys over two buckets force it.  Two sessions over
a store with room for one force evictions; four or five receipts are enough for a hold,
its approval, a forwarded call and a second hold of the same session.  Two receipts
with all faults, and three across tenants, reach every check of the chain verifier; two
branches of one chain, three witnesses and a quorum of two reach every answer of the
witness rule.  Three anchors over two chains give the monitor a contradiction next to a
chain that has none, a fork with a conviction, and more stamps and longer findings than
`MaxUnique`; a second
instance gives two anchors different dates.  In `gate_store` the first boot and root are
fixed, since the model treats them alike, and a restart's start is before every hold, now,
or ahead of the clock, since it is only compared with the creation of a hold.  In
`gate_single` a process restarts as it was, the boot that is allowed most.  Symmetry permutes identifiers and keys where the constants
treat them alike and the properties allow it; it is not used in the liveness run.  These systems may stop when
there is nothing to do, so deadlock is not checked.

**Fairness** (`live` only).  The sweep timer and the reads keep attempting to
expire a hold and to corroborate a grant: strong fairness on the sweeps of each hold and
grant, because a handler of another request may be in progress in between.  A
synchronous handler that began goes on: weak fairness on `Served`.  A signer that is
down comes back: strong fairness on `Settles` and `Corroborates`, without which its
failures could win for ever.  Time passes.  Nothing is assumed of wrappers, agents or
the network.  At the relay the timers (`Tick`, `Sweep`, the end of a poll) are weakly
fair.

**Mutants.**  Next to a definition a module keeps altered forms of it, marked `Mutant`:
each is a plausible bug of that code, and one of the properties fails with it.

**Findings.**
- `gate_report_lock`: a report of UNKNOWN or FAILED_BEFORE_DISPATCH writes back
  the whole record it read.  On a store shared by two processes it can overwrite the
  terminal lock another process took in between, although the tests describe that
  lock as one that cannot be raced.  With one process the property holds.
- `gate_retry`: a request without a chain is given a fresh one each time, and the
  chain is part of what the idempotency check compares, so repeating the request is
  answered with a conflict instead of its hold.  With a named chain the retry works.
- `relay_rollback`: expiry and decision change the hold object that is already in the
  store's map, so when the put cannot be persisted the rollback restores the changed
  record.  Memory and file disagree until the next put or restart.
- `proxy_reload`: a hold is recorded under its session and sequence number, without the
  segment.  A session that restarts its segment can be held at the same number again;
  the second created event makes the pending store refuse to load.

**Limits the properties respect.**  Some properties are stated for less than one could
wish, because the code does less.  `OneGrantPerApproval` is for starts that share one
freshness window: a signer restarted with a longer window after its file was compacted
may accept an old approval again.  `OneWriter` excludes the case that a stale lock is
removed while another process has just judged it.  `LogVerifies` is stated for one
approver at a time: overlapping runs of the approve tool can write one sequence number
twice.  It excepts the chains that a failed append has spoilt: the proxy issues the
sequence number again after a failed append (`create-proxy-server.mjs:457`), of which
`appendFile` may have written all, and a torn line swallows the receipt after it.  With
`--session-dir` a crash between the receipt log's append and the session file's also
issues a number twice, as `file-session-store.mjs:95` says; the two files are modelled
apart.  With two approvers, a denial appended between the load of an approved ticket and
its consumed event is an illegal sequence for the fold, and the pending store no longer
loads.  `AnswersAreDurable` excepts what an agent is told of a hold whose own put threw,
until a put succeeds: the changed object stays in memory (`relay_rollback`), and a read
answers from it, although `src/packages/relay/src/file-store.ts:19` rules out "a false
200/201/204 for data that never reached disk".  `WindowBound` is not burst plus refill:
`src/packages/gate/src/ratelimit.ts:39` says that an idle bucket "has certainly refilled to
capacity, so dropping it is free", which is so only where the burst refills within the idle
time, and the constructor takes any rate, 0 included; else an eviction is worth up to a
burst.  `HistoryOutlivesKeys` is about retirements dated at the moment they are made, not
ones dated back.  `VerdictIsTrue` takes a receipt without a tenant as consistent with any tenant,
as the code does, although a comment at `src/src/verify.ts:388` calls a chain that
carries the field on some receipts only tampered.  `MonitorIsTrue` is about recipients
that do not use a producer's name of one witness for another: `admitAnchor` looks the
name up first, so such a recipient rejects a genuine finding for its signature, although
the comment at `src/packages/tsa-anchor/src/equivocation.mjs:451` says that the signature
is checked against each pinned key.  It says of a finding with more branches than
`verifyEquivocationProof` reads (16, `equivocation.mjs:1120`) that nobody accepts it: the
scan takes any `maxBranches` from 2 on, although
`src/packages/tsa-anchor/test/round2-regressions.test.mjs:169` says "Every emitted finding
must survive its own verifier, at any accepted bound".  It relates the monitor to the acceptance rule one
way only, on a head confirmed by a quorum: the rule also calls a fork what a witness
anchored beyond the head, which the monitor does not.

## Proofs

A theorem holds for every value of the constants: any number of processes, agents,
holds, tokens or keys, any lifetimes, and bounds of the model (clock, restarts, failed
writes) as large as one likes.  What it assumes of the constants is an `ASSUME` of the
module, which the runs evaluate, or a hypothesis of the theorem, named below.

### Gate

The theorems are about `Spec` of `Gate` under `ConstantsAssumption`: the subsets and
number ranges the code fixes, that a request without a chain is not a chain name, and
that "no value" is none of the identifiers.

The invariant is

    IInv == TypeOK /\ OpsCurrent /\ GrantsMatchApprovals /\ ShownIsStored
              /\ ReservedOnce /\ ResolvedByItsRoot

None of the parts is inductive alone.  A write takes what its process read several
steps ago, so a write keeps `GrantsMatchApprovals` only if the grant it carries is
still unknown to the store, keeps `ReservedOnce` only if the copy it puts back is of
a grant that was reserved by then, and keeps even `TypeOK` only if the hold a loser
reads again is known.  `OpsCurrent` says that of every handler in progress, and it is
kept because the store only grows (`HoldsGrow`, `GrantsGrow`): known records stay
known, a hold keeps its root, a grant its hold, a reserved grant stays reserved, a
settled hold does not change.  `WriteGrows` shows that write by write; `OthersCurrent`
concludes for the handlers of all other processes at once.

Theorems of `GateProofs`: `TypeCorrect`, `OperationsStayCurrent`,
`ApprovalsHaveOneGrant`, `ShownStaysStored`, `SingleUse`, `ResolvedUnderItsRoot`,
`TerminalIsTerminal`.  Of `AuthorityProofs`: `Refinement`.  `PutHold` is the abstract
`Open`, a `SettleHold` that wins is `Resolve`, a `ClaimStatus` that wins is `Use`, and
every other step is a stutter.

### Gate: times and boots

Three invariants on top of `IInv` (`GatePromises`), each about the copies that handlers
carry as much as about the store, because a copy is written back later.

- `UncertaintyIsEarned`, from `WindowInv`: a signed uncertainty is true of every copy of
  its grant from then on, since the time of the reservation never changes.
- `AuthorityEndsWithHold`, from `TimesInv`: a settled copy that a handler carries is in
  time when it is made, and every copy of a grant has the end the grant was issued with.
  The hypothesis is `GrantTtl > 0`: the engine takes `grantTtlMs` as it is configured,
  and with 0 a grant ends at the instant it is issued.
- `DecidedAtHome`, from `HomeInv`: a decision in progress is of a hold of the boot its
  process is in, a reservation in progress of a grant of its root.  A restart drops the
  operation with the boot.

### Gate: one process

What the store's compare-and-swap does not protect is promised by a single process only
(`MCGateStore` shows with two what is lost).  Under `OneProcess`, a handler that goes on
finds the store as it left it (`SoloOps`), so no copy of a grant is stale (`CopiesInv`)
and what `createHold` checked is true when it stores the hold (`SoloInv`).
`ReportIsTerminal` and `EvidenceStays` follow from the first, `PendingStaysLimited` and
`RetryIsIdempotent` from the second.

### Effect owner

`AuthorityProofs` is also about `OwnerSpec` of `EffectOwner`, for any number of owners and
any accounts and balances.  The invariant is

    OwnerInv == IInv /\ BootsInv /\ LedgerInv /\ MirrorInv

A ledger lives in its process, so nothing in the store tells a commit that a transfer
was executed when the mirror failed.  What does is the boot: a process commits only
holds of its own boot, no two owners share one and an owner never restarts under one in
use (`BootsInv`), so the only process that could execute a transfer again is the one that
has its row (`LedgerInv`).  That no wrapper executes it besides is `MirrorInv`: a grant of
an effect-owned action is never reserved, and neither the store nor a handler in progress
has it reported or consumed before the transfer was executed.  The gate's invariant `IInv`
had to be strong enough for the gate and weak enough for the mirror, which begins a report
on a grant nobody reserved; that the gate's own reports are of reserved grants is
`ReportsReserved`.

From it `CommitsAreAnswered`, `MirrorStaysTrue`, `GateSafeWithOwners` and
`CommitRefinement`: a commit that executes is the abstract `Use`, a refused one and a
failed mirror are stutters, and every other step is what it is for `Gate`, with `moved`
unchanged; a reservation is of a hold that was not committed.

### Guard

`GuardImplementsGate`: every step of wrappers, network and processes is a step of `Gate`
or leaves the gate alone, so all of the above holds behind `guard()`.  `ExecutesOnce`,
`SignedIsTrue` and `RefusalIsFinal` are theorems about `GuardSpec`, for any number of
invocations, whatever requests are lost, late or answered to nobody.  The invariant

    GuardInv == IInv /\ PhasesInv /\ WinnersInv /\ RecordsInv /\ ToldInv

says what an invocation knows in each phase and that a request on its way is of an
invocation that got so far; that only one invocation is ever past its reservation of a
grant, and that this grant is taken; that a consumption, stored or carried, is of an
executor that returned; that a refusal someone was told is stored.  `AgentAssumption`:
there is an agent.

### Grant signer

`GrantedOnce`: one approval buys at most one grant, for any holds, clocks and number of
crashes and restarts, if all starts use one freshness window (`OneWindow`).  The count
alone is not inductive: a second grant is prevented by the process's set, which a
restart rebuilds from the file.  The invariant adds that a spent approval is recorded in
both or stale by now (`SpentIsRecorded`, `ForgottenIsStale`); what pruning drops is stale
because an entry's expiry is computed from the same window that the freshness check
uses.  `ForgottenStale` states that part by itself.  `SignedIsApproved`: a signed grant
names hold, approval and parameters of one human approval, whatever parts the request
was assembled from.

### Rate limiter

`WindowIsBounded`: in any window a key is granted at most the burst and, for each idle time
in it, the greater of that time's refill and one burst (`Gain`), for any keys, rate (0
included), burst, idle time and cap.  The inductive form (`CreditBound`) adds to the takes
granted what the bucket would hold had it filled at the rate of `Gain`; the eviction of an
idle bucket keeps it because at that rate an idle bucket is full again.  `BurstIsBounded`:
where the burst refills within the idle time, this is the burst and the window's refill,
and an eviction gives nothing away.  `MapIsBounded`: the map never exceeds its cap.

### Notary

`AttributionOutlivesKeys`: for any producers, witnesses, keys and activations, what
`verifyHistoricalChain` attributes as of a past instant is still attributed after any
step, until the witness itself is retired.  Retirements reach the verdict in three
places only (the document's intervals are proper, the witness is not retired, the
checkpoint predates the retirements of the signers), and a retirement that happens now
changes none of them for a checkpoint dated before; the invariant is that every date is
one the clock has shown.  `NotaryConstants` are its hypotheses: activations are
instants, retirable kids are kids, and an absent option is not a document.
`SnapshotOrderIsIrrelevant`: what a pinned witness is taken to say depends neither on the
order of its anchors nor on repetitions.

### Equivocation

`ConvictionIsSound`: for every finding, trust set and bound, the key that a verified
finding convicts is pinned by the recipient and signed two anchors of the finding that
name different heads at one place of one chain.  The argument follows the code's: a
branch counts only as what `admitAnchor` derives from the anchor itself
(`AdmittedIsSigned`), acceptance means that the records share a frontier and satisfy the
rule of the kind (`AcceptedByItsRule`), and records that differ are anchors that
contradict (`RecordsContradict`).  Nothing the finding claims about its branches is used.
`HonestNeverConvicted` follows for a witness whose issued anchors do not contradict each
other, if its signatures are only on what it issued.  `ForkIsOfTwoKeys`: a verified fork
is of two different pinned keys, never of one under two names.

### Session files

`SessionProofs`, for any sessions, cap, receipts, failed writes, crashes and restarts.
`StoreResumes`: every chain that a running store would still extend is the one a
restart reads back (`RestartResumes`).  `FilesImplementChains`: the fold of the file
implements `DurableChains`, with the receipt lines written as the segments used.  The
invariant

    FilesInv == FilesType /\ SegmentsBounded /\ HashesAreOwn
                /\ HeadsAreWritten /\ PreparedOnSlot /\ MemoryOnDisk

carries both.  `RestartResumes` is not inductive: a receipt is prepared on a slot that
may be evicted, ended or minted again before the commit, so `PreparedOnSlot` says that a
receipt of the live segment continues the live head.  `MemoryOnDisk` adds to
`RestartResumes` that a slot without a receipt is in a segment of which no line was ever
written; after a restart that holds because the counter read back is at or past every
line (`SegmentsBounded`), those of ended sessions included.  The abstract chain of a
session is found through the line of its head, hence `HashesAreOwn` (one line per hash)
and `HeadsAreWritten`.  Under the invariant the line of an end, an eviction or a sweep is
the drop of a chain, that of an accepted commit its begin or its extension, and every
other step, a write that did not reach the file and a restart among them, a stutter.  The list operations of the store
(the slot of a session, the slots without it, the oldest dropped, the last few kept)
have lemmas of their own that say what they do to the set of slots.
`SessionConstants`: "no value" is neither a session nor a chain, and the bounds are
numbers.

### Directory lock

`LockExcludes`: at most one process holds the lock of a session directory and its file is
that process's own, for any number of processes, acquisitions and crashes, unless a
lock was taken away while another process was between its read of it and its own unlink
(`raced`, the condition `OneWriter` states).  What is inductive is what each process relies on at its step
(`Relies`): one that writes finds the file it created, one that unlinks the file it read
and the owner dead.  Nonces are drawn once, so a file with a process's nonce is that
process's.  `LockConstants`: "no file" is neither a process nor a content.

### Relay

All of it over `RelayStore`, with any number of failed puts, crashes and restarts.

- Holds (`StoreProofs`).  The invariant is that file and memory are both sound (one hold
  per key and per deferred receipt, a receipt on the hold its signer was shown), that the
  file is behind memory only in what memory decided or expired, never in which holds
  there are, and that a receipt chains onto the hold its signer was shown.  A put that
  opens a hold is rolled back properly when it fails, which is why a crash takes back
  settlements and never a hold.  From it `ReceiptsDecideTheirHold`, `KeysNameOneHold` and
  `RevokedDecidesNothing`.  `AnswersStayDurable` holds with failed puts, too: a hold that
  is not `unsaved` agrees in memory and file, an answer about such a hold is in the file,
  and the next put that succeeds writes the others.  What is told of an unsaved hold is
  excepted by the property (the finding of run `relay_rollback`).
- Enrolment (`EnrolProofs`).  Here every change is a fresh record, so memory and file are
  equal between two steps (`EnrolInv`), a used token stays used and an answered
  credential is of a used token.  From it `TokensBuyOne`, `CredentialsStay`,
  `KidsNameOneDevice`, `RemintKeepsTheDevice`.
- Manifests (`StoreProofs`).  The tenant's record is at or past every publish accepted
  since the tenant was opened anew, which happens at most once because the record is
  bounded from then on (`ManifestInv`).  From it `ManifestsAgree`, `PublishesStay`,
  `VersionsOnlyGrow`.

`RelayConstants`, `EnrolConstants`, `ManifestConstants`: "no value" is no record, token
kinds differ, lifetimes and the bound on versions are numbers.

### Only model-checked

- The liveness properties: fairness is out of the prover's reach.
- What recursive computations yield for lists of any length: `VerdictIsTrue`,
  `AttributionIsEarned` and `AnswerIsTrue`, and of `MonitorIsTrue` what the scan reports
  and what it misses.
- The proxy (`LogVerifies`, `HeldRunsOnce`): within reach of the method used for the gate,
  and not proved.

## Not modelled

- Cryptography, canonical encodings, schemas and file formats: a model tells a
  signed record from another one by who signed it and what it says.  This is
  `approval-artifacts`, `signer-core`, `rail-x402`, the time stamps of `tsa-anchor`
  and the COSE encoding.
- The evidence verifier (`packages/evidence`): a long sequence of independent checks
  over one parsed bundle, without state; what could be modelled of it are the bindings
  between artifacts, nearly all of which are comparisons of hashes.
- HTTP routing, limits on bodies, push delivery, the command lines and logging.
- The gate's long-poll waiters: they are local to a process and end by a timer; the
  relay's, which are the same in kind, are modelled.
- The matching of a call against rules and policies, the classification of a tool's
  outcome, and key rotation of the proxy: pure, or configuration.
- The framework adapters, which wrap adapter-core; the verifiers in other languages,
  which are ports held to the receipt kernel by the repository's conformance vectors.
- The repository's scripts, more than half of its lines: release, conformance and
  documentation checks that run over the repository and not in the system.
