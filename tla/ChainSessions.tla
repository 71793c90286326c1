--------------------------- MODULE ChainSessions ---------------------------
(***************************************************************************)
(* The in-memory chain session store of the MCP adapter:                   *)
(* createChainSessionStore (packages/adapter-core/src/session-store.mjs).  *)
(*                                                                         *)
(* A store holds one slot per live session: its segment, the head of that  *)
(* segment's receipt chain and the next sequence number.  st.live lists    *)
(* the slots in the order of their last access (lastAccessedAt), oldest    *)
(* first, and st.counter is the segment counter, which is never reset.     *)
(* Sessions are (tenant, sessionId) pairs: the buckets are disjoint.       *)
(***************************************************************************)
EXTENDS Naturals, Sequences

CONSTANTS
    MaxSessions,    \* maxSessions, or 0 for no cap
    NoReceipt       \* a segment that has no receipt yet

Slot(s, seg) == [sid |-> s, seg |-> seg, seq |-> 0, head |-> NoReceipt]

Live(st, s) == \E i \in 1..Len(st.live) : st.live[i].sid = s

PlaceOf(st, s) == CHOOSE i \in 1..Len(st.live) : st.live[i].sid = s

SlotOf(st, s) == st.live[PlaceOf(st, s)]

Others(st, s) ==
    IF Live(st, s)
    THEN SubSeq(st.live, 1, PlaceOf(st, s) - 1)
             \o SubSeq(st.live, PlaceOf(st, s) + 1, Len(st.live))
    ELSE st.live

(* evictOldestIdle: the slot with the smallest lastAccessedAt, if any.     *)
EvictOldestIdle(live) == IF live = <<>> THEN live ELSE Tail(live)

(* Nothing is evicted for a new slot where maxSessions is 0.               *)
AtCap(live) == MaxSessions > 0 /\ Len(live) >= MaxSessions

(* stateFor, called by peek: a live slot is touched, a missing one is      *)
(* minted with the next segment after the cap has evicted the oldest.      *)
StateFor(st, s) ==
    IF Live(st, s)
    THEN [st EXCEPT !.live = Append(Others(st, s), SlotOf(st, s))]
    ELSE LET kept == IF AtCap(st.live) THEN EvictOldestIdle(st.live) ELSE st.live
         IN  [live |-> Append(kept, Slot(s, st.counter + 1)),
              counter |-> st.counter + 1]

\* Mutant: advance that grafts a stale receipt onto whatever segment is
\* live.
AdvanceStale(st, s, receipt, seg) ==
    LET st1 == StateFor(st, s)
    IN  [st1 EXCEPT !.live = Append(Others(st1, s),
             [SlotOf(st1, s) EXCEPT !.head = receipt, !.seq = @ + 1])]

(* advance with the segment the receipt was prepared against: dropped when *)
(* the session was torn down or has moved to a newer segment.              *)
Advances(st, s, seg) == Live(st, s) /\ SlotOf(st, s).seg = seg

Advance(st, s, receipt, seg) ==
    IF Advances(st, s, seg)
    THEN [st EXCEPT !.live = Append(Others(st, s),
              [SlotOf(st, s) EXCEPT !.head = receipt, !.seq = @ + 1])]
    ELSE st

End(st, s) == [st EXCEPT !.live = Others(st, s)]

(* sweep: everything last touched at or before the cutoff, that is the n   *)
(* oldest slots for some n.                                                *)
Sweep(st, n) == [st EXCEPT !.live = SubSeq(@, n + 1, Len(@))]

(* A store constructed from replayed sessions: the counter passes every    *)
(* seed, and the cap keeps only the last of them.                          *)
Seeded(seeds, floor) ==
    [live |-> IF MaxSessions > 0 /\ Len(seeds) > MaxSessions
              THEN SubSeq(seeds, Len(seeds) - MaxSessions + 1, Len(seeds))
              ELSE seeds,
     counter |-> floor]

=============================================================================
