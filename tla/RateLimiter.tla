----------------------------- MODULE RateLimiter -----------------------------
(***************************************************************************)
(* The token buckets in front of the relay and of the gate                 *)
(* (packages/relay/src/ratelimit.ts; packages/gate/src/ratelimit.ts is the *)
(* same).  The map of buckets is bounded: a new key evicts the idle        *)
(* buckets of a full map and is refused where none was idle.               *)
(*                                                                         *)
(* A tick is the time the refill rate needs for Refill whole tokens, so    *)
(* fractions of a token are left out.  The clock does not go back.         *)
(***************************************************************************)
EXTENDS Integers, FiniteSets

CONSTANTS
    Keys, NoBucket,
    Capacity,       \* burst
    Refill,         \* tokens per tick
    IdleEviction,   \* IDLE_EVICTION_MS, in ticks
    MaxBuckets,     \* MAX_BUCKETS
    MaxTicks        \* bound of the model

(* The burst and the rate are configured, and the rate may be 0: nothing   *)
(* makes the burst refill within the idle time.                            *)
ASSUME LimiterAssumption ==
    /\ Capacity \in Nat \ {0} /\ Refill \in Nat /\ IdleEviction \in Nat \ {0}
    /\ MaxBuckets \in Nat \ {0} /\ MaxTicks \in Nat
    /\ IsFiniteSet(Keys)
    /\ NoBucket \notin [tokens : 0..Capacity, last : Nat]

VARIABLES
    bucket,     \* buckets: tokens and the time of the last take
    time,       \* Date.now(), in ticks
    since,      \* an observer's window begins
    count       \* the takes granted in it, per key

limiterVars == <<bucket, time, since, count>>

LimiterInit ==
    /\ bucket = [k \in Keys |-> NoBucket]
    /\ time = 0
    /\ since = 0
    /\ count = [k \in Keys |-> 0]

Live(bs) == {k \in Keys : bs[k] # NoBucket}

Least(a, b) == IF a <= b THEN a ELSE b

(* The tokens of a bucket at time t; a new bucket is full.                 *)
Level(bs, k, t) ==
    IF bs[k] = NoBucket THEN Capacity
    ELSE Least(Capacity, bs[k].tokens + (t - bs[k].last) * Refill)

\* Mutant: the buckets that are not full are dropped too.
IdleAtAll(b, t) == t > b.last

(* t - b.last >= IDLE_EVICTION_MS                                          *)
Idle(b, t) == t - b.last >= IdleEviction

(* evictIdle                                                               *)
EvictIdle(bs, t) ==
    [k \in Keys |-> IF bs[k] # NoBucket /\ Idle(bs[k], t) THEN NoBucket ELSE bs[k]]

(* The map as take looks for a place in it.                                *)
WithRoom(k) ==
    IF bucket[k] = NoBucket /\ Cardinality(Live(bucket)) >= MaxBuckets
    THEN EvictIdle(bucket, time) ELSE bucket

Full(bs, k) == bs[k] = NoBucket /\ Cardinality(Live(bs)) >= MaxBuckets

(* take of cost 1.                                                         *)
Take(k) ==
    LET bs == WithRoom(k)
        level == Level(bs, k, time)
        cost == IF level >= 1 THEN 1 ELSE 0
    IN  /\ IF Full(bs, k)
           THEN bucket' = bs /\ UNCHANGED count
           ELSE /\ bucket' = [bs EXCEPT ![k] = [tokens |-> level - cost, last |-> time]]
                /\ count' = [count EXCEPT ![k] = @ + cost]
        /\ UNCHANGED <<time, since>>

TimePasses ==
    /\ time < MaxTicks
    /\ time' = time + 1
    /\ UNCHANGED <<bucket, since, count>>

(* An observer begins to count, at any time.                               *)
Observe ==
    /\ since' = time
    /\ count' = [k \in Keys |-> 0]
    /\ UNCHANGED <<bucket, time>>

LimiterNext ==
    \/ \E k \in Keys : Take(k)
    \/ TimePasses
    \/ Observe

LimiterSpec == LimiterInit /\ [][LimiterNext]_limiterVars

-----------------------------------------------------------------------------
(* The tokens a key can gain in IdleEviction ticks: the refill, or a whole *)
(* new bucket where that is more.                                          *)
Gain == IF Capacity <= IdleEviction * Refill THEN IdleEviction * Refill ELSE Capacity

(* In every window a key is granted at most the burst and Gain for every   *)
(* IdleEviction ticks of it, however often its bucket was evicted and made *)
(* again.  Where the burst refills within the idle time this is the burst  *)
(* and the window's refill, and an eviction gives nothing away             *)
(* (ratelimit.ts, "dropping it is free").                                  *)
WindowBound ==
    \A k \in Keys :
        IdleEviction * count[k] <= IdleEviction * Capacity + (time - since) * Gain

(* The same of a burst that refills within the idle time.                  *)
BurstBound == \A k \in Keys : count[k] <= Capacity + (time - since) * Refill

(* The map never outgrows MAX_BUCKETS.                                     *)
MapBounded == Cardinality(Live(bucket)) <= MaxBuckets

(* What WindowBound rests on: the takes granted, and the tokens a key      *)
(* could take now had its bucket filled at the rate of Gain.               *)
Credit(bs, k, t) ==
    IF bs[k] = NoBucket THEN IdleEviction * Capacity
    ELSE Least(IdleEviction * Capacity, IdleEviction * bs[k].tokens + (t - bs[k].last) * Gain)

CreditBound ==
    \A k \in Keys : IdleEviction * count[k] + Credit(bucket, k, time)
                      <= IdleEviction * Capacity + (time - since) * Gain

Bucket == [tokens : 0..Capacity, last : Nat]

TypeOK ==
    /\ bucket \in [Keys -> Bucket \cup {NoBucket}]
    /\ time \in Nat /\ since \in 0..time
    /\ count \in [Keys -> Nat]
    /\ \A k \in Keys : bucket[k] # NoBucket => bucket[k].last <= time
=============================================================================
