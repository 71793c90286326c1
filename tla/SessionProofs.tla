---------------------------- MODULE SessionProofs ----------------------------
(***************************************************************************)
(* Two stores that a restart reads back: the session files, for any number *)
(* of sessions and receipts, any cap, and any number of failed writes,     *)
(* crashes and restarts; and the replay file of the grant signer (Signer), *)
(* for any number of holds, any clocks and any number of restarts.         *)
(*                                                                         *)
(* That a restart resumes every chain the store would still extend is not  *)
(* inductive: it needs that a prepared receipt continues the very slot it  *)
(* is committed to (PreparedOnSlot), and that a slot with no receipt yet   *)
(* is in a segment of which no line was ever written (MemoryOnDisk), which *)
(* in turn needs that the counter read back passes every segment in the    *)
(* files (SegmentsBounded).  That the files implement DurableChains needs  *)
(* besides that a hash names one line (HashesAreOwn), that of the head of  *)
(* its slot (HeadsAreWritten).  FilesInv is the conjunction.               *)
(*                                                                         *)
(* Of the signer, the counts alone are not inductive: a second grant is    *)
(* prevented by the process's set, which a restart rebuilds from the file; *)
(* so the invariant says that a spent approval is remembered in both, or   *)
(* stale (SignerInv).                                                      *)
(***************************************************************************)
EXTENDS FileSessionStore, Integers, TLAPS

CONSTANTS Holds, Params, Lifetime, Windows, Skew, MaxEntries, MaxTime

VARIABLES clock, approval, serving, window, seen, journal, tornEntry, starts, signed, granted

-----------------------------------------------------------------------------
(* Lists of slots, at most one of a session.                               *)

(* A slot of a session.                                                    *)
SlotRecord == [sid : Sessions, seg : Nat, seq : Nat, head : Nat \cup {NoReceipt}]

Slots(q) == {q[i] : i \in 1..Len(q)}

Without(S, s) == {x \in S : x.sid # s}

SlotList(q) ==
    /\ q \in Seq(SlotRecord)
    /\ \A i, j \in 1..Len(q) : q[i].sid = q[j].sid => i = j

(* The place of a live session is its own.                                 *)
LEMMA PlaceFacts ==
    ASSUME NEW st, NEW s, SlotList(st.live), Live(st, s)
    PROVE  /\ PlaceOf(st, s) \in 1..Len(st.live)
           /\ st.live[PlaceOf(st, s)].sid = s
           /\ \A i \in 1..Len(st.live) : st.live[i].sid = s => i = PlaceOf(st, s)
  BY Zenon DEF PlaceOf, Live, SlotList

(* The slot of a live session is the only one with its name.               *)
LEMMA SlotFacts ==
    ASSUME NEW st, NEW s, SlotList(st.live)
    PROVE  /\ Live(st, s) <=> \E x \in Slots(st.live) : x.sid = s
           /\ Live(st, s) => /\ SlotOf(st, s) \in Slots(st.live)
                             /\ SlotOf(st, s) \in SlotRecord
                             /\ SlotOf(st, s).sid = s
                             /\ \A x \in Slots(st.live) : x.sid = s => x = SlotOf(st, s)
  <1>1. Live(st, s) <=> \E x \in Slots(st.live) : x.sid = s
    BY Zenon DEF Live, Slots
  <1>2. ASSUME Live(st, s)
        PROVE  /\ SlotOf(st, s) \in Slots(st.live)
               /\ SlotOf(st, s) \in SlotRecord
               /\ SlotOf(st, s).sid = s
               /\ \A x \in Slots(st.live) : x.sid = s => x = SlotOf(st, s)
    <2>1. SlotOf(st, s) \in Slots(st.live) /\ SlotOf(st, s).sid = s
      BY <1>2, PlaceFacts, Zenon DEF SlotOf, Slots
    <2>2. SlotOf(st, s) \in SlotRecord
      BY <1>2, PlaceFacts DEF SlotOf, SlotList
    <2>3. ASSUME NEW x \in Slots(st.live), x.sid = s
          PROVE  x = SlotOf(st, s)
      <3>1. PICK i \in 1..Len(st.live) : x = st.live[i]
        BY Zenon DEF Slots
      <3>2. i = PlaceOf(st, s)
        BY <1>2, <2>3, <3>1, PlaceFacts, Zenon
      <3> QED BY <3>1, <3>2, Zenon DEF SlotOf
    <2> QED BY <2>1, <2>2, <2>3, Zenon
  <1> QED BY <1>1, <1>2, Zenon

(* Every slot of a list is a slot.                                         *)
LEMMA SlotsTyped ==
    ASSUME NEW q, SlotList(q)
    PROVE  \A x \in Slots(q) : x \in SlotRecord /\ x.sid \in Sessions
  <1>1. \A i \in 1..Len(q) : q[i] \in SlotRecord
    BY DEF SlotList
  <1>2. \A x \in SlotRecord : x.sid \in Sessions
    BY DEF SlotRecord
  <1> QED BY <1>1, <1>2, Zenon DEF Slots

RemoveAt(q, k) == SubSeq(q, 1, k - 1) \o SubSeq(q, k + 1, Len(q))

(* Taking one place out.                                                   *)
LEMMA RemovedAt ==
    ASSUME NEW q, SlotList(q), NEW k \in 1..Len(q)
    PROVE  /\ SlotList(RemoveAt(q, k))
           /\ Slots(RemoveAt(q, k)) = {x \in Slots(q) : x.sid # q[k].sid}
  <1> DEFINE a == SubSeq(q, 1, k - 1)
             b == SubSeq(q, k + 1, Len(q))
             r == RemoveAt(q, k)
             at(i) == IF i < k THEN i ELSE i + 1
  <1>0. q \in Seq(SlotRecord) /\ Len(q) \in Nat /\ k \in Nat /\ 1 <= k /\ k <= Len(q)
    BY DEF SlotList
  <1>1. /\ a \in Seq(SlotRecord) /\ Len(a) = k - 1 /\ \A i \in 1..(k - 1) : a[i] = q[i]
        /\ b \in Seq(SlotRecord) /\ Len(b) = Len(q) - k
        /\ \A i \in 1..(Len(q) - k) : b[i] = q[k + i]
    BY <1>0
  <1>2. r = a \o b
    BY Zenon DEF RemoveAt
  <1> HIDE DEF a, b, r
  <1>3. /\ r \in Seq(SlotRecord) /\ Len(r) = Len(q) - 1
        /\ \A i \in 1..Len(r) : r[i] = IF i < k THEN a[i] ELSE b[i - (k - 1)]
    BY <1>0, <1>1, <1>2
  <1>4. \A i \in 1..Len(r) : at(i) \in 1..Len(q) /\ at(i) # k
    BY <1>0, <1>3
  <1>5. \A i, j \in 1..Len(r) : at(i) = at(j) => i = j
    BY <1>0, <1>3
  <1>6. ASSUME NEW i \in 1..Len(r) PROVE r[i] = q[at(i)]
    <2>1. CASE i < k
      BY <1>0, <1>1, <1>3, <2>1
    <2>2. CASE ~(i < k)
      <3>1. i - (k - 1) \in 1..(Len(q) - k) /\ k + (i - (k - 1)) = i + 1
        BY <1>0, <1>3, <2>2
      <3> QED BY <1>1, <1>3, <2>2, <3>1
    <2> QED BY <2>1, <2>2
  <1>7. ASSUME NEW j \in 1..Len(q), j # k
        PROVE  \E i \in 1..Len(r) : at(i) = j
    <2>1. CASE j < k
      BY <1>0, <1>3, <2>1
    <2>2. CASE ~(j < k)
      <3>1. j - 1 \in 1..Len(r) /\ at(j - 1) = j
        BY <1>0, <1>3, <1>7, <2>2
      <3> QED BY <3>1, Zenon
    <2> QED BY <2>1, <2>2
  <1> HIDE DEF at
  <1>a. \A i, j \in 1..Len(q) : q[i].sid = q[j].sid => i = j
    BY Zenon DEF SlotList
  <1>8. SlotList(r)
    <2>1. ASSUME NEW i \in 1..Len(r), NEW j \in 1..Len(r), r[i].sid = r[j].sid
          PROVE  i = j
      <3>1. q[at(i)].sid = q[at(j)].sid
        BY <1>6, <2>1, Zenon
      <3>2. at(i) = at(j)
        BY <1>a, <1>4, <3>1, Zenon
      <3> QED BY <1>5, <3>2, Zenon
    <2> QED BY <1>3, <2>1, Zenon DEF SlotList
  <1>9. ASSUME NEW i \in 1..Len(r)
        PROVE  r[i] \in Slots(q) /\ r[i].sid # q[k].sid
    <2>1. PICK j \in 1..Len(q) : j # k /\ r[i] = q[j]
      BY <1>4, <1>6, Zenon
    <2> QED BY <1>a, <2>1, Zenon DEF Slots
  <1>10. ASSUME NEW j \in 1..Len(q), q[j].sid # q[k].sid
        PROVE  q[j] \in Slots(r)
    BY <1>6, <1>7, <1>10, Zenon DEF Slots
  <1>11. Slots(r) = {x \in Slots(q) : x.sid # q[k].sid}
    BY <1>9, <1>10, Zenon DEF Slots
  <1> QED BY <1>8, <1>11, Zenon DEF r

(* Dropping the slot of a session.                                         *)
LEMMA OthersFacts ==
    ASSUME NEW st, NEW s, SlotList(st.live)
    PROVE  /\ SlotList(Others(st, s))
           /\ Slots(Others(st, s)) = Without(Slots(st.live), s)
  <1>1. CASE Live(st, s)
    <2>1. PICK k \in 1..Len(st.live) : k = PlaceOf(st, s) /\ st.live[k].sid = s
      BY <1>1, PlaceFacts, Zenon
    <2>2. Others(st, s) = RemoveAt(st.live, k)
      BY <1>1, <2>1, Zenon DEF Others, RemoveAt
    <2>3. /\ SlotList(RemoveAt(st.live, k))
          /\ Slots(RemoveAt(st.live, k)) = {x \in Slots(st.live) : x.sid # st.live[k].sid}
      BY RemovedAt, Zenon
    <2> QED BY <2>1, <2>2, <2>3, Zenon DEF Without
  <1>2. CASE ~Live(st, s)
    <2>1. Others(st, s) = st.live /\ \A x \in Slots(st.live) : x.sid # s
      BY <1>2, SlotFacts, Zenon DEF Others
    <2> QED BY <2>1, Zenon DEF Without
  <1> QED BY <1>1, <1>2, Zenon

(* Appending a slot of a session that has none.                            *)
LEMMA AppendFacts ==
    ASSUME NEW q, SlotList(q), NEW x \in SlotRecord, \A y \in Slots(q) : y.sid # x.sid
    PROVE  /\ SlotList(Append(q, x))
           /\ Slots(Append(q, x)) = Slots(q) \cup {x}
  <1> DEFINE r == Append(q, x)
  <1>1. /\ r \in Seq(SlotRecord) /\ Len(r) = Len(q) + 1
        /\ \A i \in 1..Len(q) : r[i] = q[i]
        /\ r[Len(q) + 1] = x
    BY DEF SlotList
  <1> HIDE DEF r
  <1>2. \A i \in 1..Len(r) : i \in 1..Len(q) \/ i = Len(q) + 1
    BY <1>1 DEF SlotList
  <1>3. \A i \in 1..Len(q) : i \in 1..Len(r) /\ Len(q) + 1 \in 1..Len(r)
    BY <1>1 DEF SlotList
  <1>a. Len(q) + 1 \in 1..Len(r)
    BY <1>1 DEF SlotList
  <1>4. \A i \in 1..Len(q) : q[i].sid # x.sid
    BY Zenon DEF Slots
  <1>5. SlotList(r)
    BY <1>1, <1>2, <1>4, Zenon DEF SlotList
  <1>6. Slots(r) = Slots(q) \cup {x}
    BY <1>1, <1>2, <1>3, <1>a, Zenon DEF Slots
  <1> QED BY <1>5, <1>6, Zenon DEF r

(* The end of a list.                                                      *)
LEMMA SuffixFacts ==
    ASSUME NEW q, SlotList(q), NEW n \in Nat
    PROVE  /\ SlotList(SubSeq(q, n + 1, Len(q)))
           /\ Slots(SubSeq(q, n + 1, Len(q))) \subseteq Slots(q)
           /\ n = 1 /\ q # <<>> =>
                Slots(SubSeq(q, 2, Len(q))) = Without(Slots(q), q[1].sid)
  <1> DEFINE r == SubSeq(q, n + 1, Len(q))
  <1>0. q \in Seq(SlotRecord) /\ Len(q) \in Nat
    BY DEF SlotList
  <1>1. /\ r \in Seq(SlotRecord)
        /\ \A i \in 1..Len(r) : i + n \in 1..Len(q) /\ r[i] = q[i + n]
        /\ n <= Len(q) => Len(r) = Len(q) - n
    BY <1>0
  <1> HIDE DEF r
  <1>2. SlotList(r)
    <2>1. ASSUME NEW i \in 1..Len(r), NEW j \in 1..Len(r), r[i].sid = r[j].sid
          PROVE  i = j
      <3>1. i + n \in 1..Len(q) /\ j + n \in 1..Len(q) /\ q[i + n].sid = q[j + n].sid
        BY <1>1, <2>1, Zenon
      <3>2. i + n = j + n
        BY <3>1, Zenon DEF SlotList
      <3> QED BY <3>2
    <2> QED BY <1>1, <2>1, Zenon DEF SlotList
  <1>3. Slots(r) \subseteq Slots(q)
    BY <1>1 DEF Slots
  <1>4. ASSUME n = 1, q # <<>>
        PROVE  Slots(r) = Without(Slots(q), q[1].sid)
    <2>1. Len(q) \in Nat /\ Len(q) >= 1 /\ Len(r) = Len(q) - 1
      BY <1>1, <1>4 DEF SlotList
    <2>2. \A x \in Slots(r) : x.sid # q[1].sid
      BY <1>1, <1>4, <2>1 DEF Slots, SlotList
    <2>3. ASSUME NEW i \in 1..Len(q), q[i].sid # q[1].sid
          PROVE  q[i] \in Slots(r)
      <3>1. i - 1 \in 1..Len(r) /\ r[i - 1] = q[i]
        BY <1>1, <1>4, <2>1, <2>3
      <3> QED BY <3>1, Zenon DEF Slots
    <2>4. \A x \in Slots(q) : x.sid # q[1].sid => x \in Slots(r)
      BY <2>3, Zenon DEF Slots
    <2> QED BY <1>3, <2>2, <2>4, Zenon DEF Without
  <1> QED BY <1>2, <1>3, <1>4 DEF r

-----------------------------------------------------------------------------
(* The inductive invariant of the session files.                           *)

(* What the theorems ask of the constants: None is neither a session nor a *)
(* chain.                                                                  *)
SessionConstants ==
    /\ None \notin Sessions
    /\ None \notin [seg : Nat, seq : Nat, head : Nat \cup {NoReceipt},
                    tail : Nat \cup {NoReceipt}]
    /\ MaxSessions \in Nat /\ MaxReceipts \in Nat /\ MaxBoots \in Nat \ {0}

Prepared == [seg : Nat, seq : Nat, prev : Nat \cup {NoReceipt}, hash : Nat]

Line == [sid : Sessions, seg : Nat, seq : Nat, prev : Nat \cup {NoReceipt}, hash : Nat]

StoreType(st) ==
    /\ st = [live |-> st.live, counter |-> st.counter]
    /\ SlotList(st.live)
    /\ st.counter \in Nat

FilesType ==
    /\ StoreType(mem) /\ StoreType(disk)
    /\ torn \in BOOLEAN /\ up \in BOOLEAN /\ poisoned \in BOOLEAN
    /\ callers \in [Sessions -> Prepared \cup {None}]
    /\ minted \in Nat /\ boots \in Nat
    /\ lines \subseteq Line

(* The counter of the files is never ahead of memory's, and memory's is    *)
(* never ahead of the receipts prepared.                                   *)
SegmentsBounded ==
    /\ minted <= MaxReceipts
    /\ disk.counter <= mem.counter /\ mem.counter <= minted
    /\ \A x \in Slots(mem.live) : 1 <= x.seg /\ x.seg <= mem.counter
    /\ \A l \in lines : 1 <= l.seg /\ l.seg <= disk.counter

(* A receipt has a hash of its own, and no line before it is committed.    *)
HashesAreOwn ==
    /\ \A l \in lines : 1 <= l.hash /\ l.hash <= minted
    /\ \A l, m \in lines : l.hash = m.hash => l = m
    /\ \A s \in Sessions : callers[s] # None =>
           /\ 1 <= callers[s].hash /\ callers[s].hash <= minted
           /\ \A l \in lines : l.hash # callers[s].hash
    /\ \A s, t \in Sessions :
           callers[s] # None /\ callers[t] # None /\ callers[s].hash = callers[t].hash
               => s = t

(* A slot the files give has a line for its head.                          *)
HeadsAreWritten ==
    \A x \in Slots(disk.live) :
        /\ x.seq >= 1
        /\ \E l \in lines : l.hash = x.head /\ l.sid = x.sid /\ l.seg = x.seg

(* A receipt not yet committed continues the slot it was prepared on.      *)
PreparedOnSlot ==
    /\ \A s \in Sessions : \A x \in Slots(mem.live) :
           callers[s] # None /\ x.sid = s /\ x.seg = callers[s].seg =>
               x.seq = callers[s].seq /\ x.head = callers[s].prev
    /\ ~up => \A s \in Sessions : callers[s] = None

(* What a store that still writes has in memory is in the files, or has no *)
(* receipt there.                                                          *)
MemoryOnDisk ==
    up /\ ~poisoned =>
        \A x \in Slots(mem.live) :
            /\ x.seq > 0 => x \in Slots(disk.live)
            /\ x.seq = 0 => /\ x.head = NoReceipt
                            /\ \A l \in lines : l.sid = x.sid => l.seg # x.seg

FilesInv ==
    /\ FilesType /\ SegmentsBounded /\ HashesAreOwn
    /\ HeadsAreWritten /\ PreparedOnSlot /\ MemoryOnDisk

-----------------------------------------------------------------------------
(* What the operations do to the slots.                                    *)

Made(st, q, c) == st = [live |-> q, counter |-> c]

(* A store is its two fields.                                              *)
LEMMA StoreFields ==
    ASSUME NEW st, StoreType(st)
    PROVE  SlotList(st.live) /\ st.counter \in Nat
  BY Zenon DEF StoreType

(* The fields of a store that was made of them.                            *)
LEMMA MadeFields ==
    ASSUME NEW st, NEW q, NEW c, Made(st, q, c)
    PROVE  /\ st.live = q /\ st.counter = c
           /\ SlotList(q) /\ c \in Nat => StoreType(st)
  BY DEF StoreType, Made

(* A store with another list of slots.                                     *)
LEMMA MadeChanged ==
    ASSUME NEW st, StoreType(st), NEW q, NEW p, p = [st EXCEPT !.live = q]
    PROVE  Made(p, q, st.counter)
  <1>1. PICK l, c : st = [live |-> l, counter |-> c]
    BY Zenon DEF StoreType
  <1> QED BY <1>1 DEF Made

(* end, and the fold of its line.                                          *)
LEMMA EndFacts ==
    ASSUME NEW st, StoreType(st), NEW s
    PROVE  /\ StoreType(End(st, s))
           /\ Slots(End(st, s).live) = Without(Slots(st.live), s)
           /\ End(st, s).counter = st.counter
  <1>1. Made(End(st, s), Others(st, s), st.counter)
    BY MadeChanged, Zenon DEF End
  <1>2. SlotList(Others(st, s)) /\ Slots(Others(st, s)) = Without(Slots(st.live), s)
    BY StoreFields, OthersFacts, Zenon
  <1>3. End(st, s).live = Others(st, s) /\ End(st, s).counter = st.counter /\ StoreType(End(st, s))
    BY <1>1, <1>2, MadeFields, StoreFields, Zenon
  <1> QED BY <1>2, <1>3, Zenon

(* A slot of a session put at the end of the list.                         *)
LEMMA PutFacts ==
    ASSUME NEW st, StoreType(st), NEW x \in SlotRecord
    PROVE  /\ SlotList(Append(Others(st, x.sid), x))
           /\ Slots(Append(Others(st, x.sid), x)) = Without(Slots(st.live), x.sid) \cup {x}
  <1>1. /\ SlotList(Others(st, x.sid))
        /\ Slots(Others(st, x.sid)) = Without(Slots(st.live), x.sid)
    BY OthersFacts, StoreFields, Zenon
  <1>2. \A y \in Slots(Others(st, x.sid)) : y.sid # x.sid
    BY <1>1, Zenon DEF Without
  <1>3. /\ SlotList(Append(Others(st, x.sid), x))
        /\ Slots(Append(Others(st, x.sid), x)) = Slots(Others(st, x.sid)) \cup {x}
    BY <1>1, <1>2, AppendFacts, Zenon
  <1> QED BY <1>1, <1>3, Zenon

(* A slot that grows by one receipt.                                       *)
LEMMA Grown ==
    ASSUME NEW z \in SlotRecord, NEW h \in Nat
    PROVE  [z EXCEPT !.head = h, !.seq = @ + 1]
               = [sid |-> z.sid, seg |-> z.seg, seq |-> z.seq + 1, head |-> h]
  <1> DEFINE y == [z EXCEPT !.head = h, !.seq = @ + 1]
             x == [sid |-> z.sid, seg |-> z.seg, seq |-> z.seq + 1, head |-> h]
  <1>1. y \in SlotRecord
    <2>1. z.seq + 1 \in Nat
      BY DEF SlotRecord
    <2>2. \A m \in Nat : [z EXCEPT !.head = h, !.seq = m] \in SlotRecord
      BY Zenon DEF SlotRecord
    <2> QED BY <2>1, <2>2, Zenon
  <1>0. y.sid = z.sid /\ y.seg = z.seg /\ y.seq = z.seq + 1 /\ y.head = h
    BY DEF SlotRecord
  <1>2. /\ x \in SlotRecord
        /\ x.sid = z.sid /\ x.seg = z.seg /\ x.seq = z.seq + 1 /\ x.head = h
    BY DEF SlotRecord
  <1> HIDE DEF x, y
  <1>3. x = y
    BY <1>0, <1>1, <1>2 DEF SlotRecord
  <1> QED BY <1>3, Zenon DEF x, y

(* advance on the live segment.                                            *)
LEMMA AdvanceFacts ==
    ASSUME NEW st, StoreType(st), NEW s \in Sessions, NEW h \in Nat, NEW g, Advances(st, s, g),
           NEW n \in Nat, SlotOf(st, s).seq = n,
           NEW x, x = [sid |-> s, seg |-> g, seq |-> n + 1, head |-> h]
    PROVE  /\ x \in SlotRecord
           /\ StoreType(Advance(st, s, h, g))
           /\ Slots(Advance(st, s, h, g).live) = Without(Slots(st.live), s) \cup {x}
           /\ Advance(st, s, h, g).counter = st.counter
  <1> DEFINE a == Advance(st, s, h, g)
  <1>1. SlotOf(st, s) \in SlotRecord /\ SlotOf(st, s).sid = s /\ SlotOf(st, s).seg = g
    BY SlotFacts, StoreFields, Zenon DEF Advances
  <1>2. x \in SlotRecord /\ x.sid = s
    BY <1>1 DEF SlotRecord
  <1>3. [SlotOf(st, s) EXCEPT !.head = h, !.seq = @ + 1] = x
    BY <1>1, Grown, Zenon
  <1>4. a = [st EXCEPT !.live = Append(Others(st, s), x)]
    BY <1>3, Zenon DEF Advance
  <1> HIDE DEF a
  <1>5. Made(a, Append(Others(st, s), x), st.counter)
    BY <1>4, MadeChanged, Zenon
  <1>6. /\ SlotList(Append(Others(st, s), x))
        /\ Slots(Append(Others(st, s), x)) = Without(Slots(st.live), s) \cup {x}
    BY <1>2, PutFacts, Zenon
  <1>7. a.live = Append(Others(st, s), x) /\ a.counter = st.counter /\ StoreType(a)
    BY <1>5, <1>6, MadeFields, StoreFields, Zenon
  <1> QED BY <1>2, <1>6, <1>7, Zenon DEF a

(* The oldest slot taken away, by the cap or by the sweep.                 *)
LEMMA OldestFacts ==
    ASSUME NEW st, StoreType(st), st.live # <<>>
    PROVE  /\ st.live[1] \in Slots(st.live) /\ st.live[1].sid \in Sessions
           /\ SlotList(Tail(st.live))
           /\ Slots(Tail(st.live)) = Without(Slots(st.live), st.live[1].sid)
           /\ StoreType(Sweep(st, 1))
           /\ Slots(Sweep(st, 1).live) = Without(Slots(st.live), st.live[1].sid)
           /\ Sweep(st, 1).counter = st.counter
  <1> DEFINE q == st.live
  <1>0. q \in Seq(SlotRecord) /\ Len(q) \in Nat /\ Len(q) >= 1 /\ q[1] \in SlotRecord
    BY DEF StoreType, SlotList
  <1>1. q[1] \in Slots(q) /\ q[1].sid \in Sessions
    BY <1>0 DEF Slots, SlotRecord
  <1>2. /\ SlotList(SubSeq(q, 2, Len(q)))
        /\ Slots(SubSeq(q, 2, Len(q))) = Without(Slots(q), q[1].sid)
    <2>1. 1 \in Nat /\ 1 + 1 = 2
      OBVIOUS
    <2> QED BY <2>1, SuffixFacts DEF StoreType
  <1>3. Tail(q) = SubSeq(q, 2, Len(q))
    BY <1>0
  <1>4. Made(Sweep(st, 1), SubSeq(q, 2, Len(q)), st.counter)
    <2>1. Sweep(st, 1) = [st EXCEPT !.live = SubSeq(q, 1 + 1, Len(q))] /\ 1 + 1 = 2
      BY DEF Sweep
    <2> QED BY <2>1, MadeChanged, Zenon
  <1>5. /\ Sweep(st, 1).live = SubSeq(q, 2, Len(q)) /\ Sweep(st, 1).counter = st.counter
        /\ StoreType(Sweep(st, 1))
    BY <1>2, <1>4, MadeFields, StoreFields, Zenon
  <1> QED BY <1>1, <1>2, <1>3, <1>5, Zenon

(* stateFor: the slots stay as they are, or a new segment takes the place  *)
(* of the one the cap evicts.                                              *)
LEMMA StateForFacts ==
    ASSUME SessionConstants, StoreType(mem), NEW s \in Sessions
    PROVE  LET q == StateFor(mem, s)
           IN  /\ StoreType(q)
               /\ SlotOf(q, s) \in Slots(q.live) /\ SlotOf(q, s).sid = s
               /\ SlotOf(q, s) \in SlotRecord
               /\ \A x \in Slots(q.live) : x.sid = s => x = SlotOf(q, s)
               /\ Live(mem, s) => /\ Slots(q.live) = Slots(mem.live)
                                  /\ q.counter = mem.counter
                                  /\ Evicted(s) = None
               /\ ~Live(mem, s) =>
                      /\ Slots(q.live) = Without(Slots(mem.live), Evicted(s))
                                             \cup {Slot(s, mem.counter + 1)}
                      /\ q.counter = mem.counter + 1
  <1> DEFINE q == StateFor(mem, s)
  <1>0. SlotList(mem.live) /\ mem.counter \in Nat /\ None \notin Sessions
    BY StoreFields, Zenon DEF SessionConstants
  <1>1. ASSUME Live(mem, s)
        PROVE  /\ StoreType(q) /\ Slots(q.live) = Slots(mem.live)
               /\ q.counter = mem.counter /\ Evicted(s) = None
    <2> DEFINE x == SlotOf(mem, s)
    <2>1. /\ x \in SlotRecord /\ x.sid = s /\ x \in Slots(mem.live)
          /\ \A y \in Slots(mem.live) : y.sid = s => y = x
      BY <1>0, <1>1, SlotFacts, Zenon
    <2>2. q = [mem EXCEPT !.live = Append(Others(mem, s), x)]
      BY <1>1, Zenon DEF StateFor
    <2> HIDE DEF x, q
    <2>4. /\ StoreType(q) /\ q.counter = mem.counter
          /\ Slots(q.live) = Without(Slots(mem.live), s) \cup {x}
      <3>1. Made(q, Append(Others(mem, s), x), mem.counter)
        BY <2>2, MadeChanged, Zenon
      <3>2. /\ SlotList(Append(Others(mem, s), x))
            /\ Slots(Append(Others(mem, s), x)) = Without(Slots(mem.live), s) \cup {x}
        BY <2>1, PutFacts, Zenon
      <3>3. q.live = Append(Others(mem, s), x) /\ q.counter = mem.counter /\ StoreType(q)
        BY <1>0, <3>1, <3>2, MadeFields, Zenon
      <3> QED BY <3>2, <3>3, Zenon
    <2>5. Slots(q.live) = Slots(mem.live)
      BY <2>1, <2>4, Zenon DEF Without
    <2>6. Evicted(s) = None
      BY <1>1, Zenon DEF Evicted
    <2> QED BY <2>4, <2>5, <2>6, Zenon
  <1>2. ASSUME ~Live(mem, s)
        PROVE  /\ StoreType(q)
               /\ Slots(q.live) = Without(Slots(mem.live), Evicted(s))
                                      \cup {Slot(s, mem.counter + 1)}
               /\ q.counter = mem.counter + 1
    <2> DEFINE kept == IF AtCap(mem.live)
                       THEN EvictOldestIdle(mem.live) ELSE mem.live
               new == Slot(s, mem.counter + 1)
    <2>1. SlotList(kept) /\ Slots(kept) = Without(Slots(mem.live), Evicted(s))
      <3>1. CASE AtCap(mem.live) /\ mem.live # <<>>
        BY <1>2, <3>1, OldestFacts, Zenon DEF Evicted, EvictOldestIdle
      <3>2. CASE ~(AtCap(mem.live) /\ mem.live # <<>>)
        <4>1. kept = mem.live /\ Evicted(s) = None
          BY <3>2, Zenon DEF Evicted, EvictOldestIdle
        <4>2. \A x \in Slots(mem.live) : x.sid \in Sessions
          BY <1>0, SlotsTyped, Zenon
        <4> QED BY <1>0, <4>1, <4>2, Zenon DEF Without
      <3> QED BY <3>1, <3>2, Zenon
    <2>2. new \in SlotRecord /\ new.sid = s
      BY <1>0 DEF Slot, SlotRecord
    <2>3. \A y \in Slots(kept) : y.sid # new.sid
      BY <1>0, <1>2, <2>1, <2>2, SlotFacts, Zenon DEF Without
    <2>4. q = [live |-> Append(kept, new), counter |-> mem.counter + 1]
      BY <1>2, Zenon DEF StateFor
    <2>5. mem.counter + 1 \in Nat
      BY <1>0
    <2> HIDE DEF kept, new, q
    <2>6. SlotList(Append(kept, new)) /\ Slots(Append(kept, new)) = Slots(kept) \cup {new}
      BY <2>1, <2>2, <2>3, AppendFacts, Zenon
    <2>7. StoreType(q) /\ q.live = Append(kept, new) /\ q.counter = mem.counter + 1
      <3>1. Made(q, Append(kept, new), mem.counter + 1)
        BY <2>4, Zenon DEF Made
      <3> QED BY <2>5, <2>6, <3>1, MadeFields, Zenon
    <2>8. Slots(q.live) = Without(Slots(mem.live), Evicted(s)) \cup {new}
      BY <2>1, <2>6, <2>7, Zenon
    <2> QED BY <2>7, <2>8, Zenon DEF new
  <1> HIDE DEF q
  <1>3. Live(q, s)
    <2>1. CASE Live(mem, s)
      <3>1. \E x \in Slots(mem.live) : x.sid = s
        BY <1>0, <2>1, SlotFacts, Zenon
      <3>2. SlotList(q.live) /\ \E x \in Slots(q.live) : x.sid = s
        BY <1>1, <2>1, <3>1, StoreFields, Zenon
      <3> QED BY <3>2, SlotFacts, Zenon
    <2>2. CASE ~Live(mem, s)
      <3>1. Slot(s, mem.counter + 1).sid = s
        BY DEF Slot
      <3>2. SlotList(q.live) /\ \E x \in Slots(q.live) : x.sid = s
        BY <1>2, <2>2, <3>1, StoreFields, Zenon
      <3> QED BY <3>2, SlotFacts, Zenon
    <2> QED BY <2>1, <2>2, Zenon
  <1>4. StoreType(q)
    BY <1>1, <1>2, Zenon
  <1>5. /\ SlotOf(q, s) \in Slots(q.live) /\ SlotOf(q, s).sid = s
        /\ SlotOf(q, s) \in SlotRecord
        /\ \A x \in Slots(q.live) : x.sid = s => x = SlotOf(q, s)
    BY <1>3, <1>4, SlotFacts, StoreFields, Zenon
  <1> QED BY <1>1, <1>2, <1>4, <1>5, Zenon DEF q

-----------------------------------------------------------------------------
(* Each step keeps the invariant.                                          *)

(* The line of an end, with the outcome of its append.                     *)
LEMMA DiskEnds ==
    ASSUME StoreType(disk), torn \in BOOLEAN, poisoned \in BOOLEAN,
           NEW w, NEW e, AppendLine(w, FoldEnd(e)), Poisons(w)
    PROVE  /\ StoreType(disk') /\ torn' \in BOOLEAN /\ poisoned' \in BOOLEAN
           /\ disk'.counter = disk.counter
           /\ Slots(disk'.live) \subseteq Slots(disk.live)
           /\ ~poisoned' => ~poisoned /\ Slots(disk'.live) = Without(Slots(disk.live), e)
  <1>1. /\ StoreType(FoldEnd(e)) /\ FoldEnd(e).counter = disk.counter
        /\ Slots(FoldEnd(e).live) = Without(Slots(disk.live), e)
    BY EndFacts, Zenon DEF FoldEnd, End
  <1>2. Without(Slots(disk.live), e) \subseteq Slots(disk.live)
    BY Zenon DEF Without
  <1>3. /\ disk' = FoldEnd(e) \/ disk' = disk
        /\ ~poisoned' => ~poisoned /\ disk' = FoldEnd(e)
    BY Zenon DEF AppendLine, Poisons
  <1>4. torn' \in BOOLEAN /\ poisoned' \in BOOLEAN
    BY Zenon DEF AppendLine, Poisons
  <1> QED BY <1>1, <1>2, <1>3, <1>4, Zenon

(* A session ended, in memory and with its line.                           *)
LEMMA DropKeeps ==
    ASSUME FilesInv, NEW w, NEW e, AppendLine(w, FoldEnd(e)), Poisons(w),
           StoreType(mem'), mem'.counter = mem.counter,
           Slots(mem'.live) = Without(Slots(mem.live), e),
           UNCHANGED <<up, callers, minted, boots, lines>>
    PROVE  FilesInv'
  <1>1. FilesType /\ SegmentsBounded /\ HashesAreOwn /\ HeadsAreWritten
        /\ PreparedOnSlot /\ MemoryOnDisk
    BY Zenon DEF FilesInv
  <1>2. /\ StoreType(disk') /\ torn' \in BOOLEAN /\ poisoned' \in BOOLEAN
        /\ disk'.counter = disk.counter
        /\ Slots(disk'.live) \subseteq Slots(disk.live)
        /\ ~poisoned' => ~poisoned /\ Slots(disk'.live) = Without(Slots(disk.live), e)
    BY <1>1, DiskEnds, Zenon DEF FilesType
  <1>3. \A x \in Slots(mem'.live) : x \in Slots(mem.live) /\ x.sid # e
    BY Zenon DEF Without
  <1>4. /\ up' = up /\ callers' = callers /\ minted' = minted
        /\ boots' = boots /\ lines' = lines
    BY Zenon
  <1>5. FilesType'
    BY <1>1, <1>2, <1>4, Zenon DEF FilesType
  <1>6. SegmentsBounded'
    BY <1>1, <1>2, <1>3, <1>4, Zenon DEF SegmentsBounded
  <1>7. HashesAreOwn'
    BY <1>1, <1>4, Zenon DEF HashesAreOwn
  <1>8. HeadsAreWritten'
    BY <1>1, <1>2, <1>4, Zenon DEF HeadsAreWritten
  <1>9. PreparedOnSlot'
    BY <1>1, <1>3, <1>4 DEF PreparedOnSlot
  <1>10. MemoryOnDisk'
    BY <1>1, <1>2, <1>3, <1>4 DEF MemoryOnDisk, Without
  <1> QED BY <1>5, <1>6, <1>7, <1>8, <1>9, <1>10, Zenon DEF FilesInv

(* end keeps the invariant.                                                *)
LEMMA EndSessionKeeps ==
    ASSUME FilesInv, NEW s \in Sessions, NEW w, EndSession(s, w)
    PROVE  FilesInv'
  <1>1. /\ mem' = End(mem, s) /\ AppendLine(w, FoldEnd(s)) /\ Poisons(w)
        /\ UNCHANGED <<up, callers, minted, boots, lines>>
    BY Zenon DEF EndSession
  <1>2. /\ StoreType(mem') /\ mem'.counter = mem.counter
        /\ Slots(mem'.live) = Without(Slots(mem.live), s)
    BY <1>1, EndFacts, Zenon DEF FilesInv, FilesType
  <1> QED BY <1>1, <1>2, DropKeeps, Zenon

(* An eviction of the sweep keeps it.                                      *)
LEMMA SweepKeeps ==
    ASSUME FilesInv, NEW w, SweepOldest(w)
    PROVE  FilesInv'
  <1>1. /\ mem.live # <<>> /\ mem' = Sweep(mem, 1)
        /\ AppendLine(w, FoldEnd(mem.live[1].sid)) /\ Poisons(w)
        /\ UNCHANGED <<up, callers, minted, boots, lines>>
    BY Zenon DEF SweepOldest
  <1>2. /\ StoreType(mem') /\ mem'.counter = mem.counter
        /\ Slots(mem'.live) = Without(Slots(mem.live), mem.live[1].sid)
    BY <1>1, OldestFacts, Zenon DEF FilesInv, FilesType
  <1> QED BY <1>1, <1>2, DropKeeps, Zenon

(* peek keeps it.                                                          *)
LEMMA PeekKeeps ==
    ASSUME SessionConstants, FilesInv, NEW s \in Sessions, NEW w, Peek(s, w)
    PROVE  FilesInv'
  <1> DEFINE x == SlotOf(mem', s)
             e == Evicted(s)
             r == [seg |-> x.seg, seq |-> x.seq, prev |-> x.head, hash |-> minted + 1]
             new == Slot(s, mem.counter + 1)
  <1>1. FilesType /\ SegmentsBounded /\ HashesAreOwn /\ HeadsAreWritten
        /\ PreparedOnSlot /\ MemoryOnDisk
    BY Zenon DEF FilesInv
  <1>2. /\ up /\ ~poisoned /\ callers[s] = None /\ minted < MaxReceipts
        /\ mem' = StateFor(mem, s) /\ minted' = minted + 1
        /\ callers' = [callers EXCEPT ![s] = r]
        /\ up' = up /\ boots' = boots /\ lines' = lines
    BY Zenon DEF Peek
  <1>3. /\ StoreType(mem') /\ x \in SlotRecord /\ x \in Slots(mem'.live) /\ x.sid = s
        /\ \A y \in Slots(mem'.live) : y.sid = s => y = x
        /\ Live(mem, s) => /\ Slots(mem'.live) = Slots(mem.live)
                           /\ mem'.counter = mem.counter /\ e = None
        /\ ~Live(mem, s) => /\ Slots(mem'.live) = Without(Slots(mem.live), e) \cup {new}
                            /\ mem'.counter = mem.counter + 1
    BY <1>1, <1>2, StateForFacts, Zenon DEF FilesType
  <1>4. /\ SlotList(mem.live) /\ SlotList(disk.live)
        /\ mem.counter \in Nat /\ disk.counter \in Nat /\ minted \in Nat
    BY <1>1, StoreFields, Zenon DEF FilesType
  <1>5. /\ StoreType(disk') /\ torn' \in BOOLEAN /\ poisoned' \in BOOLEAN
        /\ disk'.counter = disk.counter
        /\ Slots(disk'.live) \subseteq Slots(disk.live)
        /\ ~poisoned' => \A y \in Slots(disk.live) : y.sid # e => y \in Slots(disk'.live)
    <2>1. CASE e = None
      BY <1>1, <2>1, Zenon DEF Peek, FilesType
    <2>2. CASE e # None
      <3>1. AppendLine(w, FoldEnd(e)) /\ Poisons(w)
        BY <2>2, Zenon DEF Peek
      <3> QED BY <1>1, <3>1, DiskEnds DEF FilesType, Without
    <2> QED BY <2>1, <2>2, Zenon
  <1>6. new \in SlotRecord /\ new.sid = s /\ new.seg = mem.counter + 1
        /\ new.seq = 0 /\ new.head = NoReceipt
    BY <1>4 DEF Slot, SlotRecord
  <1>7. r \in Prepared /\ r.seg = x.seg /\ r.seq = x.seq /\ r.prev = x.head
        /\ r.hash = minted + 1
    BY <1>3, <1>4 DEF SlotRecord, Prepared
  <1> HIDE DEF x, e, r, new
  <1>8. \A y \in Slots(mem'.live) :
           \/ y \in Slots(mem.live) /\ y.sid # e
           \/ y = new /\ mem'.counter = mem.counter + 1
    <2>1. \A y \in Slots(mem.live) : y.sid # None
      BY <1>4, SlotsTyped, Zenon DEF SessionConstants
    <2> QED BY <1>3, <2>1, Zenon DEF Without
  <1>9. /\ callers'[s] = r
        /\ \A t \in Sessions : t # s => callers'[t] = callers[t]
        /\ callers' \in [Sessions -> Prepared \cup {None}]
    BY <1>1, <1>2, <1>7 DEF FilesType
  <1>10. FilesType'
    <2>1. minted' \in Nat
      BY <1>2, <1>4
    <2> QED BY <1>1, <1>2, <1>3, <1>5, <1>9, <2>1, Zenon DEF FilesType
  <1>11. SegmentsBounded'
    <2>1. mem'.counter \in Nat /\ mem.counter <= mem'.counter /\ mem'.counter <= minted'
          /\ disk'.counter <= mem'.counter /\ minted' <= MaxReceipts
      BY <1>1, <1>2, <1>3, <1>4, <1>5 DEF SegmentsBounded, SessionConstants
    <2>2. ASSUME NEW y \in Slots(mem'.live)
          PROVE  1 <= y.seg /\ y.seg <= mem'.counter
      <3>1. CASE y \in Slots(mem.live)
        <4>1. 1 <= y.seg /\ y.seg <= mem.counter /\ y \in SlotRecord
          BY <1>1, <1>4, <3>1, SlotsTyped, Zenon DEF SegmentsBounded
        <4> QED BY <1>4, <2>1, <4>1 DEF SlotRecord
      <3>2. CASE y = new /\ mem'.counter = mem.counter + 1
        BY <1>4, <1>6, <3>2
      <3> QED BY <1>8, <3>1, <3>2, Zenon
    <2> QED BY <1>1, <1>2, <1>5, <2>1, <2>2, Zenon DEF SegmentsBounded
  <1>12. HashesAreOwn'
    <2>1. \A n \in Nat : n <= minted => n <= minted' /\ n # minted + 1
      BY <1>2, <1>4
    <2>2. 1 <= minted + 1 /\ minted + 1 <= minted'
      BY <1>2, <1>4
    <2>3. /\ \A l \in lines : l.hash \in Nat
          /\ \A t \in Sessions : callers[t] # None => callers[t].hash \in Nat
      BY <1>1 DEF FilesType, Line, Prepared
    <2>4. \A l \in lines : 1 <= l.hash /\ l.hash <= minted' /\ l.hash # minted + 1
      BY <1>1, <2>1, <2>3, Zenon DEF HashesAreOwn
    <2>5. \A t \in Sessions : t # s /\ callers'[t] # None =>
            /\ 1 <= callers'[t].hash /\ callers'[t].hash <= minted'
            /\ callers'[t].hash # minted + 1
            /\ \A l \in lines : l.hash # callers'[t].hash
      BY <1>1, <1>9, <2>1, <2>3, Zenon DEF HashesAreOwn
    <2>6. \A t \in Sessions : callers'[t] # None =>
            /\ 1 <= callers'[t].hash /\ callers'[t].hash <= minted'
            /\ \A l \in lines : l.hash # callers'[t].hash
      BY <1>7, <1>9, <2>2, <2>4, <2>5, Zenon
    <2>7. \A t, u \in Sessions :
            callers'[t] # None /\ callers'[u] # None /\ callers'[t].hash = callers'[u].hash
                => t = u
      <3>1. \A t \in Sessions : callers'[t] # None /\ callers'[t].hash = minted + 1 => t = s
        BY <2>5, Zenon
      <3>2. callers'[s].hash = minted + 1
        BY <1>7, <1>9, Zenon
      <3> SUFFICES ASSUME NEW t \in Sessions, NEW u \in Sessions, callers'[t] # None,
                          callers'[u] # None, callers'[t].hash = callers'[u].hash
                   PROVE  t = u
        BY Zenon
      <3>3. CASE t = s \/ u = s
        BY <3>1, <3>2, <3>3, Zenon
      <3>4. CASE t # s /\ u # s
        BY <1>1, <1>9, <3>4, Zenon DEF HashesAreOwn
      <3> QED BY <3>3, <3>4, Zenon
    <2> QED BY <1>1, <1>2, <2>4, <2>6, <2>7, Zenon DEF HashesAreOwn
  <1>13. HeadsAreWritten'
    BY <1>1, <1>2, <1>5, Zenon DEF HeadsAreWritten
  <1>14. PreparedOnSlot'
    <2>1. ASSUME NEW t \in Sessions, NEW y \in Slots(mem'.live),
                 callers'[t] # None, y.sid = t, y.seg = callers'[t].seg
          PROVE  y.seq = callers'[t].seq /\ y.head = callers'[t].prev
      <3>1. CASE t = s
        BY <1>3, <1>7, <1>9, <2>1, <3>1, Zenon
      <3>2. CASE t # s
        BY <1>1, <1>6, <1>8, <1>9, <2>1, <3>2 DEF PreparedOnSlot
      <3> QED BY <3>1, <3>2, Zenon
    <2> QED BY <1>2, <2>1, Zenon DEF PreparedOnSlot
  <1>15. MemoryOnDisk'
    <2>1. ASSUME ~poisoned', NEW y \in Slots(mem'.live)
          PROVE  /\ y.seq > 0 => y \in Slots(disk'.live)
                 /\ y.seq = 0 => /\ y.head = NoReceipt
                                 /\ \A l \in lines : l.sid = y.sid => l.seg # y.seg
      <3>1. CASE y \in Slots(mem.live) /\ y.sid # e
        BY <1>1, <1>2, <1>5, <2>1, <3>1, Zenon DEF MemoryOnDisk
      <3>2. CASE y = new
        <4>1. \A l \in lines : l.seg # mem.counter + 1
          BY <1>1, <1>4 DEF SegmentsBounded, FilesType, Line
        <4> QED BY <1>6, <3>2, <4>1
      <3> QED BY <1>8, <3>1, <3>2, Zenon
    <2> QED BY <1>2, <2>1 DEF MemoryOnDisk
  <1> QED BY <1>10, <1>11, <1>12, <1>13, <1>14, <1>15, Zenon DEF FilesInv

(* The fold of a receipt line.                                             *)
LEMMA FoldReceiptFacts ==
    ASSUME StoreType(disk), NEW x \in SlotRecord
    PROVE  /\ StoreType(FoldReceipt(x))
           /\ Slots(FoldReceipt(x).live) = Without(Slots(disk.live), x.sid) \cup {x}
           /\ disk.counter <= FoldReceipt(x).counter /\ x.seg <= FoldReceipt(x).counter
           /\ FoldReceipt(x).counter \in {disk.counter, x.seg}
  <1> DEFINE c == IF x.seg > disk.counter THEN x.seg ELSE disk.counter
  <1>1. disk.counter \in Nat /\ x.seg \in Nat
    BY StoreFields DEF SlotRecord
  <1>2. c \in Nat /\ disk.counter <= c /\ x.seg <= c /\ c \in {disk.counter, x.seg}
    BY <1>1
  <1>3. Made(FoldReceipt(x), Append(Others(disk, x.sid), x), c)
    BY Zenon DEF FoldReceipt, Made
  <1> HIDE DEF c
  <1>4. /\ SlotList(Append(Others(disk, x.sid), x))
        /\ Slots(Append(Others(disk, x.sid), x)) = Without(Slots(disk.live), x.sid) \cup {x}
    BY PutFacts, Zenon
  <1>5. FoldReceipt(x).live = Append(Others(disk, x.sid), x) /\ FoldReceipt(x).counter = c
        /\ StoreType(FoldReceipt(x))
    BY <1>2, <1>3, <1>4, MadeFields, Zenon
  <1> QED BY <1>2, <1>4, <1>5, Zenon

(* A prepared receipt forgotten: given up, or dropped by the live chain.   *)
LEMMA ForgetKeeps ==
    ASSUME FilesInv, NEW s \in Sessions, callers' = [callers EXCEPT ![s] = None],
           UNCHANGED <<mem, disk, torn, up, poisoned, minted, boots, lines>>
    PROVE  FilesInv'
  <1>1. FilesType /\ SegmentsBounded /\ HashesAreOwn /\ HeadsAreWritten
        /\ PreparedOnSlot /\ MemoryOnDisk
    BY Zenon DEF FilesInv
  <1>2. /\ mem' = mem /\ disk' = disk /\ torn' = torn /\ up' = up /\ poisoned' = poisoned
        /\ minted' = minted /\ boots' = boots /\ lines' = lines
    BY Zenon
  <1>3. /\ callers' \in [Sessions -> Prepared \cup {None}]
        /\ \A t \in Sessions : callers'[t] = None \/ callers'[t] = callers[t]
    BY <1>1 DEF FilesType
  <1>4. FilesType' /\ SegmentsBounded' /\ HeadsAreWritten' /\ MemoryOnDisk'
    <2>1. FilesType'
      BY <1>1, <1>2, <1>3, Zenon DEF FilesType
    <2>2. SegmentsBounded' /\ HeadsAreWritten'
      BY <1>1, <1>2, Zenon DEF SegmentsBounded, HeadsAreWritten
    <2>3. MemoryOnDisk'
      BY <1>1, <1>2 DEF MemoryOnDisk
    <2> QED BY <2>1, <2>2, <2>3, Zenon
  <1>5. HashesAreOwn'
    BY <1>1, <1>2, <1>3 DEF HashesAreOwn
  <1>6. PreparedOnSlot'
    BY <1>1, <1>2, <1>3 DEF PreparedOnSlot
  <1> QED BY <1>4, <1>5, <1>6, Zenon DEF FilesInv

(* What a commit that the live chain accepts adds to memory and, when its  *)
(* line is written, to the files.                                          *)
Grows(s) == [sid |-> s, seg |-> callers[s].seg, seq |-> callers[s].seq + 1,
             head |-> callers[s].hash]

LineOf(s) == [sid |-> s, seg |-> callers[s].seg, seq |-> callers[s].seq,
              prev |-> callers[s].prev, hash |-> callers[s].hash]

(* What a commit that the live chain accepts does.                         *)
LEMMA Committed ==
    ASSUME FilesInv, NEW s \in Sessions, NEW w, Commit(s, w), Commits(s)
    PROVE  /\ up /\ ~poisoned /\ callers[s] # None /\ callers[s] \in Prepared
           /\ Grows(s) \in SlotRecord /\ LineOf(s) \in Line
           /\ StoreType(mem') /\ mem'.counter = mem.counter
           /\ Slots(mem'.live) = Without(Slots(mem.live), s) \cup {Grows(s)}
           /\ \E y \in Slots(mem.live) : /\ y.sid = s /\ y.seg = callers[s].seg
                                         /\ y.seq = callers[s].seq /\ y.head = callers[s].prev
           /\ \/ /\ disk' = FoldReceipt(Grows(s))
                 /\ lines' = lines \cup {LineOf(s)}
              \/ poisoned' /\ disk' = disk /\ lines' = lines
           /\ torn' \in BOOLEAN /\ poisoned' \in BOOLEAN
           /\ callers' = [callers EXCEPT ![s] = None]
           /\ up' = up /\ minted' = minted /\ boots' = boots
  <1> DEFINE r == callers[s]
  <1>1. FilesType /\ PreparedOnSlot
    BY Zenon DEF FilesInv
  <1>2. /\ up /\ ~poisoned /\ r # None /\ mem' = Advance(mem, s, r.hash, r.seg)
        /\ callers' = [callers EXCEPT ![s] = None]
        /\ up' = up /\ minted' = minted /\ boots' = boots
        /\ AppendLine(w, FoldReceipt(Grows(s))) /\ Poisons(w)
        /\ lines' = IF w \in {"ok", "unsynced"} THEN lines \cup {LineOf(s)} ELSE lines
    BY Zenon DEF Commit, Grows, LineOf
  <1>3. /\ \/ disk' = FoldReceipt(Grows(s)) /\ lines' = lines \cup {LineOf(s)}
           \/ poisoned' /\ disk' = disk /\ lines' = lines
        /\ torn' \in BOOLEAN /\ poisoned' \in BOOLEAN
    BY <1>1, <1>2, Zenon DEF AppendLine, Poisons, FilesType
  <1>4. r \in Prepared
    BY <1>1, <1>2, Zenon DEF FilesType
  <1>5. /\ r.seg \in Nat /\ r.seq \in Nat /\ r.hash \in Nat
        /\ Grows(s) \in SlotRecord /\ LineOf(s) \in Line
    BY <1>4 DEF Prepared, Grows, LineOf, SlotRecord, Line
  <1>6. StoreType(mem) /\ SlotList(mem.live) /\ Live(mem, s) /\ Advances(mem, s, r.seg)
        /\ SlotOf(mem, s).seg = r.seg
    BY <1>1, StoreFields, Zenon DEF Commits, Advances, FilesType
  <1>7. SlotOf(mem, s) \in Slots(mem.live) /\ SlotOf(mem, s).sid = s
    BY <1>6, SlotFacts, Zenon
  <1>8. SlotOf(mem, s).seq = r.seq /\ SlotOf(mem, s).head = r.prev
    BY <1>1, <1>2, <1>6, <1>7, Zenon DEF PreparedOnSlot
  <1>9. /\ StoreType(mem') /\ mem'.counter = mem.counter
        /\ Slots(mem'.live) = Without(Slots(mem.live), s) \cup {Grows(s)}
    <2>1. Grows(s) = [sid |-> s, seg |-> r.seg, seq |-> r.seq + 1, head |-> r.hash]
      BY Zenon DEF Grows
    <2>2. mem' = Advance(mem, s, r.hash, r.seg) /\ r.hash \in Nat /\ r.seq \in Nat
          /\ StoreType(mem) /\ Advances(mem, s, r.seg) /\ SlotOf(mem, s).seq = r.seq
      BY <1>2, <1>5, <1>6, <1>8, Zenon
    <2> HIDE DEF r
    <2> QED BY <2>1, <2>2, AdvanceFacts, SMTT(20)
  <1> QED BY <1>2, <1>3, <1>4, <1>5, <1>6, <1>7, <1>8, <1>9, Zenon

(* advance keeps it.                                                       *)
LEMMA CommitKeeps ==
    ASSUME FilesInv, NEW s \in Sessions, NEW w, Commit(s, w)
    PROVE  FilesInv'
  <1>1. CASE ~Commits(s)
    <2>1. Advance(mem, s, callers[s].hash, callers[s].seg) = mem
      BY <1>1, Zenon DEF Commits, Advance
    <2>2. /\ callers' = [callers EXCEPT ![s] = None]
          /\ UNCHANGED <<mem, disk, torn, up, poisoned, minted, boots, lines>>
      BY <1>1, <2>1, Zenon DEF Commit
    <2> QED BY <2>2, ForgetKeeps, Zenon
  <1>2. CASE Commits(s)
    <2> DEFINE r == callers[s]
               x == Grows(s)
               l == LineOf(s)
    <2>1. FilesType /\ SegmentsBounded /\ HashesAreOwn /\ HeadsAreWritten
          /\ PreparedOnSlot /\ MemoryOnDisk
      BY Zenon DEF FilesInv
    <2>2. /\ up /\ ~poisoned /\ r # None /\ r \in Prepared
          /\ x \in SlotRecord /\ l \in Line
          /\ StoreType(mem') /\ mem'.counter = mem.counter
          /\ Slots(mem'.live) = Without(Slots(mem.live), s) \cup {x}
          /\ \E y \in Slots(mem.live) : y.sid = s /\ y.seg = r.seg
          /\ torn' \in BOOLEAN /\ poisoned' \in BOOLEAN
          /\ callers' = [callers EXCEPT ![s] = None]
          /\ up' = up /\ minted' = minted /\ boots' = boots
      BY <1>2, Committed, Zenon
    <2>3. \/ disk' = FoldReceipt(x) /\ lines' = lines \cup {l}
          \/ poisoned' /\ disk' = disk /\ lines' = lines
      BY <1>2, Committed, Zenon
    <2>4. /\ x.sid = s /\ x.seg = r.seg /\ x.seq >= 1 /\ x.seq # 0 /\ x.head = r.hash
          /\ l.sid = s /\ l.seg = r.seg /\ l.hash = r.hash
      BY <2>2 DEF Grows, LineOf, Prepared
    <2> HIDE DEF x, l, r
    <2>5. /\ mem.counter \in Nat /\ disk.counter \in Nat /\ minted \in Nat /\ r.seg \in Nat
          /\ StoreType(disk) /\ 1 <= r.seg /\ r.seg <= mem.counter
      BY <2>1, <2>2, StoreFields DEF FilesType, Prepared, SegmentsBounded
    <2>6. /\ StoreType(disk') /\ lines' \subseteq Line /\ lines \subseteq lines'
          /\ disk.counter <= disk'.counter /\ disk'.counter \in Nat /\ disk'.counter <= mem.counter
          /\ \A m \in lines' : m \in lines \/ (m = l /\ r.seg <= disk'.counter)
          /\ \A y \in Slots(disk'.live) : y \in Slots(disk.live) \/ (y = x /\ l \in lines')
          /\ ~poisoned' => /\ x \in Slots(disk'.live)
                           /\ \A y \in Slots(disk.live) : y.sid # s => y \in Slots(disk'.live)
      <3>1. CASE disk' = FoldReceipt(x) /\ lines' = lines \cup {l}
        <4>1. /\ StoreType(disk') /\ Slots(disk'.live) = Without(Slots(disk.live), s) \cup {x}
              /\ disk.counter <= disk'.counter /\ r.seg <= disk'.counter
              /\ disk'.counter \in {disk.counter, r.seg}
          BY <2>2, <2>4, <2>5, <3>1, FoldReceiptFacts, Zenon
        <4>2. disk'.counter \in Nat /\ disk'.counter <= mem.counter
          BY <2>1, <2>5, <4>1 DEF SegmentsBounded
        <4> QED BY <2>1, <2>2, <3>1, <4>1, <4>2, Zenon DEF FilesType, Without
      <3>2. CASE poisoned' /\ disk' = disk /\ lines' = lines
        <4>1. disk.counter <= disk.counter /\ disk.counter <= mem.counter
          BY <2>1, <2>5 DEF SegmentsBounded
        <4> QED BY <2>1, <2>5, <3>2, <4>1, Zenon DEF FilesType
      <3> QED BY <2>3, <3>1, <3>2, Zenon
    <2>7. /\ callers' \in [Sessions -> Prepared \cup {None}]
          /\ callers'[s] = None
          /\ \A t \in Sessions : t # s => callers'[t] = callers[t]
      BY <2>1, <2>2 DEF FilesType
    <2>8. \A y \in Slots(mem'.live) : y = x \/ (y \in Slots(mem.live) /\ y.sid # s)
      BY <2>2, Zenon DEF Without
    <2>9. FilesType'
      BY <2>1, <2>2, <2>6, <2>7, Zenon DEF FilesType
    <2>10. SegmentsBounded'
      <3>1. ASSUME NEW m \in lines'
            PROVE  1 <= m.seg /\ m.seg <= disk'.counter
        <4>1. CASE m \in lines
          <5>1. 1 <= m.seg /\ m.seg <= disk.counter /\ m.seg \in Nat
            BY <2>1, <4>1 DEF SegmentsBounded, FilesType, Line
          <5> QED BY <2>5, <2>6, <5>1
        <4>2. CASE m = l /\ r.seg <= disk'.counter
          BY <2>4, <2>5, <4>2, Zenon
        <4> QED BY <2>6, <4>1, <4>2, Zenon
      <3>2. \A y \in Slots(mem'.live) : 1 <= y.seg /\ y.seg <= mem'.counter
        BY <2>1, <2>2, <2>4, <2>5, <2>8, Zenon DEF SegmentsBounded
      <3> QED BY <2>1, <2>2, <2>6, <3>1, <3>2, Zenon DEF SegmentsBounded
    <2>11. HashesAreOwn'
      <3>1. /\ 1 <= r.hash /\ r.hash <= minted
            /\ \A m \in lines : m.hash # r.hash
            /\ \A t \in Sessions : t # s /\ callers[t] # None => callers[t].hash # r.hash
        BY <2>1, <2>2, Zenon DEF HashesAreOwn, r
      <3>2. \A m \in lines' : 1 <= m.hash /\ m.hash <= minted
        BY <2>1, <2>4, <2>6, <3>1, Zenon DEF HashesAreOwn
      <3>3. \A m, n \in lines' : m.hash = n.hash => m = n
        BY <2>1, <2>4, <2>6, <3>1 DEF HashesAreOwn
      <3>4. \A t \in Sessions : callers'[t] # None =>
              /\ 1 <= callers'[t].hash /\ callers'[t].hash <= minted
              /\ \A m \in lines' : m.hash # callers'[t].hash
        BY <2>1, <2>4, <2>6, <2>7, <3>1 DEF HashesAreOwn
      <3>5. \A t, u \in Sessions :
              callers'[t] # None /\ callers'[u] # None /\ callers'[t].hash = callers'[u].hash
                  => t = u
        BY <2>1, <2>7 DEF HashesAreOwn
      <3> QED BY <2>2, <3>2, <3>3, <3>4, <3>5, Zenon DEF HashesAreOwn
    <2>12. HeadsAreWritten'
      BY <2>1, <2>4, <2>6 DEF HeadsAreWritten
    <2>13. PreparedOnSlot'
      BY <2>1, <2>2, <2>4, <2>7, <2>8 DEF PreparedOnSlot
    <2>14. MemoryOnDisk'
      BY <2>1, <2>2, <2>4, <2>6, <2>8 DEF MemoryOnDisk
    <2> QED BY <2>9, <2>10, <2>11, <2>12, <2>13, <2>14, Zenon DEF FilesInv
  <1> QED BY <1>1, <1>2, Zenon

(* dispose, or a crash, keeps it.                                          *)
LEMMA StopKeeps ==
    ASSUME FilesInv, NEW tears \in BOOLEAN, Stop(tears)
    PROVE  FilesInv'
  <1>1. FilesType /\ SegmentsBounded /\ HashesAreOwn /\ HeadsAreWritten
        /\ PreparedOnSlot /\ MemoryOnDisk
    BY Zenon DEF FilesInv
  <1>2. /\ ~up' /\ up' \in BOOLEAN /\ torn' \in BOOLEAN
        /\ mem' = mem /\ disk' = disk /\ poisoned' = poisoned
        /\ minted' = minted /\ boots' = boots /\ lines' = lines
        /\ callers' = [s \in Sessions |-> None]
    BY <1>1, Zenon DEF Stop, FilesType
  <1>3. /\ callers' \in [Sessions -> Prepared \cup {None}]
        /\ \A t \in Sessions : callers'[t] = None
    BY <1>2
  <1>4. FilesType'
    BY <1>1, <1>2, <1>3, Zenon DEF FilesType
  <1>5. SegmentsBounded' /\ HeadsAreWritten'
    BY <1>1, <1>2, Zenon DEF SegmentsBounded, HeadsAreWritten
  <1>6. HashesAreOwn'
    BY <1>1, <1>2, <1>3 DEF HashesAreOwn
  <1>7. PreparedOnSlot' /\ MemoryOnDisk'
    BY <1>2, <1>3, Zenon DEF PreparedOnSlot, MemoryOnDisk
  <1> QED BY <1>4, <1>5, <1>6, <1>7, Zenon DEF FilesInv

(* reloadAll keeps the last of the slots that the files give.              *)
LEMMA ReloadFacts ==
    ASSUME SessionConstants, StoreType(disk)
    PROVE  /\ StoreType(ReloadAll) /\ ReloadAll.counter = disk.counter
           /\ Slots(ReloadAll.live) \subseteq Slots(disk.live)
  <1> DEFINE q == IF MaxSessions > 0 /\ Len(disk.live) > MaxSessions
                  THEN SubSeq(disk.live, Len(disk.live) - MaxSessions + 1, Len(disk.live))
                  ELSE disk.live
  <1>1. SlotList(disk.live) /\ disk.counter \in Nat
    BY StoreFields, Zenon
  <1>2. SlotList(q) /\ Slots(q) \subseteq Slots(disk.live)
    <2>1. CASE MaxSessions > 0 /\ Len(disk.live) > MaxSessions
      <3>1. Len(disk.live) - MaxSessions \in Nat
        BY <1>1, <2>1 DEF SlotList, SessionConstants
      <3> QED BY <1>1, <2>1, <3>1, SuffixFacts, Zenon
    <2>2. CASE ~(MaxSessions > 0 /\ Len(disk.live) > MaxSessions)
      BY <1>1, <2>2, Zenon
    <2> QED BY <2>1, <2>2, Zenon
  <1>3. Made(ReloadAll, q, disk.counter)
    BY Zenon DEF ReloadAll, Seeded, Made
  <1> HIDE DEF q
  <1>4. ReloadAll.live = q /\ ReloadAll.counter = disk.counter /\ StoreType(ReloadAll)
    BY <1>1, <1>2, <1>3, MadeFields, Zenon
  <1> QED BY <1>2, <1>4, Zenon

(* A construction keeps it.                                                *)
LEMMA BootKeeps ==
    ASSUME SessionConstants, FilesInv, Boot
    PROVE  FilesInv'
  <1>1. FilesType /\ SegmentsBounded /\ HashesAreOwn /\ HeadsAreWritten
        /\ PreparedOnSlot /\ MemoryOnDisk
    BY Zenon DEF FilesInv
  <1>2. /\ ~up /\ up' \in BOOLEAN /\ mem' = ReloadAll /\ ~poisoned' /\ poisoned' \in BOOLEAN
        /\ boots' = boots + 1 /\ disk' = disk /\ torn' = torn /\ callers' = callers
        /\ minted' = minted /\ lines' = lines /\ up'
    BY Zenon DEF Boot
  <1>3. /\ StoreType(mem') /\ mem'.counter = disk.counter
        /\ \A x \in Slots(mem'.live) : x \in Slots(disk.live)
    BY <1>1, <1>2, ReloadFacts, Zenon DEF FilesType
  <1>4. FilesType'
    <2>1. boots' \in Nat
      BY <1>1, <1>2 DEF FilesType
    <2> QED BY <1>1, <1>2, <1>3, <2>1, Zenon DEF FilesType
  <1>5. SegmentsBounded'
    <2>1. disk.counter <= disk.counter /\ disk.counter <= minted
      BY <1>1, StoreFields DEF SegmentsBounded, FilesType
    <2>2. \A x \in Slots(disk.live) : 1 <= x.seg /\ x.seg <= disk.counter
      BY <1>1, Zenon DEF HeadsAreWritten, SegmentsBounded
    <2> QED BY <1>1, <1>2, <1>3, <2>1, <2>2, Zenon DEF SegmentsBounded
  <1>6. HashesAreOwn'
    BY <1>1, <1>2, Zenon DEF HashesAreOwn
  <1>7. HeadsAreWritten'
    BY <1>1, <1>2, Zenon DEF HeadsAreWritten
  <1>8. PreparedOnSlot'
    BY <1>1, <1>2, Zenon DEF PreparedOnSlot
  <1>9. MemoryOnDisk'
    <2>1. \A x \in Slots(disk.live) : x.seq # 0
      BY <1>1, StoreFields, SlotsTyped DEF HeadsAreWritten, FilesType, SlotRecord
    <2> QED BY <1>2, <1>3, <2>1, Zenon DEF MemoryOnDisk
  <1> QED BY <1>4, <1>5, <1>6, <1>7, <1>8, <1>9, Zenon DEF FilesInv

(* An empty directory has it.                                              *)
LEMMA FilesStart ==
    ASSUME SessionConstants, Init
    PROVE  FilesInv
  <1>1. /\ Made(mem, <<>>, 0) /\ Made(disk, <<>>, 0) /\ ~torn /\ up /\ ~poisoned
        /\ torn \in BOOLEAN /\ up \in BOOLEAN /\ poisoned \in BOOLEAN
        /\ callers = [s \in Sessions |-> None] /\ minted = 0 /\ boots = 1 /\ lines = {}
    BY Zenon DEF Init, Made
  <1>2. SlotList(<<>>) /\ Slots(<<>>) = {} /\ 0 \in Nat /\ 1 \in Nat /\ 0 <= 0
    BY DEF SlotList, Slots
  <1>3. /\ mem.live = <<>> /\ mem.counter = 0 /\ StoreType(mem)
        /\ disk.live = <<>> /\ disk.counter = 0 /\ StoreType(disk)
    BY <1>1, <1>2, MadeFields, Zenon
  <1>4. /\ callers \in [Sessions -> Prepared \cup {None}]
        /\ \A s \in Sessions : callers[s] = None
    BY <1>1
  <1>5. FilesType
    BY <1>1, <1>2, <1>3, <1>4, Zenon DEF FilesType
  <1>6. SegmentsBounded
    BY <1>1, <1>2, <1>3 DEF SegmentsBounded, SessionConstants
  <1>7. HashesAreOwn /\ HeadsAreWritten /\ PreparedOnSlot /\ MemoryOnDisk
    BY <1>1, <1>2, <1>3, <1>4, Zenon
       DEF HashesAreOwn, HeadsAreWritten, PreparedOnSlot, MemoryOnDisk
  <1> QED BY <1>5, <1>6, <1>7, Zenon DEF FilesInv

(* The invariant holds.                                                    *)
THEOREM FilesInvariance ==
    ASSUME SessionConstants
    PROVE  Spec => []FilesInv
  <1>1. Init => FilesInv
    BY FilesStart
  <1>2. FilesInv /\ [Next]_vars => FilesInv'
    <2> SUFFICES ASSUME FilesInv, [Next]_vars PROVE FilesInv'
      OBVIOUS
    <2>1. ASSUME NEW s \in Sessions, NEW w \in Outcomes,
                 Peek(s, w) \/ Commit(s, w) \/ EndSession(s, w)
          PROVE  FilesInv'
      BY <2>1, PeekKeeps, CommitKeeps, EndSessionKeeps, Zenon
    <2>2. ASSUME NEW s \in Sessions, GiveUp(s)
          PROVE  FilesInv'
      BY <2>2, ForgetKeeps, Zenon DEF GiveUp
    <2>3. ASSUME NEW w \in Outcomes, SweepOldest(w)
          PROVE  FilesInv'
      BY <2>3, SweepKeeps, Zenon
    <2>4. ASSUME NEW tears \in BOOLEAN, Stop(tears)
          PROVE  FilesInv'
      BY <2>4, StopKeeps, Zenon
    <2>5. CASE Boot
      BY <2>5, BootKeeps, Zenon
    <2>6. CASE UNCHANGED vars
      <3>1. /\ mem' = mem /\ disk' = disk /\ torn' = torn /\ up' = up /\ poisoned' = poisoned
            /\ callers' = callers /\ minted' = minted /\ boots' = boots /\ lines' = lines
        BY <2>6, Zenon DEF vars
      <3>2. FilesType' /\ SegmentsBounded' /\ HashesAreOwn'
        BY <3>1 DEF FilesInv, FilesType, SegmentsBounded, HashesAreOwn
      <3>3. HeadsAreWritten' /\ PreparedOnSlot' /\ MemoryOnDisk'
        BY <3>1 DEF FilesInv, HeadsAreWritten, PreparedOnSlot, MemoryOnDisk
      <3> QED BY <3>2, <3>3, Zenon DEF FilesInv
    <2> QED BY <2>1, <2>2, <2>3, <2>4, <2>5, <2>6, Zenon DEF Next
  <1> QED BY <1>1, <1>2, PTL DEF Spec

(* Every chain that the store would still extend is the one a restart      *)
(* resumes (advance, reloadAll).                                           *)
THEOREM StoreResumes ==
    ASSUME SessionConstants
    PROVE  Spec => []RestartResumes
  <1>1. FilesInv => RestartResumes
    <2> SUFFICES ASSUME FilesInv, up, ~poisoned, NEW i \in 1..Len(mem.live),
                        mem.live[i].seq > 0
                 PROVE  \E j \in 1..Len(disk.live) : disk.live[j] = mem.live[i]
      BY Zenon DEF RestartResumes
    <2>1. mem.live[i] \in Slots(mem.live)
      BY Zenon DEF Slots
    <2>2. mem.live[i] \in Slots(disk.live)
      BY <2>1, Zenon DEF FilesInv, MemoryOnDisk
    <2> QED BY <2>2, Zenon DEF Slots
  <1> QED BY <1>1, FilesInvariance, PTL

-----------------------------------------------------------------------------
(* The files implement DurableChains.                                      *)

(* The chain that store d and lines ls give session s: OnDisk.             *)
ChainIn(d, ls, s) ==
    IF Live(d, s)
    THEN LET x == SlotOf(d, s)
             l == CHOOSE l \in ls : l.hash = x.head
         IN  [seg |-> x.seg, seq |-> x.seq, head |-> x.head, tail |-> l.prev]
    ELSE None

ChainsIn(d, ls) == [s \in Sessions |-> ChainIn(d, ls, s)]

UsedIn(ls) == {<<l.sid, l.seg>> : l \in ls}

(* No two lines have one hash, and every slot has a line for its head.     *)
Written(d, ls) ==
    /\ SlotList(d.live)
    /\ \A l, m \in ls : l.hash = m.hash => l = m
    /\ \A x \in Slots(d.live) :
          \E l \in ls : l.hash = x.head /\ l.sid = x.sid /\ l.seg = x.seg

(* A slot as a chain, with what its head's line continues.                 *)
Tells(x, l) == [seg |-> x.seg, seq |-> x.seq, head |-> x.head, tail |-> l.prev]

(* A session without a slot has no chain.                                  *)
LEMMA NoChain ==
    ASSUME NEW d, NEW ls, Written(d, ls), NEW s, \A x \in Slots(d.live) : x.sid # s
    PROVE  ChainIn(d, ls, s) = None
  <1>1. ~Live(d, s)
    BY SlotFacts, ZenonT(30) DEF Written
  <1> QED BY <1>1, Zenon DEF ChainIn

(* A session with a slot has the chain it tells.                           *)
LEMMA ChainTells ==
    ASSUME NEW d, NEW ls, Written(d, ls), NEW s,
           NEW x \in Slots(d.live), NEW l \in ls, x.sid = s, l.hash = x.head
    PROVE  ChainIn(d, ls, s) = Tells(x, l)
  <1>1. SlotList(d.live) /\ \A m, n \in ls : m.hash = n.hash => m = n
    BY Zenon DEF Written
  <1>2. Live(d, s) /\ x = SlotOf(d, s)
    BY <1>1, SlotFacts, Zenon
  <1>3. (CHOOSE m \in ls : m.hash = x.head) = l
    BY <1>1, Zenon
  <1> QED BY <1>2, <1>3, Zenon DEF ChainIn, Tells

SameSlot(d, e, s) ==
    /\ \A x \in Slots(d.live) : x.sid = s => x \in Slots(e.live)
    /\ \A x \in Slots(e.live) : x.sid = s => x \in Slots(d.live)

(* A session whose slot stays has the chain it had.                        *)
LEMMA SameChain ==
    ASSUME NEW d, NEW ls, Written(d, ls), NEW e, NEW ms, Written(e, ms), ls \subseteq ms,
           NEW s, SameSlot(d, e, s)
    PROVE  ChainIn(e, ms, s) = ChainIn(d, ls, s)
  <1>1. CASE \A x \in Slots(d.live) : x.sid # s
    <2>1. \A x \in Slots(e.live) : x.sid # s
      BY <1>1, Zenon DEF SameSlot
    <2> QED BY <1>1, <2>1, NoChain, Zenon
  <1>2. CASE ~\A x \in Slots(d.live) : x.sid # s
    <2>1. PICK x \in Slots(d.live) : x.sid = s
      BY <1>2, Zenon
    <2>2. PICK l \in ls : l.hash = x.head
      BY <2>1, Zenon DEF Written
    <2>3. x \in Slots(e.live) /\ l \in ms
      BY <2>1, <2>2, Zenon DEF SameSlot
    <2>4. ChainIn(d, ls, s) = Tells(x, l)
      BY <2>1, <2>2, ChainTells
    <2>5. ChainIn(e, ms, s) = Tells(x, l)
      BY <2>1, <2>2, <2>3, ChainTells
    <2> QED BY <2>4, <2>5, Zenon
  <1> QED BY <1>1, <1>2, Zenon

(* What the invariant says of the files, now and in the next state.        *)
LEMMA FilesWritten ==
    /\ FilesInv => Written(disk, lines)
    /\ FilesInv' => Written(disk', lines')
  <1>1. FilesInv => Written(disk, lines)
    BY StoreFields, Zenon DEF FilesInv, FilesType, HashesAreOwn, HeadsAreWritten, Written
  <1>2. FilesInv' => Written(disk', lines')
    BY StoreFields, Zenon DEF FilesInv, FilesType, HashesAreOwn, HeadsAreWritten, Written
  <1> QED BY <1>1, <1>2, Zenon

(* The mapping, in these terms.                                            *)
LEMMA Mapped ==
    /\ [s \in Sessions |-> OnDisk(s)] = ChainsIn(disk, lines)
    /\ [s \in Sessions |-> OnDisk(s)]' = ChainsIn(disk', lines')
    /\ {<<l.sid, l.seg>> : l \in lines} = UsedIn(lines)
    /\ {<<l.sid, l.seg>> : l \in lines}' = UsedIn(lines')
  BY Zenon DEF OnDisk, ChainsIn, ChainIn, UsedIn

(* The line of an end drops a chain, or nothing was written.               *)
LEMMA EndDrops ==
    ASSUME FilesInv, FilesInv', NEW w, NEW e \in Sessions, AppendLine(w, FoldEnd(e)), lines' = lines
    PROVE  [Chains!DCNext]_(Chains!dcVars)
  <1>1. /\ Written(disk, lines) /\ Written(disk', lines) /\ StoreType(disk)
        /\ UsedIn(lines') = UsedIn(lines)
    BY FilesWritten, Zenon DEF FilesInv, FilesType
  <1>2. CASE disk' = disk
    <2>1. ChainsIn(disk', lines') = ChainsIn(disk, lines)
      BY <1>2, Zenon
    <2> QED BY <1>1, <2>1, Mapped DEF Chains!dcVars
  <1>3. CASE disk' = FoldEnd(e)
    <2>1. Slots(disk'.live) = Without(Slots(disk.live), e)
      BY <1>1, <1>3, EndFacts, Zenon DEF FoldEnd, End
    <2>2. ChainIn(disk', lines, e) = None
      BY <1>1, <2>1, NoChain, Zenon DEF Without
    <2>3. ASSUME NEW t \in Sessions, t # e
          PROVE  ChainIn(disk', lines, t) = ChainIn(disk, lines, t)
      <3>1. SameSlot(disk, disk', t)
        BY <2>1, <2>3, Zenon DEF Without, SameSlot
      <3>2. lines \subseteq lines
        OBVIOUS
      <3> QED BY <1>1, <3>1, <3>2, SameChain
    <2>4. ChainsIn(disk', lines') = [ChainsIn(disk, lines) EXCEPT ![e] = None]
      BY <2>2, <2>3, Zenon DEF ChainsIn
    <2>5. Chains!Drop(e)
      BY <1>1, <2>4, Mapped, Zenon DEF Chains!Drop
    <2> QED BY <2>5, Zenon DEF Chains!DCNext
  <1> QED BY <1>2, <1>3, Zenon DEF AppendLine

(* A receipt line begins a chain in a segment never used, or extends one.  *)
LEMMA CommitExtends ==
    ASSUME SessionConstants, FilesInv, FilesInv', NEW s \in Sessions, NEW w, Commit(s, w)
    PROVE  [Chains!DCNext]_(Chains!dcVars)
  <1>1. CASE UNCHANGED <<disk, lines>>
    <2>1. ChainsIn(disk', lines') = ChainsIn(disk, lines) /\ UsedIn(lines') = UsedIn(lines)
      BY <1>1, Zenon
    <2> QED BY <2>1, Mapped DEF Chains!dcVars
  <1>2. CASE ~UNCHANGED <<disk, lines>>
    <2> DEFINE r == callers[s]
               x == Grows(s)
               l == LineOf(s)
               new == [seg |-> r.seg, seq |-> r.seq + 1, head |-> r.hash, tail |-> r.prev]
    <2>1. Commits(s)
      BY <1>2, Zenon DEF Commit
    <2>2. /\ up /\ ~poisoned /\ r # None /\ r \in Prepared /\ x \in SlotRecord /\ l \in Line
          /\ disk' = FoldReceipt(x) /\ lines' = lines \cup {l}
      BY <1>2, <2>1, Committed, Zenon
    <2>3. PICK y \in Slots(mem.live) :
              y.sid = s /\ y.seg = r.seg /\ y.seq = r.seq /\ y.head = r.prev
      BY <2>1, Committed, Zenon
    <2>4. /\ x.sid = s /\ x.seg = r.seg /\ x.seq = r.seq + 1 /\ x.head = r.hash
          /\ l.sid = s /\ l.seg = r.seg /\ l.hash = r.hash /\ l.prev = r.prev
          /\ r.seg \in Nat /\ r.seq \in Nat /\ r.hash \in Nat
      BY <2>2 DEF Grows, LineOf, Prepared
    <2> HIDE DEF x, l, r
    <2>5. /\ Written(disk, lines) /\ Written(disk', lines') /\ StoreType(disk)
          /\ Slots(disk'.live) = Without(Slots(disk.live), s) \cup {x}
      BY <2>2, <2>4, FilesWritten, FoldReceiptFacts, Zenon DEF FilesInv, FilesType
    <2>6. ChainIn(disk', lines', s) = new
      <3>1. x \in Slots(disk'.live) /\ l \in lines' /\ l.hash = x.head
        BY <2>2, <2>4, <2>5, Zenon
      <3>2. ChainIn(disk', lines', s) = Tells(x, l)
        BY <2>4, <2>5, <3>1, ChainTells
      <3> QED BY <2>4, <3>2, Zenon DEF Tells
    <2>7. ASSUME NEW t \in Sessions, t # s
          PROVE  ChainIn(disk', lines', t) = ChainIn(disk, lines, t)
      <3>1. SameSlot(disk, disk', t)
        BY <2>4, <2>5, <2>7, Zenon DEF Without, SameSlot
      <3>2. lines \subseteq lines'
        BY <2>2, Zenon
      <3> QED BY <2>5, <3>1, <3>2, SameChain
    <2>8. ChainsIn(disk', lines') = [ChainsIn(disk, lines) EXCEPT ![s] = new]
      BY <2>6, <2>7, Zenon DEF ChainsIn
    <2>9. UsedIn(lines') = UsedIn(lines) \cup {<<s, r.seg>>}
      BY <2>2, <2>4 DEF UsedIn
    <2>10. r.hash \in 1..MaxReceipts /\ r.seg \in 1..(MaxReceipts * MaxBoots)
      <3>1. /\ 1 <= r.hash /\ r.hash <= minted /\ minted <= MaxReceipts
            /\ 1 <= y.seg /\ y.seg <= mem.counter /\ mem.counter <= minted
            /\ minted \in Nat /\ mem.counter \in Nat
        BY <2>2, StoreFields, Zenon
           DEF FilesInv, FilesType, HashesAreOwn, SegmentsBounded, r
      <3>2. r.seg <= MaxReceipts /\ MaxReceipts \in Nat /\ MaxBoots \in Nat /\ MaxBoots >= 1
        BY <2>3, <2>4, <3>1 DEF SessionConstants
      <3>3. MaxReceipts <= MaxReceipts * MaxBoots /\ MaxReceipts * MaxBoots \in Nat
        BY <3>2
      <3> QED BY <2>3, <2>4, <3>1, <3>2, <3>3
    <2>11. CASE r.seq = 0
      <3>1. r.prev = NoReceipt /\ <<s, r.seg>> \notin UsedIn(lines)
        <4>1. y.head = NoReceipt /\ \A m \in lines : m.sid = y.sid => m.seg # y.seg
          BY <2>2, <2>3, <2>11, Zenon DEF FilesInv, MemoryOnDisk
        <4> QED BY <2>3, <4>1 DEF UsedIn
      <3>2. new = [seg |-> r.seg, seq |-> 1, head |-> r.hash, tail |-> NoReceipt]
        BY <2>11, <3>1, SMTT(20)
      <3> HIDE DEF new
      <3>3. Chains!Begin(s)
        BY <2>8, <2>9, <2>10, <3>1, <3>2, Mapped, SMTT(20) DEF Chains!Begin
      <3> QED BY <3>3, Zenon DEF Chains!DCNext
    <2>12. CASE r.seq # 0
      <3>1. y \in Slots(disk.live)
        <4>1. y.seq > 0
          BY <2>3, <2>4, <2>12
        <4> QED BY <2>2, <4>1, Zenon DEF FilesInv, MemoryOnDisk
      <3>2. PICK m \in lines : m.hash = y.head /\ m.sid = y.sid /\ m.seg = y.seg
        BY <2>5, <3>1, Zenon DEF Written
      <3>3. ChainIn(disk, lines, s) =
                [seg |-> r.seg, seq |-> r.seq, head |-> r.prev, tail |-> m.prev]
        <4>1. ChainIn(disk, lines, s) = Tells(y, m)
          BY <2>3, <2>5, <3>1, <3>2, ChainTells
        <4> QED BY <2>3, <4>1, Zenon DEF Tells
      <3>4. /\ ChainIn(disk, lines, s) # None
            /\ ChainIn(disk, lines, s).seg = r.seg /\ ChainIn(disk, lines, s).seq = r.seq
            /\ ChainIn(disk, lines, s).head = r.prev
        <4>1. r.prev \in Nat \cup {NoReceipt} /\ m.prev \in Nat \cup {NoReceipt}
          BY <2>2 DEF Prepared, FilesInv, FilesType, Line
        <4> QED BY <2>4, <3>3, <4>1 DEF SessionConstants
      <3>5. UsedIn(lines') = UsedIn(lines)
        <4>1. <<s, r.seg>> \in UsedIn(lines)
          BY <2>3, <3>2, Zenon DEF UsedIn
        <4> QED BY <2>9, <4>1, Zenon
      <3>6. ChainsIn(disk, lines)[s] = ChainIn(disk, lines, s)
        BY Zenon DEF ChainsIn
      <3>7. new = [seg |-> ChainsIn(disk, lines)[s].seg, seq |-> ChainsIn(disk, lines)[s].seq + 1,
                   head |-> r.hash, tail |-> ChainsIn(disk, lines)[s].head]
        BY <3>4, <3>6, Zenon
      <3> HIDE DEF new
      <3>8. Chains!Extend(s)
        BY <2>8, <2>10, <3>4, <3>5, <3>6, <3>7, Mapped DEF Chains!Extend
      <3> QED BY <3>8, Zenon DEF Chains!DCNext
    <2> QED BY <2>11, <2>12, Zenon
  <1> QED BY <1>1, <1>2, Zenon

(* The session files implement DurableChains over crashes, failed writes   *)
(* and restarts: a segment grows one receipt at a time, on the head of the *)
(* one before, and none is begun again (createFileSessionStore).           *)
THEOREM FilesImplementChains ==
    ASSUME SessionConstants
    PROVE  Spec => Chains!DCSpec
  <1>1. Init => Chains!DCInit
    <2> SUFFICES ASSUME Init PROVE Chains!DCInit
      BY Zenon
    <2>1. Written(disk, lines) /\ disk.live = <<>> /\ lines = {}
      <3>1. FilesInv
        BY FilesStart, Zenon
      <3>2. disk.live = <<>> /\ lines = {}
        BY DEF Init
      <3> QED BY <3>1, <3>2, FilesWritten, Zenon
    <2>2. \A s \in Sessions : ChainIn(disk, lines, s) = None
      <3>1. Slots(disk.live) = {}
        BY <2>1 DEF Slots
      <3> QED BY <2>1, <3>1, NoChain, Zenon
    <2>3. ChainsIn(disk, lines) = [s \in Sessions |-> None] /\ UsedIn(lines) = {}
      BY <2>1, <2>2 DEF ChainsIn, UsedIn
    <2> QED BY <2>3, Mapped, Zenon DEF Chains!DCInit
  <1>2. ASSUME FilesInv, FilesInv', [Next]_vars
        PROVE  [Chains!DCNext]_(Chains!dcVars)
    <2>1. ASSUME NEW s \in Sessions, NEW w, Peek(s, w), Evicted(s) # None
          PROVE  [Chains!DCNext]_(Chains!dcVars)
      <3>1. mem.live # <<>>
        BY <2>1, Zenon DEF Evicted
      <3>2. mem.live[1].sid \in Sessions
        BY <1>2, <3>1, OldestFacts, Zenon DEF FilesInv, FilesType
      <3>a. Evicted(s) \in Sessions
        BY <2>1, <3>2, Zenon DEF Evicted
      <3>3. AppendLine(w, FoldEnd(Evicted(s))) /\ lines' = lines
        BY <2>1, Zenon DEF Peek
      <3> QED BY <1>2, <3>a, <3>3, EndDrops, Zenon
    <2>2. ASSUME NEW s \in Sessions, NEW w, EndSession(s, w)
          PROVE  [Chains!DCNext]_(Chains!dcVars)
      BY <1>2, <2>2, EndDrops, Zenon DEF EndSession
    <2>3. ASSUME NEW w, SweepOldest(w)
          PROVE  [Chains!DCNext]_(Chains!dcVars)
      <3>1. mem.live[1].sid \in Sessions
        BY <1>2, <2>3, OldestFacts, Zenon DEF SweepOldest, FilesInv, FilesType
      <3> QED BY <1>2, <2>3, <3>1, EndDrops, Zenon DEF SweepOldest
    <2>4. ASSUME NEW s \in Sessions, NEW w, Commit(s, w)
          PROVE  [Chains!DCNext]_(Chains!dcVars)
      BY <1>2, <2>4, CommitExtends, Zenon
    <2>5. ASSUME UNCHANGED <<disk, lines>>
          PROVE  [Chains!DCNext]_(Chains!dcVars)
      <3>1. ChainsIn(disk', lines') = ChainsIn(disk, lines) /\ UsedIn(lines') = UsedIn(lines)
        BY <2>5, Zenon
      <3> QED BY <3>1, Mapped DEF Chains!dcVars
    <2>6. ASSUME NEW s \in Sessions, NEW w, Peek(s, w)
          PROVE  [Chains!DCNext]_(Chains!dcVars)
      <3>1. CASE Evicted(s) = None
        <4>1. UNCHANGED <<disk, lines>>
          BY <2>6, <3>1, Zenon DEF Peek
        <4> QED BY <2>5, <4>1, Zenon
      <3> QED BY <2>1, <2>6, <3>1, Zenon
    <2>7. \/ \E s \in Sessions, w \in Outcomes : Peek(s, w) \/ Commit(s, w) \/ EndSession(s, w)
          \/ \E w \in Outcomes : SweepOldest(w)
          \/ UNCHANGED <<disk, lines>>
      BY <1>2, Zenon DEF Next, vars, GiveUp, Stop, Boot
    <2> QED BY <2>2, <2>3, <2>4, <2>5, <2>6, <2>7, Zenon
  <1> QED BY <1>1, <1>2, FilesInvariance, PTL DEF Spec, Chains!DCSpec

-----------------------------------------------------------------------------
(* The grant signer.                                                       *)

Signer == INSTANCE GrantSidecar WITH
    now <- clock, count <- granted, up <- serving, torn <- tornEntry, boots <- starts

(* Every start has the same freshness window.                              *)
OneWindow == \A v, w \in Windows : v = w

(* Only approvals that exist are remembered or counted.                    *)
Approved ==
    \A h \in Holds : h \in seen \/ h \in journal \/ granted[h] > 0 => approval[h] # None

(* The strengthening.                                                      *)
SignerInv ==
    /\ Signer!TypeOK
    /\ Approved
    /\ Signer!SpentIsRecorded
    /\ Signer!ForgottenIsStale
    /\ Signer!OneGrantPerApproval

(* What prune drops is past the freshness window (prune, expiryFor).       *)
LEMMA PrunedIsStale ==
    ASSUME Signer!SidecarAssumption,
           NEW S, S \subseteq Holds, NEW w \in Windows, Signer!TypeOK,
           NEW h \in S, h \notin Signer!Pruned(S, w), approval[h] # None
    PROVE  clock - approval[h].at > w
<1>1. approval[h] \in Signer!Approvals
  BY Zenon DEF Signer!TypeOK
<1>2. ~(clock <= approval[h].at + w + Skew)
  BY Zenon DEF Signer!Pruned, Signer!expiryFor
<1> QED
  BY <1>1, <1>2, Signer!SidecarAssumption DEF Signer!Approvals, Signer!TypeOK

(* prune only drops (prune).                                               *)
LEMMA PrunedIsSubset ==
    ASSUME NEW S, NEW w
    PROVE  Signer!Pruned(S, w) \subseteq S
  BY Zenon DEF Signer!Pruned

(* The approvals are there once the sidecar starts with none.              *)
LEMMA SignerInit == Signer!Init => SignerInv
<1> SUFFICES ASSUME Signer!Init PROVE SignerInv
  BY Zenon
<1>1. \A h \in Holds : granted[h] = 0
  BY Zenon DEF Signer!Init
<1>2. Signer!TypeOK
  BY Zenon DEF Signer!Init, Signer!TypeOK
<1>3. Approved /\ Signer!SpentIsRecorded /\ Signer!ForgottenIsStale /\ Signer!OneGrantPerApproval
  BY <1>1 DEF Signer!Init, Approved, Signer!SpentIsRecorded, Signer!ForgottenIsStale,
              Signer!OneGrantPerApproval
<1> QED
  BY <1>2, <1>3, Zenon DEF SignerInv

(* A human approval changes no record and no count (Approve).              *)
LEMMA SignerApprove ==
    ASSUME Signer!SidecarAssumption,
           SignerInv, NEW h \in Holds, NEW p \in Params, NEW d \in Int,
           Signer!Approve(h, p, clock + d)
    PROVE  SignerInv'
<1>1. [params |-> p, at |-> clock + d, ends |-> clock + Lifetime] \in Signer!Approvals
  BY Signer!SidecarAssumption DEF Signer!Approvals, SignerInv, Signer!TypeOK
<1>2. [params |-> p, at |-> clock + d, ends |-> clock + Lifetime] # None
  BY <1>1, Signer!SidecarAssumption, Zenon DEF Signer!Approvals
<1>3. Signer!TypeOK'
  BY <1>1, Zenon DEF SignerInv, Signer!TypeOK, Signer!Approve
<1>4. \A g \in Holds : approval[g] # None => approval'[g] = approval[g]
  BY Zenon DEF SignerInv, Signer!TypeOK, Signer!Approve
<1>5. \A g \in Holds : granted[g] > 0 => approval'[g] = approval[g]
  BY <1>4, Zenon DEF SignerInv, Approved
<1>6. Approved'
  BY <1>2, <1>4, Zenon DEF SignerInv, Approved, Signer!Approve, Signer!TypeOK
<1>7. Signer!SpentIsRecorded'
  BY <1>5, Zenon DEF SignerInv, Signer!SpentIsRecorded, Signer!Approve
<1>8. Signer!ForgottenIsStale'
  BY <1>5, Zenon DEF SignerInv, Signer!ForgottenIsStale, Signer!Approve
<1>9. Signer!OneGrantPerApproval'
  BY Zenon DEF SignerInv, Signer!OneGrantPerApproval, Signer!Approve
<1> QED
  BY <1>3, <1>6, <1>7, <1>8, <1>9, Zenon DEF SignerInv

(* A claim that is refused, or an append that throws, grants nothing and   *)
(* forgets only what is stale (RefuseClaim, AppendThrows).                 *)
LEMMA SignerUngranted ==
    ASSUME Signer!SidecarAssumption,
           SignerInv, NEW r \in Signer!Requests, serving, Signer!Valid(r),
           UNCHANGED <<clock, approval, serving, window, starts, signed, granted>>,
           seen' = Signer!Pruned(seen, window),
           \/ UNCHANGED <<journal, tornEntry>>
           \/ Signer!WholeLine(r.receipt)
           \/ Signer!TornLine
    PROVE  SignerInv'
<1>1. r.receipt \in Holds /\ approval[r.receipt] # None
  BY Zenon DEF Signer!Requests, Signer!Valid
<1>2. seen' \subseteq seen
  BY PrunedIsSubset, Zenon
<1>3. journal \subseteq journal' /\ journal' \subseteq journal \cup {r.receipt}
  BY Zenon DEF Signer!WholeLine, Signer!TornLine
<1>4. tornEntry => tornEntry'
  BY Zenon DEF Signer!WholeLine, Signer!TornLine
<1>5. tornEntry' \in BOOLEAN
  BY Zenon DEF Signer!WholeLine, Signer!TornLine, SignerInv, Signer!TypeOK
<1>6. Signer!TypeOK'
  BY <1>1, <1>2, <1>3, <1>5, Zenon DEF SignerInv, Signer!TypeOK
<1>7. Approved'
  BY <1>1, <1>2, <1>3, Zenon DEF SignerInv, Approved
<1>8. Signer!SpentIsRecorded'
  BY <1>3, <1>4, Zenon DEF SignerInv, Signer!SpentIsRecorded
<1>9. Signer!ForgottenIsStale'
  <2> SUFFICES ASSUME NEW h \in Holds, granted[h] > 0, h \notin seen'
               PROVE  clock - approval[h].at > window
    BY Zenon DEF Signer!ForgottenIsStale
  <2>1. CASE h \in seen
    <3>1. approval[h] # None
      BY Zenon DEF SignerInv, Approved
    <3> QED
      BY <2>1, <3>1, PrunedIsStale, Zenon DEF SignerInv, Signer!TypeOK
  <2>2. CASE h \notin seen
    BY <2>2, Zenon DEF SignerInv, Signer!ForgottenIsStale
  <2> QED
    BY <2>1, <2>2, Zenon
<1>10. Signer!OneGrantPerApproval'
  BY Zenon DEF SignerInv, Signer!OneGrantPerApproval
<1> QED
  BY <1>6, <1>7, <1>8, <1>9, <1>10, Zenon DEF SignerInv

(* An approval that passes the freshness check and is not remembered was   *)
(* never granted (Fresh, Claims).                                          *)
LEMMA ClaimedIsUnspent ==
    ASSUME Signer!SidecarAssumption,
           SignerInv, NEW r \in Signer!Requests, serving, Signer!Valid(r), Signer!Claims(r.receipt)
    PROVE  granted[r.receipt] = 0
<1>1. r.receipt \in Holds /\ approval[r.receipt] # None
  BY Zenon DEF Signer!Requests, Signer!Valid
<1>2. approval[r.receipt] \in Signer!Approvals
  BY <1>1, Zenon DEF SignerInv, Signer!TypeOK
<1>3. clock - approval[r.receipt].at <= window
  BY Zenon DEF Signer!Valid, Signer!Fresh
<1>4. clock \in Nat /\ window \in Nat /\ approval[r.receipt].at \in Int
  BY <1>2, Signer!SidecarAssumption, Zenon DEF SignerInv, Signer!TypeOK, Signer!Approvals
<1>5. r.receipt \notin seen
  <2> SUFFICES ASSUME r.receipt \in seen PROVE FALSE
    BY Zenon
  <2>1. clock - approval[r.receipt].at > window
    BY <1>1, PrunedIsStale, Zenon DEF Signer!Claims, SignerInv, Signer!TypeOK
  <2> QED
    BY <2>1, <1>3, <1>4
<1>6. ~(granted[r.receipt] > 0)
  BY <1>1, <1>3, <1>4, <1>5 DEF SignerInv, Signer!ForgottenIsStale
<1> QED
  BY <1>1, <1>6 DEF SignerInv, Signer!TypeOK

(* The grant that leaves the process is recorded before it does            *)
(* (ClaimAndAnswer).                                                       *)
LEMMA SignerGranted ==
    ASSUME Signer!SidecarAssumption,
           SignerInv, NEW r \in Signer!Requests, serving, Signer!Valid(r), Signer!Claims(r.receipt),
           Signer!ClaimAndAnswer(r), UNCHANGED <<clock, approval, serving, window, starts>>
    PROVE  SignerInv'
<1> DEFINE x == r.receipt
<1>1. x \in Holds /\ approval[x] # None
  BY Zenon DEF Signer!Requests, Signer!Valid
<1>2. granted[x] = 0
  BY ClaimedIsUnspent, Zenon
<1>3. granted' = [granted EXCEPT ![x] = 1]
  BY <1>1, <1>2 DEF Signer!ClaimAndAnswer, SignerInv, Signer!TypeOK
<1>4. /\ granted' \in [Holds -> Nat] /\ granted'[x] = 1
      /\ \A h \in Holds \ {x} : granted'[h] = granted[h]
  BY <1>1, <1>3, Zenon DEF SignerInv, Signer!TypeOK
<1>5. Signer!Pruned(seen, window) \subseteq seen
  BY PrunedIsSubset, Zenon
<1>6. seen' = Signer!Pruned(seen, window) \cup {x}
  BY Zenon DEF Signer!ClaimAndAnswer
<1>7. \/ journal' = journal \cup {x} /\ tornEntry' = tornEntry
      \/ tornEntry' = TRUE /\ journal' = journal
  BY Zenon DEF Signer!ClaimAndAnswer, Signer!WholeLine, Signer!TornLine
<1>8. Signer!TypeOK'
  BY <1>1, <1>4, <1>5, <1>6, <1>7, Zenon DEF SignerInv, Signer!TypeOK
<1>9. Approved'
  BY <1>1, <1>4, <1>5, <1>6, <1>7, Zenon DEF SignerInv, Approved
<1>10. Signer!SpentIsRecorded'
  BY <1>1, <1>4, <1>7 DEF SignerInv, Signer!SpentIsRecorded
<1>11. Signer!ForgottenIsStale'
  <2> SUFFICES ASSUME NEW h \in Holds, granted'[h] > 0, h \notin seen'
               PROVE  clock - approval[h].at > window
    BY Zenon DEF Signer!ForgottenIsStale
  <2>1. h # x /\ granted[h] > 0
    BY <1>4, <1>6, Zenon
  <2>2. CASE h \in seen
    <3>1. approval[h] # None
      BY <2>1, Zenon DEF SignerInv, Approved
    <3> QED
      BY <2>2, <3>1, <1>6, PrunedIsStale, Zenon DEF SignerInv, Signer!TypeOK
  <2>3. CASE h \notin seen
    BY <2>1, <2>3, Zenon DEF SignerInv, Signer!ForgottenIsStale
  <2> QED
    BY <2>2, <2>3, Zenon
<1>12. Signer!OneGrantPerApproval'
  BY <1>1, <1>4 DEF SignerInv, Signer!OneGrantPerApproval
<1> QED
  BY <1>8, <1>9, <1>10, <1>11, <1>12, Zenon DEF SignerInv

(* A crash after the append spends the approval without a grant, and a     *)
(* stop forgets only memory (CrashInClaim, Stop).                          *)
LEMMA SignerDown ==
    ASSUME SignerInv, Signer!Stop \/ \E r \in Signer!Requests : Signer!CrashInClaim(r)
    PROVE  SignerInv'
<1>1. /\ UNCHANGED <<clock, approval, window, signed, granted>>
      /\ serving' = FALSE /\ seen' = {}
  BY Zenon DEF Signer!Stop, Signer!CrashInClaim
<1>2. journal \subseteq journal' /\ (tornEntry => tornEntry') /\ tornEntry' \in BOOLEAN
  BY Zenon DEF Signer!Stop, Signer!CrashInClaim, Signer!WholeLine, Signer!TornLine, SignerInv, Signer!TypeOK
<1>3. \A h \in journal' : h \in Holds /\ approval[h] # None
  BY Zenon DEF Signer!Stop, Signer!CrashInClaim, Signer!WholeLine, Signer!TornLine, SignerInv,
         Signer!TypeOK, Approved,
         Signer!Valid, Signer!Requests
<1>4. Signer!TypeOK'
  BY <1>1, <1>2, <1>3, Zenon DEF SignerInv, Signer!TypeOK
<1>5. Approved'
  BY <1>1, <1>3, Zenon DEF SignerInv, Approved
<1>6. Signer!SpentIsRecorded'
  BY <1>1, <1>2, Zenon DEF SignerInv, Signer!SpentIsRecorded
<1>7. Signer!ForgottenIsStale' /\ Signer!OneGrantPerApproval'
  BY <1>1, Zenon DEF SignerInv, Signer!ForgottenIsStale, Signer!OneGrantPerApproval
<1> QED
  BY <1>4, <1>5, <1>6, <1>7, Zenon DEF SignerInv

(* A start under the same window remembers every spent approval that is    *)
(* not stale (load, compact).                                              *)
LEMMA SignerBoot ==
    ASSUME Signer!SidecarAssumption,
           OneWindow, SignerInv, NEW w \in Windows, NEW renamed \in BOOLEAN,
           Signer!Boot(w, renamed)
    PROVE  SignerInv'
<1>1. w = window /\ window' = window
  BY Zenon DEF OneWindow, SignerInv, Signer!TypeOK, Signer!Boot
<1>2. UNCHANGED <<clock, approval, tornEntry, signed, granted>> /\ ~tornEntry
  BY Zenon DEF Signer!Boot
<1>3. Signer!Loaded(w) = Signer!Pruned(journal, w) /\ Signer!Pruned(journal, w) \subseteq journal
  BY PrunedIsSubset, Zenon DEF Signer!Loaded
<1>4. seen' \subseteq journal /\ journal' \subseteq journal
  BY <1>3, Zenon DEF Signer!Boot
<1>5. Signer!TypeOK'
  BY <1>1, <1>2, <1>4, Zenon DEF SignerInv, Signer!TypeOK, Signer!Boot
<1>6. Approved'
  BY <1>2, <1>4, Zenon DEF SignerInv, Approved
<1>7. ASSUME NEW h \in Holds, granted[h] > 0, h \notin Signer!Loaded(w)
      PROVE  clock - approval[h].at > window
  <2>1. approval[h] # None
    BY <1>7, Zenon DEF SignerInv, Approved
  <2>2. CASE h \in journal
    BY <2>1, <2>2, <1>1, <1>3, <1>7, PrunedIsStale, Zenon DEF SignerInv, Signer!TypeOK
  <2>3. CASE h \notin journal
    BY <2>3, <1>2, <1>7, Zenon DEF SignerInv, Signer!SpentIsRecorded
  <2> QED
    BY <2>2, <2>3, Zenon
<1>8. Signer!SpentIsRecorded'
  BY <1>1, <1>2, <1>7, Zenon DEF SignerInv, Signer!SpentIsRecorded, Signer!Boot
<1>9. Signer!ForgottenIsStale'
  BY <1>1, <1>2, <1>7, Zenon DEF Signer!ForgottenIsStale, Signer!Boot
<1>10. Signer!OneGrantPerApproval'
  BY <1>2, Zenon DEF SignerInv, Signer!OneGrantPerApproval
<1> QED
  BY <1>5, <1>6, <1>8, <1>9, <1>10, Zenon DEF SignerInv

(* Time only makes approvals older (Tick).                                 *)
LEMMA SignerTick ==
    ASSUME Signer!SidecarAssumption, SignerInv, Signer!Tick
    PROVE  SignerInv'
<1>1. /\ clock \in Nat /\ clock' = clock + 1 /\ window \in Nat
      /\ UNCHANGED <<approval, serving, window, seen, journal, tornEntry, signed, granted>>
  BY Signer!SidecarAssumption, Zenon DEF Signer!Tick, SignerInv, Signer!TypeOK
<1>2. \A h \in Holds : granted[h] > 0 => approval[h].at \in Int
  BY Zenon DEF SignerInv, Approved, Signer!TypeOK, Signer!Approvals
<1>3. Signer!TypeOK' /\ Approved' /\ Signer!OneGrantPerApproval'
  BY <1>1 DEF SignerInv, Signer!TypeOK, Approved, Signer!OneGrantPerApproval
<1>4. Signer!SpentIsRecorded'
  BY <1>1, <1>2 DEF SignerInv, Signer!SpentIsRecorded
<1>5. Signer!ForgottenIsStale'
  BY <1>1, <1>2 DEF SignerInv, Signer!ForgottenIsStale
<1> QED
  BY <1>3, <1>4, <1>5, Zenon DEF SignerInv

(* The invariant is inductive.                                             *)
LEMMA SignerNext ==
    ASSUME Signer!SidecarAssumption, OneWindow, SignerInv, [Signer!Next]_(Signer!vars)
    PROVE  SignerInv'
<1>1. CASE UNCHANGED Signer!vars
  BY <1>1, Zenon DEF Signer!vars, SignerInv, Signer!TypeOK, Approved, Signer!SpentIsRecorded,
              Signer!ForgottenIsStale, Signer!OneGrantPerApproval
<1>2. CASE \E h \in Holds, p \in Params, d \in (-Skew)..Skew :
               Signer!Approve(h, p, clock + d)
  BY <1>2, SignerApprove, Signer!SidecarAssumption
<1>3. ASSUME NEW r \in Signer!Requests, Signer!SignGrant(r) PROVE SignerInv'
  <2>1. serving /\ Signer!Valid(r) /\ UNCHANGED <<clock, approval, serving, window, starts>>
    BY <1>3, Zenon DEF Signer!SignGrant
  <2>2. CASE Signer!RefuseClaim
    BY <2>1, <2>2, SignerUngranted, Zenon DEF Signer!RefuseClaim
  <2>3. CASE Signer!AppendThrows(r)
    BY <2>1, <2>3, SignerUngranted, Zenon DEF Signer!AppendThrows
  <2>4. CASE Signer!Claims(r.receipt) /\ Signer!ClaimAndAnswer(r)
    BY <2>1, <2>4, SignerGranted, Zenon
  <2> QED
    BY <1>3, <2>2, <2>3, <2>4, Zenon DEF Signer!SignGrant
<1>4. CASE Signer!Stop \/ \E r \in Signer!Requests : Signer!CrashInClaim(r)
  BY <1>4, SignerDown, Zenon
<1>5. CASE \E w \in Windows, renamed \in BOOLEAN : Signer!Boot(w, renamed)
  BY <1>5, SignerBoot, Zenon
<1>6. CASE Signer!Tick
  BY <1>6, SignerTick, Zenon
<1> QED
  BY <1>1, <1>2, <1>3, <1>4, <1>5, <1>6, Zenon DEF Signer!Next

(* One human decision authorizes one grant, over every crash, torn append  *)
(* and restart, when all starts share one freshness window                 *)
(* (ApprovalReplayStore).                                                  *)
THEOREM GrantedOnce ==
    ASSUME Signer!SidecarAssumption, OneWindow
    PROVE  Signer!Spec => []Signer!OneGrantPerApproval
<1>1. SignerInv /\ [Signer!Next]_(Signer!vars) => SignerInv'
  BY SignerNext, Zenon
<1>2. SignerInv => Signer!OneGrantPerApproval
  BY Zenon DEF SignerInv
<1> QED
  BY SignerInit, <1>1, <1>2, PTL DEF Signer!Spec

(* A spent approval that is still fresh is remembered by the running       *)
(* process (prune, load, compact).                                         *)
THEOREM ForgottenStale ==
    ASSUME Signer!SidecarAssumption, OneWindow
    PROVE  Signer!Spec => []Signer!ForgottenIsStale
<1>1. SignerInv /\ [Signer!Next]_(Signer!vars) => SignerInv'
  BY SignerNext, Zenon
<1>2. SignerInv => Signer!ForgottenIsStale
  BY Zenon DEF SignerInv
<1> QED
  BY SignerInit, <1>1, <1>2, PTL DEF Signer!Spec

(* What a signed grant names, in terms the steps preserve.                 *)
SignedInv ==
    /\ approval \in [Holds -> Signer!Approvals \cup {None}]
    /\ \A g \in signed : g.hold \in Holds
    /\ Signer!GrantIsApproved

(* A grant is signed from one approval, whose record no step changes       *)
(* (validateGrantRequest).                                                 *)
LEMMA NextSigned ==
    ASSUME Signer!SidecarAssumption, SignedInv, clock \in Int, [Signer!Next]_(Signer!vars)
    PROVE  SignedInv'
<1>1. CASE \E h \in Holds, p \in Params, d \in (-Skew)..Skew :
               Signer!Approve(h, p, clock + d)
  <2>1. PICK h \in Holds, p \in Params, d \in (-Skew)..Skew :
               Signer!Approve(h, p, clock + d)
    BY <1>1, Zenon
  <2>2. [params |-> p, at |-> clock + d, ends |-> clock + Lifetime] \in Signer!Approvals
    BY Signer!SidecarAssumption DEF Signer!Approvals
  <2>3. approval' \in [Holds -> Signer!Approvals \cup {None}]
    BY <2>1, <2>2, Zenon DEF SignedInv, Signer!Approve
  <2>4. \A g \in Holds : approval[g] # None => approval'[g] = approval[g]
    BY <2>1, Zenon DEF SignedInv, Signer!Approve
  <2>5. signed' = signed
    BY <2>1, Zenon DEF Signer!Approve
  <2> QED
    BY <2>3, <2>4, <2>5, Zenon DEF SignedInv, Signer!GrantIsApproved
<1>2. ASSUME NEW r \in Signer!Requests, Signer!SignGrant(r) PROVE SignedInv'
  <2>1. approval' = approval /\ (signed' = signed \/ signed' = signed \cup {Signer!Signs(r)})
    BY <1>2, Zenon DEF Signer!SignGrant, Signer!RefuseClaim, Signer!ClaimAndAnswer, Signer!AppendThrows
  <2>2. r.hold \in Holds
    BY Zenon DEF Signer!Requests
  <2>3. /\ approval[r.hold] # None /\ r.ref = r.hold
        /\ r.params = approval[r.hold].params
    BY <1>2, Zenon DEF Signer!SignGrant, Signer!Valid, Signer!OneHold, Signer!Bound
  <2> QED
    BY <2>1, <2>2, <2>3 DEF SignedInv, Signer!GrantIsApproved, Signer!Signs
<1>3. CASE UNCHANGED <<approval, signed>>
  BY <1>3, Zenon DEF SignedInv, Signer!GrantIsApproved
<1> QED
  BY <1>1, <1>2, <1>3, Zenon
  DEF Signer!Next, Signer!vars, Signer!CrashInClaim, Signer!Stop, Signer!Boot, Signer!Tick

(* The parameters, the hold and the approval a signed grant names are the  *)
(* ones of one human approval, whatever parts a request is made of         *)
(* (validateGrantRequest).                                                 *)
THEOREM SignedIsApproved ==
    ASSUME Signer!SidecarAssumption
    PROVE  Signer!Spec => []Signer!GrantIsApproved
<1> DEFINE Inv == SignedInv /\ clock \in Int
<1>1. Signer!Init => Inv
  BY DEF Signer!Init, SignedInv, Signer!GrantIsApproved
<1>2. Inv /\ [Signer!Next]_(Signer!vars) => Inv'
  <2> SUFFICES ASSUME Inv, [Signer!Next]_(Signer!vars) PROVE Inv'
    BY Zenon
  <2>1. SignedInv'
    BY NextSigned, Zenon
  <2>2. clock' \in Int
    BY DEF Signer!Next, Signer!vars, Signer!Approve, Signer!SignGrant, Signer!CrashInClaim,
           Signer!Stop, Signer!Boot, Signer!Tick
  <2> QED
    BY <2>1, <2>2, Zenon
<1>3. Inv => Signer!GrantIsApproved
  BY Zenon DEF SignedInv
<1> QED
  BY <1>1, <1>2, <1>3, PTL DEF Signer!Spec
=============================================================================
