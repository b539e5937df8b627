--------------------------- MODULE RingArithmetic ---------------------------
(***************************************************************************)
(* Arithmetic modulo the size of a ring, for the proofs about the rings of *)
(* sys/event.c and core/lib/ringbuf.c and about what is built on them, and *)
(* the least element of a set of numbers, for searches.                    *)
(***************************************************************************)
EXTENDS Integers, Sequences, WellFoundedInduction, TLAPS

\* An index of event_post, queue_remove or ringbuf_put wraps at most once.
LEMMA WrapOnce ==
  ASSUME NEW n \in Nat \ {0}, NEW a \in 0 .. n - 1, NEW b \in 0 .. n
  PROVE  /\ (a + b) % n = IF a + b < n THEN a + b ELSE a + b - n
         /\ (a + b) % n \in 0 .. n - 1
BY SMT

\* Different distances from the oldest slot are different slots.
LEMMA SlotsDiffer ==
  ASSUME NEW n \in Nat \ {0}, NEW a \in 0 .. n - 1,
         NEW b \in 0 .. n - 1, NEW c \in 0 .. n - 1, b # c
  PROVE  (a + b) % n # (a + c) % n
<1>1. /\ (a + b) % n = IF a + b < n THEN a + b ELSE a + b - n
      /\ (a + c) % n = IF a + c < n THEN a + c ELSE a + c - n
  BY WrapOnce, b \in 0 .. n, c \in 0 .. n
<1> QED
  BY <1>1

\* Removing the oldest entry shifts every distance by one.
LEMMA StartAdvances ==
  ASSUME NEW n \in Nat \ {0}, NEW a \in 0 .. n - 1, NEW b \in 0 .. n - 1
  PROVE  (((a + 1) % n) + b) % n = (a + (b + 1)) % n
<1>1. /\ (a + 1) % n = IF a + 1 < n THEN a + 1 ELSE 0
      /\ (a + 1) % n \in 0 .. n - 1
  <2>1. 1 \in 0 .. n
    OBVIOUS
  <2>2. (a + 1) % n = IF a + 1 < n THEN a + 1 ELSE a + 1 - n
    BY <2>1, WrapOnce
  <2> QED
    BY <2>2
<1>2. (((a + 1) % n) + b) % n
        = IF ((a + 1) % n) + b < n THEN ((a + 1) % n) + b ELSE ((a + 1) % n) + b - n
  BY <1>1, WrapOnce, b \in 0 .. n
<1>3. (a + (b + 1)) % n
        = IF a + (b + 1) < n THEN a + (b + 1) ELSE a + (b + 1) - n
  BY WrapOnce, b + 1 \in 0 .. n
<1> QED
  BY <1>1, <1>2, <1>3

\* The slot behind the one at a distance is the one at the next distance.
LEMMA NextSlot ==
  ASSUME NEW n \in Nat \ {0}, NEW a \in 0 .. n - 1, NEW b \in 0 .. n - 1
  PROVE  (((a + b) % n) + 1) % n = (a + (b + 1)) % n
<1>1. /\ (a + b) % n = IF a + b < n THEN a + b ELSE a + b - n
      /\ (a + b) % n \in 0 .. n - 1
  BY WrapOnce, b \in 0 .. n
<1>2. (((a + b) % n) + 1) % n = IF ((a + b) % n) + 1 < n THEN ((a + b) % n) + 1 ELSE ((a + b) % n) + 1 - n
  BY <1>1, WrapOnce, 1 \in 0 .. n
<1>3. (a + (b + 1)) % n = IF a + (b + 1) < n THEN a + (b + 1) ELSE a + (b + 1) - n
  BY WrapOnce, b + 1 \in 0 .. n
<1> QED
  BY <1>1, <1>2, <1>3

\* How far index a lies ahead of index b.
LEMMA DistanceWraps ==
  ASSUME NEW n \in Nat \ {0}, NEW a \in 0 .. n - 1, NEW b \in 0 .. n - 1
  PROVE  /\ (a - b) % n = IF a >= b THEN a - b ELSE a - b + n
         /\ (a - b) % n \in 0 .. n - 1
BY SMT

\* Moving the front index by one makes the ring one longer, unless it was full.
LEMMA FrontAdvances ==
  ASSUME NEW n \in Nat \ {0}, NEW a \in 0 .. n - 1, NEW b \in 0 .. n - 1,
         (a - b) % n # n - 1
  PROVE  /\ (a + 1) % n \in 0 .. n - 1
         /\ (((a + 1) % n) - b) % n = ((a - b) % n) + 1
<1>1. /\ (a + 1) % n = IF a + 1 < n THEN a + 1 ELSE 0
      /\ (a + 1) % n \in 0 .. n - 1
  <2>1. 1 \in 0 .. n
    OBVIOUS
  <2>2. (a + 1) % n = IF a + 1 < n THEN a + 1 ELSE a + 1 - n
    BY <2>1, WrapOnce
  <2> QED
    BY <2>2
<1>2. (a - b) % n = IF a >= b THEN a - b ELSE a - b + n
  BY DistanceWraps
<1>3. (((a + 1) % n) - b) % n
        = IF ((a + 1) % n) >= b THEN ((a + 1) % n) - b ELSE ((a + 1) % n) - b + n
  BY <1>1, DistanceWraps
<1> QED
  BY <1>1, <1>2, <1>3

\* Moving the back index by one makes the ring one shorter, unless it was empty.
LEMMA BackAdvances ==
  ASSUME NEW n \in Nat \ {0}, NEW a \in 0 .. n - 1, NEW b \in 0 .. n - 1,
         (a - b) % n # 0
  PROVE  /\ (b + 1) % n \in 0 .. n - 1
         /\ (a - ((b + 1) % n)) % n = ((a - b) % n) - 1
<1>1. /\ (b + 1) % n = IF b + 1 < n THEN b + 1 ELSE 0
      /\ (b + 1) % n \in 0 .. n - 1
  <2>1. 1 \in 0 .. n
    OBVIOUS
  <2>2. (b + 1) % n = IF b + 1 < n THEN b + 1 ELSE b + 1 - n
    BY <2>1, WrapOnce
  <2> QED
    BY <2>2
<1>2. (a - b) % n = IF a >= b THEN a - b ELSE a - b + n
  BY DistanceWraps
<1>3. (a - ((b + 1) % n)) % n
        = IF a >= ((b + 1) % n) THEN a - ((b + 1) % n) ELSE a - ((b + 1) % n) + n
  BY <1>1, DistanceWraps
<1> QED
  BY <1>1, <1>2, <1>3

\* The slot as far ahead of the back index as the ring is long is the front.
LEMMA FrontOfRing ==
  ASSUME NEW n \in Nat \ {0}, NEW a \in 0 .. n - 1, NEW b \in 0 .. n - 1
  PROVE  (b + ((a - b) % n)) % n = a
<1> DEFINE d == (a - b) % n
<1>1. /\ d = IF a >= b THEN a - b ELSE a - b + n
      /\ d \in 0 .. n
  BY DistanceWraps
<1> HIDE DEF d
<1>2. (b + d) % n = IF b + d < n THEN b + d ELSE b + d - n
  BY <1>1, WrapOnce
<1>3. (b + d) % n = a
  BY <1>1, <1>2
<1> QED
  BY <1>3 DEF d

-----------------------------------------------------------------------------
(***************************************************************************)
(* The ring q of n slots read as a sequence: l entries from slot s on.     *)
(***************************************************************************)
RingEntries(q, s, l, n) == [i \in 1 .. l |-> q[(s + (i - 1)) % n]]

\* The entries form a sequence.
LEMMA EntriesAreSequence ==
  ASSUME NEW n \in Nat \ {0}, NEW s \in 0 .. n - 1, NEW l \in 0 .. n,
         NEW E, NEW q,
         \A i \in 1 .. l : q[(s + (i - 1)) % n] \in E
  PROVE  /\ RingEntries(q, s, l, n) \in Seq(E)
         /\ Len(RingEntries(q, s, l, n)) = l
         /\ \A i \in 1 .. l :
              RingEntries(q, s, l, n)[i] = q[(s + (i - 1)) % n]
BY DEF RingEntries

\* The first of them is the one at s.
LEMMA OldestEntry ==
  ASSUME NEW n \in Nat \ {0}, NEW s \in 0 .. n - 1, NEW l \in 1 .. n, NEW q
  PROVE  RingEntries(q, s, l, n)[1] = q[s]
<1>1. (s + 0) % n = s
  <2>1. 0 \in 0 .. n /\ s + 0 = s /\ s < n
    OBVIOUS
  <2> QED
    BY <2>1, WrapOnce
<1>2. 1 \in 1 .. l /\ 1 - 1 = 0
  OBVIOUS
<1> QED
  BY <1>1, <1>2 DEF RingEntries

\* Writing behind the youngest entry appends.
WriteAppended(q, s, l, n, D, E, e) ==
  LET r == [q EXCEPT ![(s + l) % n] = e]
  IN  /\ r \in [0 .. n - 1 -> D]
      /\ \A i \in 1 .. l + 1 : r[(s + (i - 1)) % n] \in E
      /\ RingEntries(r, s, l + 1, n) = Append(RingEntries(q, s, l, n), e)

LEMMA WriteAppends ==
  ASSUME NEW n \in Nat \ {0}, NEW s \in 0 .. n - 1, NEW l \in 0 .. n - 1,
         NEW D, NEW q \in [0 .. n - 1 -> D], NEW E, NEW e \in E, e \in D,
         \A i \in 1 .. l : q[(s + (i - 1)) % n] \in E
  PROVE  WriteAppended(q, s, l, n, D, E, e)
<1> DEFINE r == [q EXCEPT ![(s + l) % n] = e]
           w == RingEntries(q, s, l, n)
           v == RingEntries(r, s, l + 1, n)
<1>1. r \in [0 .. n - 1 -> D]
  OBVIOUS
<1>2. (s + l) % n \in 0 .. n - 1
  BY WrapOnce, l \in 0 .. n
<1>3. r[(s + l) % n] = e
  BY <1>2
<1>4. ASSUME NEW i \in 1 .. l
      PROVE  r[(s + (i - 1)) % n] = q[(s + (i - 1)) % n]
  <2>1. i - 1 \in 0 .. n - 1 /\ i - 1 # l /\ i - 1 \in 0 .. n
    OBVIOUS
  <2>2. (s + (i - 1)) % n # (s + l) % n
    BY <2>1, SlotsDiffer
  <2>3. (s + (i - 1)) % n \in 0 .. n - 1
    BY <2>1, WrapOnce
  <2> QED
    BY <2>2, <2>3
<1>5. (l + 1) - 1 = l
  OBVIOUS
<1>6. \A i \in 1 .. l + 1 : r[(s + (i - 1)) % n] \in E
  <2>1. TAKE i \in 1 .. l + 1
  <2>2. CASE i = l + 1
    BY <1>3, <1>5, <2>2
  <2>3. CASE i # l + 1
    BY <1>4, <2>3, i \in 1 .. l
  <2> QED
    BY <2>2, <2>3
<1>7. /\ w \in Seq(E) /\ Len(w) = l
      /\ \A i \in 1 .. l : w[i] = q[(s + (i - 1)) % n]
  BY DEF RingEntries
<1> HIDE DEF r
<1>8. /\ v \in Seq(E) /\ Len(v) = l + 1
      /\ \A i \in 1 .. l + 1 : v[i] = r[(s + (i - 1)) % n]
  BY <1>6 DEF RingEntries
<1> HIDE DEF w, v
<1>9. \A i \in 1 .. l : v[i] = w[i]
  BY <1>4, <1>7, <1>8, \A i \in 1 .. l : i \in 1 .. l + 1
<1>10. v[l + 1] = e
  BY <1>3, <1>5, <1>8, l + 1 \in 1 .. l + 1
<1>11. v = Append(w, e)
  BY <1>7, <1>8, <1>9, <1>10
<1> QED
  BY <1>1, <1>6, <1>11 DEF v, w, r, WriteAppended

\* Advancing the start drops the head.
HeadDropped(q, s, l, n, E) ==
  LET t == (s + 1) % n
  IN  /\ t \in 0 .. n - 1
      /\ \A i \in 1 .. l - 1 : q[(t + (i - 1)) % n] \in E
      /\ RingEntries(q, t, l - 1, n) = Tail(RingEntries(q, s, l, n))

LEMMA AdvanceDropsHead ==
  ASSUME NEW n \in Nat \ {0}, NEW s \in 0 .. n - 1, NEW l \in 1 .. n,
         NEW E, NEW q,
         \A i \in 1 .. l : q[(s + (i - 1)) % n] \in E
  PROVE  HeadDropped(q, s, l, n, E)
<1> DEFINE t == (s + 1) % n
           w == RingEntries(q, s, l, n)
           v == RingEntries(q, t, l - 1, n)
<1>1. t \in 0 .. n - 1
  BY WrapOnce, 1 \in 0 .. n
<1>2. ASSUME NEW i \in 1 .. l - 1
      PROVE  /\ i + 1 \in 1 .. l
             /\ (t + (i - 1)) % n = (s + ((i + 1) - 1)) % n
  <2>1. i - 1 \in 0 .. n - 1 /\ (i - 1) + 1 = (i + 1) - 1
    OBVIOUS
  <2>2. (t + (i - 1)) % n = (s + ((i - 1) + 1)) % n
    BY <2>1, StartAdvances
  <2> QED
    BY <2>1, <2>2
<1> HIDE DEF t
<1>3. \A i \in 1 .. l - 1 : q[(t + (i - 1)) % n] \in E
  BY <1>2
<1>4. /\ w \in Seq(E) /\ Len(w) = l
      /\ \A i \in 1 .. l : w[i] = q[(s + (i - 1)) % n]
  BY DEF RingEntries
<1>5. /\ v \in Seq(E) /\ Len(v) = l - 1
      /\ \A i \in 1 .. l - 1 : v[i] = q[(t + (i - 1)) % n]
  BY <1>3 DEF RingEntries
<1> HIDE DEF w, v
<1>6. \A i \in 1 .. l - 1 : v[i] = w[i + 1]
  BY <1>2, <1>4, <1>5
<1>7. /\ Tail(w) \in Seq(E) /\ Len(Tail(w)) = l - 1
      /\ \A i \in 1 .. l - 1 : Tail(w)[i] = w[i + 1]
  BY <1>4
<1>8. v = Tail(w)
  BY <1>5, <1>6, <1>7
<1> QED
  BY <1>1, <1>3, <1>8 DEF v, w, t, HeadDropped

-----------------------------------------------------------------------------
\* Every set of natural numbers but the empty one has a least element.
LEMMA LeastElement ==
  ASSUME NEW S \in SUBSET Nat, S # {}
  PROVE  \E m \in S : \A k \in S : m <= k
<1>1. PICK m \in S : \A k \in S : ~ (<<k, m>> \in OpToRel(<, Nat))
  BY NatLessThanWellFounded, WFMin
<1>2. \A k \in S : ~ (k < m)
  BY <1>1 DEF OpToRel
<1> QED
  BY <1>2
=============================================================================
