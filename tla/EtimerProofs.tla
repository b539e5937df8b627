---------------------------- MODULE EtimerProofs ----------------------------
(***************************************************************************)
(* Proofs about the event timers of core/sys/etimer.c, for every clock,    *)
(* every set of timers, processes and intervals.                           *)
(*                                                                         *)
(* That they do what TimerService says needs no more than that the clock   *)
(* tells the age of a timer.  That none is overlooked needs the cached     *)
(* expiration to lie before that of each timer on the list, and not by     *)
(* more than its interval: then MAX_TICKS, half the range, tells a cached  *)
(* expiration that has passed from one that has not.                       *)
(***************************************************************************)
EXTENDS Etimer, RingArithmetic, FiniteSetTheorems, SequenceTheorems

\* No timer comes twice.
Once(l) == \A i, j \in DOMAIN l : l[i] = l[j] => i = j
Members(l) == {l[i] : i \in DOMAIN l}

Event == [to : Process \cup {PROCESS_NONE}, et : Timer]

TimersTyped ==
  /\ count \in Clock
  /\ start \in [Timer -> Clock]
  /\ interval \in [Timer -> Interval \cup {0}]
  /\ p \in [Timer -> Process \cup {PROCESS_NONE}]
  /\ timerlist \in Seq(Timer)
  /\ next_expiration \in Clock
  /\ polled \in BOOLEAN
  /\ scan \in 0 .. Len(timerlist) + 1
  /\ events \in Seq(Event) /\ Len(events) <= NumEvents
  /\ alive \subseteq Process
  /\ age \in [Timer -> 0 .. MaxAge]

\* Who owns a timer, on the list and off it.
OwnersKept ==
  /\ Once(timerlist)
  /\ \A t \in Listed : p[t] = User[t] /\ User[t] \in alive
  /\ \A t \in Timer \ Listed : p[t] \in Mortal \cup {PROCESS_NONE}

\* The clock tells a, the age of a timer that was started at s.
Tells(now, s, a) == Wrap(now - s) = Wrap(a)

\* It tells the ages that are of use: of a timer on the list until the history is
\* full, of another as long as it may be reset.
AgesTold ==
  \A t \in Timer :
    \/ Tells(count, start[t], age[t])
    \/ t \in Listed /\ age[t] = MaxAge
    \/ t \notin Listed /\ (interval[t] = 0 \/ age[t] > interval[t] + MaxLag)

IInv == TimersTyped /\ OwnersKept /\ AgesTold

\* No timer stays on the list for long after it was due,
AgesBounded == \A t \in Listed : age[t] < interval[t] + MaxLag + MaxCatchUp

\* and the cached expiration does not lie behind one that is still to come, nor
\* before it by more than its interval.
IsCached(t, st, iv, a, next) == a < iv => Wrap(st + iv - next) <= iv
Cached == \A t \in Listed : IsCached(t, start[t], interval[t], age[t], next_expiration)

WatchInv == IInv /\ AgesBounded /\ Cached /\ DueTimerNoticed

-----------------------------------------------------------------------------
(***************************************************************************)
(* Congruence modulo the range of the clock.                               *)
(***************************************************************************)
LEMMA Remainder ==
  ASSUME NEW n \in Nat \ {0}, NEW a \in Int
  PROVE  /\ a % n \in 0 .. n - 1
         /\ \E q \in Int : a = q * n + (a % n)
<1>1. a % n \in 0 .. n - 1 /\ a = (a \div n) * n + (a % n) /\ a \div n \in Int
  BY SMT
<1> QED BY <1>1

LEMMA SameRemainder ==
  ASSUME NEW n \in Nat \ {0}, NEW a \in 0 .. n - 1, NEW b \in 0 .. n - 1,
         NEW q \in Int, a = q * n + b
  PROVE  a = b
<1>1. CASE q = 0
  BY <1>1
<1>2. CASE q >= 1
  <2>1. PICK r \in Nat : q = r + 1
    <3>1. q - 1 \in Nat /\ q = (q - 1) + 1
      BY <1>2
    <3> QED BY <3>1
  <2>2. q * n = r * n + n /\ r * n \in Nat
    BY <2>1
  <2> QED BY <2>2
<1>3. CASE q <= -1
  <2>1. PICK r \in Nat : q = -(r + 1)
    <3>1. -q - 1 \in Nat /\ q = -((-q - 1) + 1)
      BY <1>3
    <3> QED BY <3>1
  <2>2. q * n = -(r * n) - n /\ r * n \in Nat
    BY <2>1
  <2> QED BY <2>2
<1> QED BY <1>1, <1>2, <1>3

\* Numbers that differ by a multiple of the range are the same clock time.
LEMMA Congruent ==
  ASSUME NEW n \in Nat \ {0}, NEW a \in Int, NEW b \in Int, NEW q \in Int,
         a = b + q * n
  PROVE  a % n = b % n
<1>1. PICK r \in Int : a = r * n + (a % n)
  BY Remainder
<1>2. PICK s \in Int : b = s * n + (b % n)
  BY Remainder
<1>3. a % n \in 0 .. n - 1 /\ b % n \in 0 .. n - 1
  BY Remainder
<1> DEFINE c == a % n
           d == b % n
<1> HIDE DEF c, d
<1>4. c = (s + q - r) * n + d /\ s + q - r \in Int
  <2>1. r * n + c = (s * n + d) + q * n
    BY <1>1, <1>2 DEF c, d
  <2>2. (s + q - r) * n = s * n + q * n - r * n
    OBVIOUS
  <2>3. c \in Int /\ d \in Int /\ s * n \in Int /\ q * n \in Int /\ r * n \in Int
    BY <1>3 DEF c, d
  <2> QED BY <2>1, <2>2, <2>3
<1>5. c = d
  BY <1>3, <1>4, SameRemainder DEF c, d
<1> QED BY <1>5 DEF c, d

\* Congruent numbers stay so when the same is added, or when they are taken away.
LEMMA CongruentSums ==
  ASSUME NEW n \in Nat \ {0}, NEW a \in Int, NEW b \in Int, NEW c \in Int,
         a % n = b % n
  PROVE  (a + c) % n = (b + c) % n /\ (c - a) % n = (c - b) % n
<1>1. PICK r \in Int : a = r * n + (a % n)
  BY Remainder
<1>2. PICK s \in Int : b = s * n + (b % n)
  BY Remainder
<1>3. a % n \in Int
  BY Remainder
<1>4. \E q \in Int, t \in Int : a + c = (b + c) + q * n /\ c - a = (c - b) + t * n
  <2>1. a = b + (r - s) * n /\ (r - s) \in Int /\ (s - r) \in Int
    BY <1>1, <1>2, <1>3
  <2>2. (s - r) * n = -((r - s) * n) /\ (r - s) * n \in Int
    OBVIOUS
  <2>3. a + c = (b + c) + (r - s) * n /\ c - a = (c - b) + (s - r) * n
    BY <2>1, <2>2
  <2> QED BY <2>1, <2>3
<1>5. PICK q \in Int, t \in Int : a + c = (b + c) + q * n /\ c - a = (c - b) + t * n
  BY <1>4
<1> DEFINE x == a + c
           y == b + c
           v == c - a
           w == c - b
<1>6. x \in Int /\ y \in Int /\ v \in Int /\ w \in Int /\ x = y + q * n /\ v = w + t * n
  BY <1>5
<1> HIDE DEF x, y, v, w
<1>7. x % n = y % n
  BY <1>6, Congruent, Zenon
<1>8. v % n = w % n
  BY <1>6, Congruent, Zenon
<1> QED BY <1>7, <1>8 DEF x, y, v, w

LEMMA WrapFacts ==
  ASSUME NEW a \in Int
  PROVE  /\ Wrap(a) \in Clock
         /\ Wrap(Wrap(a)) = Wrap(a)
         /\ a \in Clock => Wrap(a) = a
         /\ a \in -CLOCK_RANGE .. -1 => Wrap(a) = a + CLOCK_RANGE
<1>1. CLOCK_RANGE \in Nat \ {0}
  BY ClockAssumption
<1>2. \A b \in Clock : b % CLOCK_RANGE = b
  BY <1>1, WrapOnce, \A b \in Clock : b + 0 = b, 0 \in 0 .. CLOCK_RANGE DEF Clock
<1>3. a % CLOCK_RANGE \in Clock
  BY <1>1, Remainder DEF Clock
<1>4. ASSUME a \in -CLOCK_RANGE .. -1  PROVE a % CLOCK_RANGE = a + CLOCK_RANGE
  <2>1. a + CLOCK_RANGE \in Clock /\ a + CLOCK_RANGE \in Int /\ a = (a + CLOCK_RANGE) + (-1) * CLOCK_RANGE
    BY <1>1, <1>4 DEF Clock
  <2>2. a % CLOCK_RANGE = (a + CLOCK_RANGE) % CLOCK_RANGE
    BY <1>1, <2>1, Congruent, -1 \in Int
  <2> QED BY <1>2, <2>1, <2>2
<1> QED BY <1>2, <1>3, <1>4 DEF Wrap

\* A time that is wrapped and moved, and a time from which a wrapped one is taken.
LEMMA WrapSums ==
  ASSUME NEW a \in Int, NEW b \in Int, NEW c \in Int, Wrap(a) = Wrap(b)
  PROVE  /\ Wrap(a + c) = Wrap(b + c)
         /\ Wrap(c - a) = Wrap(c - b)
  BY CongruentSums, ClockAssumption, CLOCK_RANGE \in Nat \ {0} DEF Wrap

-----------------------------------------------------------------------------
(***************************************************************************)
(* Lists.                                                                  *)
(***************************************************************************)
\* The places of K up to i.
UpTo(K, i) == {j \in K : j <= i}

\* Each place of K has a rank of its own, and the ranks are the numbers up to the
\* size of K.
LEMMA Ranks ==
  ASSUME NEW n \in Nat, NEW K \in SUBSET (1 .. n)
  PROVE  /\ Cardinality(K) \in 0 .. n
         /\ \A i \in K : Cardinality(UpTo(K, i)) \in 1 .. Cardinality(K)
         /\ \A i, j \in K : Cardinality(UpTo(K, i)) = Cardinality(UpTo(K, j)) => i = j
         /\ \A k \in 1 .. Cardinality(K) : \E i \in K : Cardinality(UpTo(K, i)) = k
<1> DEFINE D == 1 .. n
<1>1. IsFiniteSet(D) /\ Cardinality(D) = n
  <2>1. IsFiniteSet(D) /\ Cardinality(D) = IF 1 > n THEN 0 ELSE n - 1 + 1
    BY FS_Interval
  <2> QED BY <2>1
<1>2. IsFiniteSet(K) /\ Cardinality(K) <= n
  BY <1>1, FS_Subset, K \in SUBSET D
<1>3. Cardinality(K) \in Nat
  BY <1>2, FS_CardinalityType
<1>4. \A i \in K : /\ UpTo(K, i) \in SUBSET K /\ IsFiniteSet(UpTo(K, i))
                   /\ Cardinality(UpTo(K, i)) <= Cardinality(K)
                   /\ Cardinality(UpTo(K, i)) \in Nat
  BY <1>2, FS_Subset, FS_CardinalityType DEF UpTo
<1>5. ASSUME NEW i \in K  PROVE Cardinality(UpTo(K, i)) \in 1 .. Cardinality(K)
  <2>1. i \in UpTo(K, i)
    BY DEF UpTo
  <2>2. Cardinality(UpTo(K, i)) # 0
    BY <1>4, <2>1, FS_EmptySet
  <2> QED BY <1>3, <1>4, <2>2
<1>6. ASSUME NEW i \in K, NEW j \in K, i < j
      PROVE  Cardinality(UpTo(K, i)) # Cardinality(UpTo(K, j))
  <2>1. UpTo(K, i) \in SUBSET UpTo(K, j) /\ j \in UpTo(K, j) /\ j \notin UpTo(K, i)
    <3>1. \A m \in K : m \in Nat
      OBVIOUS
    <3>2. i \in Nat /\ j \in Nat /\ ~ (j <= i)
      BY <1>6, <3>1
    <3>3. ASSUME NEW m \in K, m <= i  PROVE m <= j
      BY <1>6, <3>1, <3>2, <3>3
    <3>4. UpTo(K, i) \in SUBSET UpTo(K, j)
      BY <3>3, Zenon DEF UpTo
    <3>5. j <= j
      BY <3>2
    <3> QED BY <3>2, <3>4, <3>5 DEF UpTo
  <2>2. UpTo(K, i) # UpTo(K, j)
    BY <2>1
  <2> QED BY <1>4, <2>1, <2>2, FS_Subset
<1>7. \A i, j \in K : Cardinality(UpTo(K, i)) = Cardinality(UpTo(K, j)) => i = j
  <2>1. \A i, j \in K : i < j \/ j < i \/ i = j
    OBVIOUS
  <2> QED BY <1>6, <2>1
<1> DEFINE R == 1 .. Cardinality(K)
           f == [i \in K |-> Cardinality(UpTo(K, i))]
<1>8. f \in Injection(K, R)
  BY <1>5, <1>7 DEF Injection, IsInjective
<1>9. IsFiniteSet(R) /\ Cardinality(R) = Cardinality(K)
  <2>1. IsFiniteSet(R) /\ Cardinality(R) = IF 1 > Cardinality(K) THEN 0 ELSE Cardinality(K) - 1 + 1
    BY <1>3, FS_Interval
  <2> QED BY <1>3, <2>1
<1>10. f \in Surjection(K, R)
  <2> HIDE DEF f, R
  <2> QED BY <1>8, <1>9, FS_Injection
<1>11. \A k \in R : \E i \in K : Cardinality(UpTo(K, i)) = k
  BY <1>10 DEF Surjection
<1> QED BY <1>2, <1>3, <1>5, <1>7, <1>11

\* Without takes away the timers of the set, and no others.
LEMMA WithoutKeeps ==
  ASSUME NEW l \in Seq(Timer), NEW S
  PROVE  /\ Without(l, S) \in Seq(Timer)
         /\ Members(Without(l, S)) = Members(l) \ S
         /\ Once(l) => Once(Without(l, S))
<1> DEFINE K == {i \in DOMAIN l : l[i] \notin S}
           c == Cardinality(K)
           at(k) == CHOOSE i \in K : Cardinality(UpTo(K, i)) = k
           w == [k \in 1 .. c |-> l[at(k)]]
<1>1. Without(l, S) = w
  BY DEF Without, UpTo
<1>2. Len(l) \in Nat /\ DOMAIN l = 1 .. Len(l) /\ K \in SUBSET (1 .. Len(l))
  OBVIOUS
<1>3. /\ c \in Nat
      /\ \A i \in K : Cardinality(UpTo(K, i)) \in 1 .. c
      /\ \A i, j \in K : Cardinality(UpTo(K, i)) = Cardinality(UpTo(K, j)) => i = j
      /\ \A k \in 1 .. c : \E i \in K : Cardinality(UpTo(K, i)) = k
  <2> HIDE DEF K
  <2>1. /\ Cardinality(K) \in 0 .. Len(l)
        /\ \A i \in K : Cardinality(UpTo(K, i)) \in 1 .. Cardinality(K)
        /\ \A i, j \in K : Cardinality(UpTo(K, i)) = Cardinality(UpTo(K, j)) => i = j
        /\ \A k \in 1 .. Cardinality(K) : \E i \in K : Cardinality(UpTo(K, i)) = k
    BY <1>2, Ranks
  <2> QED BY <1>2, <2>1
<1> HIDE DEF c
<1>4. \A k \in 1 .. c : at(k) \in K /\ Cardinality(UpTo(K, at(k))) = k
  <2> HIDE DEF K
  <2> QED BY <1>3
<1>5. \A i \in K : at(Cardinality(UpTo(K, i))) = i
  <2> HIDE DEF K, at
  <2> QED BY <1>3, <1>4
<1> HIDE DEF at
<1>6. w \in Seq(Timer) /\ DOMAIN w = 1 .. c
  <2>1. \A k \in 1 .. c : l[at(k)] \in Timer
    <3>1. \A i \in 1 .. Len(l) : l[i] \in Timer
      OBVIOUS
    <3> HIDE DEF K
    <3> QED BY <1>2, <1>4, <3>1
  <2> QED BY <1>3, <2>1
<1>7. Members(w) = Members(l) \ S
  <2>1. Members(w) = {l[i] : i \in K}
    <3>1. \A k \in 1 .. c : w[k] = l[at(k)] /\ at(k) \in K
      BY <1>4
    <3>2. \A i \in K : Cardinality(UpTo(K, i)) \in 1 .. c /\ w[Cardinality(UpTo(K, i))] = l[i]
      BY <1>3, <1>5
    <3> HIDE DEF K
    <3> QED BY <1>6, <3>1, <3>2 DEF Members
  <2> QED BY <2>1 DEF Members
<1>8. ASSUME Once(l)  PROVE Once(w)
  <2> SUFFICES ASSUME NEW i \in 1 .. c, NEW j \in 1 .. c, w[i] = w[j] PROVE i = j
    BY <1>6 DEF Once
  <2>1. l[at(i)] = l[at(j)] /\ at(i) \in DOMAIN l /\ at(j) \in DOMAIN l
    BY <1>4
  <2>2. at(i) = at(j)
    BY <1>8, <2>1 DEF Once
  <2> QED BY <1>4, <2>2
<1> QED BY <1>1, <1>6, <1>7, <1>8

\* A list without repetitions is no longer than the set its items are from.
LEMMA OnceIsShort ==
  ASSUME NEW l \in Seq(Timer), Once(l)
  PROVE  Len(l) <= Cardinality(Timer)
<1> DEFINE D == 1 .. Len(l)
           f == [i \in D |-> l[i]]
<1>1. Len(l) \in Nat /\ DOMAIN l = D /\ f \in [D -> Timer]
  OBVIOUS
<1>2. IsFiniteSet(D) /\ Cardinality(D) = Len(l)
  <2>1. IsFiniteSet(D) /\ Cardinality(D) = IF 1 > Len(l) THEN 0 ELSE Len(l) - 1 + 1
    BY <1>1, FS_Interval
  <2> QED BY <1>1, <2>1
<1>3. f \in Injection(D, Timer)
  BY <1>1 DEF Once, Injection, IsInjective
<1>4. Cardinality(D) <= Cardinality(Timer)
  <2> HIDE DEF f, D
  <2> QED BY <1>3, TimerAssumption, FS_Injection
<1> QED BY <1>2, <1>4

-----------------------------------------------------------------------------
(***************************************************************************)
(* Clock, ages and cached expiration.                                      *)
(***************************************************************************)
LEMMA Constants ==
  /\ CLOCK_RANGE \in Nat /\ CLOCK_RANGE >= 4
  /\ MaxLag \in Nat /\ MaxCatchUp \in Nat /\ MaxCatchUp >= 1
  /\ MaxAge \in Nat /\ MaxAge = 2 * CLOCK_RANGE
  /\ \A i \in Interval \cup {0} : i \in Nat /\ i + MaxLag + MaxCatchUp < CLOCK_RANGE
  BY ClockAssumption, BoundAssumption, IntervalAssumption DEF MaxAge

\* The clock goes on telling an age when both go on,
LEMMA TickTells ==
  ASSUME NEW now \in Clock, NEW s \in Clock, NEW a \in Nat, NEW n \in Nat,
         Tells(now, s, a)
  PROVE  Tells(Wrap(now + n), s, a + n)
<1>1. now \in Int /\ s \in Int /\ now + n \in Int /\ now - s \in Int
  BY Constants DEF Clock
<1>2. Wrap(Wrap(now + n) - s) = Wrap((now + n) - s)
  <2>1. Wrap(Wrap(now + n)) = Wrap(now + n) /\ Wrap(now + n) \in Int
    BY <1>1, WrapFacts, Constants DEF Clock
  <2>2. -s \in Int
    BY <1>1
  <2>3. Wrap(Wrap(now + n) + (-s)) = Wrap((now + n) + (-s))
    BY <1>1, <2>1, <2>2, WrapSums
  <2>4. Wrap(now + n) + (-s) = Wrap(now + n) - s /\ (now + n) + (-s) = (now + n) - s
    BY <1>1, <2>1
  <2> QED BY <2>3, <2>4
<1>3. Wrap((now - s) + n) = Wrap(a + n)
  <2>1. now - s \in Int /\ a \in Int /\ n \in Int /\ Wrap(now - s) = Wrap(a)
    BY <1>1 DEF Tells
  <2> QED BY <2>1, WrapSums, Zenon
<1>4. (now - s) + n = (now + n) - s
  BY <1>1
<1> QED BY <1>2, <1>3, <1>4 DEF Tells

\* and when an interval is taken from both.
LEMMA ResetTells ==
  ASSUME NEW now \in Clock, NEW s \in Clock, NEW a \in Nat, NEW i \in Nat,
         Tells(now, s, a)
  PROVE  Tells(now, Wrap(s + i), a - i)
<1>1. now \in Int /\ s \in Int /\ s + i \in Int /\ now - s \in Int /\ -i \in Int
  BY Constants DEF Clock
<1>2. Wrap(now - Wrap(s + i)) = Wrap(now - (s + i))
  <2>1. Wrap(Wrap(s + i)) = Wrap(s + i) /\ Wrap(s + i) \in Int
    BY <1>1, WrapFacts, Constants DEF Clock
  <2> QED BY <1>1, <2>1, WrapSums
<1>3. Wrap((now - s) + (-i)) = Wrap(a + (-i))
  <2>1. now - s \in Int /\ a \in Int /\ -i \in Int /\ Wrap(now - s) = Wrap(a)
    BY <1>1 DEF Tells
  <2> QED BY <2>1, WrapSums, Zenon
<1>4. (now - s) + (-i) = now - (s + i) /\ a + (-i) = a - i
  BY <1>1
<1> QED BY <1>2, <1>3, <1>4 DEF Tells

\* A timer that was started now has no age.
LEMMA StartTells ==
  ASSUME NEW now \in Clock
  PROVE  Tells(now, now, 0)
  BY Constants, now - now = 0 DEF Clock, Tells

\* How far away the expiration of a timer is.
LEMMA AwayIsLeft ==
  ASSUME NEW now \in Clock, NEW s \in Clock, NEW a \in Nat, NEW i \in Interval \cup {0},
         a < i, Tells(now, s, a)
  PROVE  Wrap(s + i - now) = i - a /\ i - a \in 1 .. i
<1>1. now \in Int /\ s \in Int /\ i \in Nat /\ now - s \in Int /\ i < CLOCK_RANGE
  BY Constants DEF Clock
<1>2. Wrap(i - (now - s)) = Wrap(i - a)
  <2>1. now - s \in Int /\ a \in Int /\ i \in Int /\ Wrap(now - s) = Wrap(a)
    BY <1>1 DEF Tells
  <2> QED BY <2>1, WrapSums, Zenon
<1>3. i - (now - s) = s + i - now /\ i - a \in Int /\ i - a \in Clock /\ i - a \in 1 .. i
  <2>1. CLOCK_RANGE \in Nat
    BY Constants
  <2> QED BY <1>1, <2>1 DEF Clock
<1>4. Wrap(i - a) = i - a
  BY <1>3, WrapFacts
<1> QED BY <1>2, <1>3, <1>4

\* A timer tells by the clock whether it has expired.
LEMMA ExpiredTells ==
  ASSUME NEW now \in Clock, NEW s \in Clock, NEW a \in Nat, NEW i \in Nat,
         Tells(now, s, a)
  PROVE  /\ Wrap(now - s) >= i => a >= i
         /\ a < CLOCK_RANGE => (Wrap(now - s) >= i <=> a >= i)
<1>1. Wrap(a) \in Clock /\ (a \in Clock => Wrap(a) = a)
  BY WrapFacts
<1>2. a < CLOCK_RANGE => a \in Clock
  BY Constants DEF Clock
<1>3. a >= CLOCK_RANGE => Wrap(a) <= a
  BY <1>1, Constants DEF Clock
<1> QED BY <1>1, <1>2, <1>3, Constants DEF Tells, Clock

\* update_time caches an expiration that is early enough for each timer.
LEMMA UpdateCaches ==
  ASSUME NEW l \in Seq(Timer), NEW st \in [Timer -> Clock],
         NEW iv \in [Timer -> Interval \cup {0}], count \in Clock
  PROVE  /\ update_time(l, st, iv) \in Clock
         /\ \A t \in Members(l), a \in Nat :
              Tells(count, st[t], a) =>
                IsCached(t, st[t], iv[t], a, update_time(l, st, iv))
<1> DEFINE Away == {Wrap(st[l[i]] + iv[l[i]] - count) : i \in DOMAIN l}
           d == CHOOSE x \in Away : \A e \in Away : x <= e
           u == update_time(l, st, iv)
<1>1. CASE l = <<>>
  BY <1>1, Constants DEF update_time, Members, Clock
<1>2. CASE l # <<>>
  <2>1. u = Wrap(count + d)
    BY <1>2 DEF update_time
  <2>2. \A t \in Timer : st[t] + iv[t] - count \in Int
    BY Constants DEF Clock
  <2>3. Away \subseteq Clock /\ Away # {}
    <3>1. \A i \in DOMAIN l : l[i] \in Timer
      OBVIOUS
    <3>2. \A i \in DOMAIN l : Wrap(st[l[i]] + iv[l[i]] - count) \in Clock
      BY <2>2, <3>1, WrapFacts
    <3>3. 1 \in DOMAIN l
      BY <1>2
    <3> QED BY <3>2, <3>3
  <2>4. d \in Away /\ \A e \in Away : d <= e
    <3> HIDE DEF Away
    <3>1. Away \in SUBSET Nat
      BY <2>3, Constants DEF Clock
    <3>2. \E x \in Away : \A e \in Away : x <= e
      BY <2>3, <3>1, LeastElement
    <3> QED BY <3>2
  <2>5. \A t \in Members(l) : Wrap(st[t] + iv[t] - count) \in Away /\ t \in Timer
    BY DEF Members
  <2> HIDE DEF Away, d, u
  <2>6. d \in Clock /\ d \in Nat /\ count \in Nat /\ count + d \in Int
    BY <2>3, <2>4, Constants DEF Clock
  <2>7. u \in Clock
    BY <2>1, <2>6, WrapFacts
  <2>8. ASSUME NEW t \in Members(l), NEW a \in Nat, Tells(count, st[t], a), a < iv[t]
        PROVE  Wrap(st[t] + iv[t] - u) <= iv[t]
    <3>1. t \in Timer /\ st[t] \in Clock /\ iv[t] \in Interval \cup {0}
      BY <2>5
    <3>2. Wrap(st[t] + iv[t] - count) = iv[t] - a /\ iv[t] - a \in 1 .. iv[t]
      BY <2>8, <3>1, AwayIsLeft
    <3>3. d <= iv[t] - a
      BY <2>4, <2>5, <3>2
    <3> DEFINE x == st[t] + iv[t]
    <3>0. st[t] + iv[t] - count = x - count /\ st[t] + iv[t] - u = x - u
      BY <2>6, <2>7, <3>1, Constants DEF Clock
    <3>4. x \in Int /\ iv[t] \in Nat /\ iv[t] < CLOCK_RANGE
      BY <3>1, Constants DEF Clock
    <3> HIDE DEF x
    <3>5. Wrap(x - u) = Wrap(x - (count + d))
      <4>1. Wrap(u) = Wrap(count + d) /\ u \in Int
        BY <2>1, <2>6, <2>7, WrapFacts, Constants DEF Clock
      <4> QED BY <2>6, <3>4, <4>1, WrapSums
    <3>6. Wrap((x - count) + (-d)) = Wrap((iv[t] - a) + (-d))
      <4>1. x - count \in Int /\ iv[t] - a \in Int /\ -d \in Int
        BY <2>6, <3>4
      <4>2. Wrap(x - count) = Wrap(iv[t] - a)
        <5>1. Wrap(x - count) = iv[t] - a
          BY <3>0, <3>2
        <5>2. Wrap(Wrap(x - count)) = Wrap(x - count)
          BY <4>1, WrapFacts
        <5> QED BY <5>1, <5>2
      <4> QED BY <4>1, <4>2, WrapSums
    <3>7. (x - count) + (-d) = x - (count + d) /\ (iv[t] - a) + (-d) = iv[t] - a - d
      BY <2>6, <3>4
    <3>8. iv[t] - a - d \in Clock /\ iv[t] - a - d <= iv[t] /\ iv[t] - a - d \in Int
      BY <2>6, <3>2, <3>3, <3>4, Constants DEF Clock
    <3>9. Wrap(iv[t] - a - d) = iv[t] - a - d
      BY <3>8, WrapFacts
    <3>10. Wrap(x - u) <= iv[t]
      BY <3>5, <3>6, <3>7, <3>8, <3>9
    <3> QED BY <3>0, <3>10
  <2> QED BY <2>7, <2>8 DEF u, IsCached
<1> QED BY <1>1, <1>2

-----------------------------------------------------------------------------
(***************************************************************************)
(* The calls of etimer.h.                                                  *)
(***************************************************************************)
LEMMA InitIInv == ASSUME Init PROVE IInv /\ AgesBounded /\ Cached /\ DueTimerNoticed
<1>1. Listed = {} /\ timerlist \in Seq(Timer) /\ Len(timerlist) = 0 /\ DOMAIN timerlist = {}
  BY DEF Init, Listed
<1>2. TimersTyped
  <2>1. 0 \in Clock /\ CLOCK_RANGE - 2 \in Clock /\ 0 \in 0 .. MaxAge /\ 0 <= NumEvents
    BY Constants, BoundAssumption DEF Clock
  <2>2. events \in Seq(Event) /\ Len(events) = 0
    BY DEF Init
  <2>3. scan \in 0 .. Len(timerlist) + 1
    BY <1>1 DEF Init, Idle
  <2>4. polled \in BOOLEAN
    BY DEF Init
  <2>5. /\ count \in Clock /\ next_expiration \in Clock
        /\ start \in [Timer -> Clock] /\ age \in [Timer -> 0 .. MaxAge]
        /\ interval \in [Timer -> Interval \cup {0}]
        /\ p \in [Timer -> Process \cup {PROCESS_NONE}] /\ alive \subseteq Process
    BY <2>1 DEF Init
  <2> QED BY <1>1, <2>1, <2>2, <2>3, <2>4, <2>5 DEF TimersTyped
<1>3. OwnersKept
  BY <1>1 DEF Init, OwnersKept, Once
<1>4. AgesTold
  BY <1>1 DEF Init, AgesTold
<1>5. AgesBounded /\ Cached /\ DueTimerNoticed
  BY <1>1 DEF AgesBounded, Cached, DueTimerNoticed, Overdue
<1> QED BY <1>2, <1>3, <1>4, <1>5 DEF IInv

\* t is started, at s for i, and is a ticks old.
Restarted(t, i, s, a) ==
  /\ MayUse(t)
  /\ interval' = [interval EXCEPT ![t] = i]
  /\ start' = [start EXCEPT ![t] = s]
  /\ age' = [age EXCEPT ![t] = a]
  /\ UNCHANGED <<count, scan, events, alive>>
  /\ add_timer(t, User[t])

Starts(t) ==
  (\E i \in Interval : etimer_set(t, i)) \/ etimer_reset(t) \/ etimer_restart(t)

LEMMA StartsRestart ==
  ASSUME IInv, NEW t \in Timer, Starts(t)
  PROVE  \E i \in Interval, s \in Clock, a \in 0 .. MaxLag :
           Tells(count, s, a) /\ Restarted(t, i, s, a)
<1>1. /\ count \in Clock /\ start \in [Timer -> Clock] /\ age \in [Timer -> 0 .. MaxAge]
      /\ interval \in [Timer -> Interval \cup {0}]
  BY DEF IInv, TimersTyped
<1>2. 0 \in 0 .. MaxLag /\ Tells(count, count, 0)
  BY <1>1, StartTells, Constants
<1>3. interval = [interval EXCEPT ![t] = interval[t]]
  BY <1>1
<1>4. ASSUME NEW i \in Interval, etimer_set(t, i)
      PROVE  Restarted(t, i, count, 0)
  BY <1>4 DEF etimer_set, Restarted
<1>5. CASE etimer_restart(t)
  <2>1. interval[t] \in Interval
    BY <1>1, <1>5 DEF etimer_restart
  <2>2. Restarted(t, interval[t], count, 0)
    BY <1>3, <1>5 DEF etimer_restart, Restarted
  <2> QED BY <1>1, <1>2, <2>1, <2>2
<1>6. CASE etimer_reset(t)
  <2> DEFINE s == Wrap(start[t] + interval[t])
             a == age[t] - interval[t]
  <2>1. /\ interval[t] \in Interval /\ interval[t] \in Nat /\ age[t] \in Nat
        /\ start[t] + interval[t] \in Int
    BY <1>1, <1>6, Constants DEF etimer_reset, Clock
  <2>2. age[t] \in interval[t] .. interval[t] + MaxLag /\ t \notin Listed /\ interval[t] # 0
    BY <1>6 DEF etimer_reset
  <2>3. a \in 0 .. MaxLag /\ s \in Clock
    BY <2>1, <2>2, Constants, WrapFacts
  <2>4. Tells(count, start[t], age[t])
    <3>1. ~ (age[t] > interval[t] + MaxLag)
      BY <2>1, <2>2, Constants
    <3> QED BY <2>2, <3>1 DEF IInv, AgesTold
  <2>5. Tells(count, s, a)
    BY <1>1, <2>1, <2>4, ResetTells
  <2>6. Restarted(t, interval[t], s, a)
    BY <1>3, <1>6 DEF etimer_reset, Restarted
  <2> QED BY <2>1, <2>3, <2>5, <2>6
<1> QED BY <1>1, <1>2, <1>4, <1>5, <1>6 DEF Starts

\* What add_timer makes of list and owners.
LEMMA AddTimer ==
  ASSUME IInv, NEW t \in Timer, User[t] \in alive, add_timer(t, User[t])
  PROVE  /\ timerlist' \in Seq(Timer) /\ Once(timerlist') /\ Listed' = Listed \cup {t}
         /\ p' \in [Timer -> Process \cup {PROCESS_NONE}]
         /\ \A u \in Listed' : p'[u] = User[u] /\ User[u] \in alive
         /\ \A u \in Timer \ Listed' : p'[u] = p[u]
         /\ polled' = TRUE
         /\ next_expiration' = update_time(timerlist', start', interval')
<1>1. /\ timerlist \in Seq(Timer) /\ p \in [Timer -> Process \cup {PROCESS_NONE}]
      /\ alive \subseteq Process
  BY DEF IInv, TimersTyped
<1>2. Once(timerlist) /\ \A u \in Listed : p[u] = User[u] /\ User[u] \in alive
  BY DEF IInv, OwnersKept
<1>3. polled' = TRUE /\ next_expiration' = update_time(timerlist', start', interval')
  BY DEF add_timer
<1>4. \A u \in Listed : p[u] # PROCESS_NONE /\ u \in Timer
  BY <1>1, <1>2, UserAssumption DEF Listed
<1>5. CASE t \in Listed
  <2>1. UNCHANGED <<p, timerlist>>
    BY <1>4, <1>5 DEF add_timer
  <2>2. Listed' = Listed
    BY <2>1 DEF Listed
  <2> QED BY <1>1, <1>2, <1>3, <1>5, <2>1, <2>2
<1>6. CASE t \notin Listed
  <2>1. p' = [p EXCEPT ![t] = User[t]] /\ timerlist' = <<t>> \o timerlist
    BY <1>6 DEF add_timer
  <2> DEFINE l == <<t>> \o timerlist
  <2>2. /\ l \in Seq(Timer) /\ Len(timerlist) \in Nat /\ DOMAIN timerlist = 1 .. Len(timerlist)
        /\ DOMAIN l = 1 .. Len(timerlist) + 1 /\ l[1] = t
        /\ \A i \in 1 .. Len(timerlist) + 1 : i # 1 => l[i] = timerlist[i - 1] /\ i - 1 \in DOMAIN timerlist
        /\ \A i \in DOMAIN timerlist : l[i + 1] = timerlist[i] /\ i + 1 \in DOMAIN l
    BY <1>1
  <2> HIDE DEF l
  <2>3. Once(l)
    <3> SUFFICES ASSUME NEW i \in DOMAIN l, NEW j \in DOMAIN l, l[i] = l[j] PROVE i = j
      BY DEF Once
    <3>1. \A k \in DOMAIN timerlist : timerlist[k] # t
      BY <1>6 DEF Listed
    <3>2. CASE i = 1 \/ j = 1
      BY <2>2, <3>1, <3>2
    <3>3. CASE i # 1 /\ j # 1
      <4>1. i - 1 = j - 1
        <5>1. i - 1 \in DOMAIN timerlist /\ j - 1 \in DOMAIN timerlist
          BY <2>2, <3>3
        <5>2. timerlist[i - 1] = timerlist[j - 1]
          BY <2>2, <3>3
        <5> QED BY <1>2, <5>1, <5>2 DEF Once
      <4> QED BY <2>2, <4>1
    <3> QED BY <3>2, <3>3
  <2>4. Members(l) = Listed \cup {t}
    <3>1. ASSUME NEW u \in Members(l)  PROVE u \in Listed \cup {t}
      BY <2>2 DEF Members, Listed
    <3>2. ASSUME NEW u \in Listed \cup {t}  PROVE u \in Members(l)
      <4>1. CASE u = t
        <5>1. 1 \in DOMAIN l
          BY <2>2
        <5> QED BY <2>2, <4>1, <5>1 DEF Members
      <4>2. CASE u \in Listed
        BY <2>2, <4>2 DEF Members, Listed
      <4> QED BY <4>1, <4>2
    <3> QED BY <3>1, <3>2
  <2>5. Listed' = Members(timerlist')
    BY DEF Listed, Members
  <2>6. /\ p' \in [Timer -> Process \cup {PROCESS_NONE}] /\ p'[t] = User[t]
        /\ \A u \in Timer : u # t => p'[u] = p[u]
    BY <1>1, <2>1, UserAssumption
  <2>7. timerlist' = l
    BY <2>1 DEF l
  <2> QED BY <1>2, <1>3, <1>4, <2>2, <2>3, <2>4, <2>5, <2>6, <2>7
<1> QED BY <1>5, <1>6

\* A timer that is started keeps what the invariants say of it and of the others.
LEMMA RestartKeeps ==
  ASSUME IInv, NEW t \in Timer, NEW i \in Interval, NEW s \in Clock, NEW a \in 0 .. MaxLag,
         Tells(count, s, a), Restarted(t, i, s, a)
  PROVE  /\ IInv'
         /\ Cached'
         /\ AgesBounded => AgesBounded'
         /\ DueTimerNoticed'
<1>1. /\ TimersTyped /\ OwnersKept /\ AgesTold
      /\ UNCHANGED <<count, scan, events, alive>> /\ scan = Idle /\ User[t] \in alive
  BY DEF IInv, Restarted, MayUse
<1>2. /\ timerlist' \in Seq(Timer) /\ Once(timerlist') /\ Listed' = Listed \cup {t}
      /\ p' \in [Timer -> Process \cup {PROCESS_NONE}]
      /\ \A u \in Listed' : p'[u] = User[u] /\ User[u] \in alive
      /\ \A u \in Timer \ Listed' : p'[u] = p[u]
      /\ polled' = TRUE
      /\ next_expiration' = update_time(timerlist', start', interval')
  BY <1>1, AddTimer DEF Restarted
<1>3. /\ interval' \in [Timer -> Interval \cup {0}] /\ interval'[t] = i
      /\ start' \in [Timer -> Clock] /\ start'[t] = s
      /\ age' \in [Timer -> 0 .. MaxAge] /\ age'[t] = a
      /\ \A u \in Timer : u # t => interval'[u] = interval[u] /\ start'[u] = start[u] /\ age'[u] = age[u]
  <2>1. a \in 0 .. MaxAge
    <3>1. 0 \in Nat /\ 0 + MaxLag + MaxCatchUp < CLOCK_RANGE
      BY Constants
    <3> QED BY <3>1, Constants
  <2>2. /\ interval \in [Timer -> Interval \cup {0}] /\ start \in [Timer -> Clock]
        /\ age \in [Timer -> 0 .. MaxAge]
    BY <1>1 DEF TimersTyped
  <2> QED BY <2>1, <2>2 DEF Restarted
<1>4. count \in Clock /\ count' = count /\ Listed' = Members(timerlist')
  BY <1>1 DEF TimersTyped, Listed, Members
<1>5. next_expiration' \in Clock
  BY <1>2, <1>3, <1>4, UpdateCaches
<1>6. AgesTold'
  <2> SUFFICES ASSUME NEW u \in Timer
               PROVE  \/ Tells(count', start'[u], age'[u])
                      \/ u \in Listed' /\ age'[u] = MaxAge
                      \/ u \notin Listed' /\ (interval'[u] = 0 \/ age'[u] > interval'[u] + MaxLag)
    BY DEF AgesTold
  <2>1. CASE u = t
    BY <1>3, <1>4, <2>1
  <2>2. CASE u # t
    BY <1>1, <1>2, <1>3, <1>4, <2>2 DEF AgesTold
  <2> QED BY <2>1, <2>2
<1>7. TimersTyped'
  <2>1. scan' \in 0 .. Len(timerlist') + 1
    BY <1>1, <1>2 DEF Idle
  <2> QED BY <1>1, <1>2, <1>3, <1>4, <1>5, <2>1 DEF TimersTyped
<1>8. OwnersKept'
  BY <1>1, <1>2 DEF OwnersKept
<1>9. Cached'
  <2> SUFFICES ASSUME NEW u \in Listed'
               PROVE  IsCached(u, start'[u], interval'[u], age'[u], next_expiration')
    BY DEF Cached
  <2>1. u \in Timer
    BY <1>2, <1>4 DEF Members
  <2>2. age'[u] \in Nat /\ age'[u] \in 0 .. MaxAge
    BY <1>3, <2>1, Constants
  <2>3. CASE Tells(count, start'[u], age'[u])
    BY <1>2, <1>3, <1>4, <2>2, <2>3, UpdateCaches
  <2>4. CASE ~Tells(count, start'[u], age'[u])
    <3>1. age'[u] = MaxAge
      BY <1>4, <1>6, <2>1, <2>4 DEF AgesTold
    <3>2. interval'[u] \in Nat /\ interval'[u] <= CLOCK_RANGE
      <4>1. interval'[u] \in Interval \cup {0}
        BY <1>3, <2>1
      <4> QED BY <4>1, Constants
    <3>3. ~ (age'[u] < interval'[u])
      BY <3>1, <3>2, Constants
    <3> QED BY <3>3 DEF IsCached
  <2> QED BY <2>3, <2>4
<1>10. ASSUME AgesBounded  PROVE AgesBounded'
  <2> SUFFICES ASSUME NEW u \in Listed' PROVE age'[u] < interval'[u] + MaxLag + MaxCatchUp
    BY DEF AgesBounded
  <2>1. CASE u = t
    BY <1>3, <2>1, Constants
  <2>2. CASE u # t
    <3>1. u \in Listed /\ u \in Timer
      BY <1>2, <1>4, <2>2 DEF Members
    <3> QED BY <1>3, <1>10, <2>2, <3>1 DEF AgesBounded
  <2> QED BY <2>1, <2>2
<1>11. DueTimerNoticed'
  BY <1>2 DEF DueTimerNoticed
<1> QED BY <1>6, <1>7, <1>8, <1>9, <1>10, <1>11 DEF IInv

\* Timers leave the list, and what is cached is kept or brought up to date.
Leaves(S) ==
  /\ timerlist' = Without(timerlist, S)
  /\ next_expiration' \in {next_expiration, update_time(timerlist', start, interval)}
  /\ UNCHANGED <<count, start, interval, age>>

LEMMA LeavingKeeps ==
  ASSUME IInv, NEW S, Leaves(S)
  PROVE  /\ timerlist' \in Seq(Timer) /\ Once(timerlist') /\ Listed' = Listed \ S
         /\ next_expiration' \in Clock
         /\ AgesTold'
         /\ Cached => Cached'
         /\ AgesBounded => AgesBounded'
<1>1. TimersTyped /\ OwnersKept /\ AgesTold
  BY DEF IInv
<1>2. /\ timerlist' = Without(timerlist, S)
      /\ next_expiration' \in {next_expiration, update_time(timerlist', start, interval)}
      /\ count' = count /\ start' = start /\ interval' = interval /\ age' = age
  BY DEF Leaves
<1>3. timerlist' \in Seq(Timer) /\ Once(timerlist') /\ Listed' = Listed \ S
  <2>1. timerlist \in Seq(Timer) /\ Once(timerlist)
    BY <1>1 DEF TimersTyped, OwnersKept
  <2>2. Listed = Members(timerlist) /\ Listed' = Members(timerlist')
    BY DEF Listed, Members
  <2> QED BY <1>2, <2>1, <2>2, WithoutKeeps
<1>4. /\ count \in Clock /\ start \in [Timer -> Clock] /\ interval \in [Timer -> Interval \cup {0}]
      /\ age \in [Timer -> 0 .. MaxAge] /\ next_expiration \in Clock
      /\ Listed \subseteq Timer /\ Listed' = Members(timerlist')
  BY <1>1 DEF TimersTyped, Listed, Members
<1> DEFINE n == update_time(timerlist', start, interval)
<1>5. /\ n \in Clock
      /\ \A t \in Listed', a \in Nat :
           Tells(count, start[t], a) => IsCached(t, start[t], interval[t], a, n)
  BY <1>3, <1>4, UpdateCaches
<1>6. AgesTold'
  <2> SUFFICES ASSUME NEW t \in Timer
               PROVE  \/ Tells(count', start'[t], age'[t])
                      \/ t \in Listed' /\ age'[t] = MaxAge
                      \/ t \notin Listed' /\ (interval'[t] = 0 \/ age'[t] > interval'[t] + MaxLag)
    BY DEF AgesTold
  <2>1. CASE Tells(count, start[t], age[t])
    BY <1>2, <2>1
  <2>2. CASE t \in Listed /\ age[t] = MaxAge
    <3>1. interval[t] \in Interval \cup {0}
      BY <1>4
    <3>2. age[t] > interval[t] + MaxLag
      BY <2>2, <3>1, Constants
    <3> QED BY <1>2, <2>2, <3>2
  <2>3. CASE t \notin Listed /\ (interval[t] = 0 \/ age[t] > interval[t] + MaxLag)
    BY <1>2, <1>3, <2>3
  <2> QED BY <1>1, <2>1, <2>2, <2>3 DEF AgesTold
<1>7. ASSUME Cached  PROVE Cached'
  <2> SUFFICES ASSUME NEW t \in Listed'
               PROVE  IsCached(t, start'[t], interval'[t], age'[t], next_expiration')
    BY DEF Cached
  <2>1. t \in Listed /\ t \in Timer
    BY <1>3, <1>4
  <2>2. CASE next_expiration' = next_expiration
    BY <1>2, <1>7, <2>1, <2>2 DEF Cached
  <2>3. CASE next_expiration' = n
    <3>1. age[t] \in Nat /\ age[t] \in 0 .. MaxAge
      BY <1>4, <2>1, Constants
    <3>2. CASE Tells(count, start[t], age[t])
      BY <1>2, <1>5, <2>3, <3>1, <3>2
    <3>3. CASE age[t] = MaxAge
      <4>1. interval[t] \in Interval \cup {0}
        BY <1>4, <2>1
      <4>2. ~ (age[t] < interval[t])
        BY <3>3, <4>1, Constants
      <4> QED BY <1>2, <4>2 DEF IsCached
    <3> QED BY <1>1, <2>1, <3>2, <3>3 DEF AgesTold
  <2> QED BY <1>2, <2>2, <2>3
<1>8. ASSUME AgesBounded  PROVE AgesBounded'
  BY <1>2, <1>3, <1>8 DEF AgesBounded
<1>9. next_expiration' \in Clock
  BY <1>2, <1>4, <1>5
<1> QED BY <1>3, <1>6, <1>7, <1>8, <1>9

LEMMA StopKeeps ==
  ASSUME IInv, NEW t \in Timer, etimer_stop(t)
  PROVE  /\ IInv' /\ Leaves({t}) /\ events' = events
         /\ Cached => Cached'
         /\ AgesBounded => AgesBounded'
         /\ DueTimerNoticed => DueTimerNoticed'
<1>1. TimersTyped /\ OwnersKept
  BY DEF IInv
<1>2. /\ scan = Idle /\ p' = [p EXCEPT ![t] = PROCESS_NONE]
      /\ UNCHANGED <<count, start, interval, polled, scan, events, alive, age>>
  BY DEF etimer_stop, MayUse
<1>3. Leaves({t})
  BY DEF etimer_stop, Leaves
<1>4. /\ timerlist' \in Seq(Timer) /\ Once(timerlist') /\ Listed' = Listed \ {t}
      /\ next_expiration' \in Clock /\ AgesTold'
      /\ Cached => Cached'
      /\ AgesBounded => AgesBounded'
  BY <1>3, LeavingKeeps
<1>5. TimersTyped'
  <2>1. scan' \in 0 .. Len(timerlist') + 1
    BY <1>2, <1>4 DEF Idle
  <2>2. p' \in [Timer -> Process \cup {PROCESS_NONE}]
    BY <1>1, <1>2 DEF TimersTyped
  <2> QED BY <1>1, <1>2, <1>4, <2>1, <2>2 DEF TimersTyped
<1>6. OwnersKept'
  <2>1. p'[t] = PROCESS_NONE /\ \A u \in Timer : u # t => p'[u] = p[u]
    BY <1>1, <1>2 DEF TimersTyped
  <2>2. Listed \subseteq Timer
    BY <1>1 DEF TimersTyped, Listed
  <2> QED BY <1>1, <1>2, <1>4, <2>1, <2>2 DEF OwnersKept
<1>7. ASSUME DueTimerNoticed  PROVE DueTimerNoticed'
  BY <1>2, <1>4, <1>7 DEF DueTimerNoticed, Overdue
<1> QED BY <1>2, <1>3, <1>4, <1>5, <1>6, <1>7 DEF IInv

LEMMA ExitKeeps ==
  ASSUME IInv, NEW q \in Mortal, ProcessExits(q)
  PROVE  /\ IInv' /\ Leaves({t \in Timer : p[t] = q}) /\ events' = events
         /\ Cached => Cached'
         /\ AgesBounded => AgesBounded'
         /\ DueTimerNoticed => DueTimerNoticed'
<1> DEFINE S == {t \in Timer : p[t] = q}
<1>1. TimersTyped /\ OwnersKept
  BY DEF IInv
<1>2. /\ scan = Idle /\ alive' = alive \ {q}
      /\ UNCHANGED <<count, start, interval, p, next_expiration, polled, scan, events, age>>
  BY DEF ProcessExits
<1>3. Leaves(S)
  BY DEF ProcessExits, Leaves
<1>4. /\ timerlist' \in Seq(Timer) /\ Once(timerlist') /\ Listed' = Listed \ S
      /\ next_expiration' \in Clock /\ AgesTold'
      /\ Cached => Cached'
      /\ AgesBounded => AgesBounded'
  BY <1>3, LeavingKeeps
<1>5. TimersTyped'
  <2>1. scan' \in 0 .. Len(timerlist') + 1
    BY <1>2, <1>4 DEF Idle
  <2> QED BY <1>1, <1>2, <1>4, <2>1 DEF TimersTyped
<1>6. OwnersKept'
  <2>1. Listed \subseteq Timer
    BY <1>1 DEF TimersTyped, Listed
  <2> QED BY <1>1, <1>2, <1>4, <2>1 DEF OwnersKept
<1>7. ASSUME DueTimerNoticed  PROVE DueTimerNoticed'
  BY <1>2, <1>4, <1>7 DEF DueTimerNoticed, Overdue
<1> QED BY <1>2, <1>3, <1>4, <1>5, <1>6, <1>7 DEF IInv

-----------------------------------------------------------------------------
(***************************************************************************)
(* The clock.                                                              *)
(***************************************************************************)
LEMMA TickKeeps ==
  ASSUME IInv, NEW n \in 1 .. MaxCatchUp, timera1(n)
  PROVE  IInv'
<1>1. TimersTyped /\ OwnersKept /\ AgesTold
  BY DEF IInv
<1>2. /\ count' = Wrap(count + n) /\ age' = [t \in Timer |-> Older(t, n)]
      /\ UNCHANGED <<start, interval, p, timerlist, next_expiration, scan, events, alive>>
      /\ PollIfExpired(count')
  BY DEF timera1, timerVars
<1>3. n \in Nat /\ Listed' = Listed /\ Listed \subseteq Timer
  BY <1>1, <1>2, Constants DEF TimersTyped, Listed
<1>4. count \in Clock /\ start \in [Timer -> Clock] /\ interval \in [Timer -> Interval \cup {0}]
      /\ age \in [Timer -> 0 .. MaxAge]
  BY <1>1 DEF TimersTyped
<1>5. ASSUME NEW t \in Timer
      PROVE  /\ age'[t] = Older(t, n) /\ age'[t] \in 0 .. MaxAge
             /\ interval[t] \in Nat /\ interval[t] + MaxLag < CLOCK_RANGE
             /\ \/ age'[t] = age[t] + n
                \/ t \in Listed /\ age'[t] = MaxAge
                \/ t \notin Listed /\ age'[t] = interval[t] + MaxLag + 1
             /\ t \notin Listed /\ age[t] > interval[t] + MaxLag => age'[t] = interval[t] + MaxLag + 1
             /\ t \in Listed /\ age[t] = MaxAge => age'[t] = MaxAge
  <2>1. interval[t] \in Interval \cup {0} /\ age[t] \in 0 .. MaxAge
    BY <1>4
  <2>2. /\ interval[t] \in Nat /\ interval[t] + MaxLag < CLOCK_RANGE
        /\ interval[t] + MaxLag + 1 \in 0 .. MaxAge /\ age[t] \in Nat
    BY <2>1, Constants
  <2>3. age'[t] = Older(t, n)
    BY <1>2
  <2>4. CASE t \in Listed
    <3>1. age'[t] = IF age[t] + n > MaxAge THEN MaxAge ELSE age[t] + n
      BY <2>3, <2>4 DEF Older
    <3> QED BY <1>3, <2>1, <2>2, <2>3, <2>4, <3>1, Constants
  <2>5. CASE t \notin Listed
    <3>1. age'[t] = IF age[t] + n > interval[t] + MaxLag + 1
                    THEN interval[t] + MaxLag + 1 ELSE age[t] + n
      BY <2>3, <2>5 DEF Older
    <3> QED BY <1>3, <2>1, <2>2, <2>3, <2>5, <3>1, Constants
  <2> QED BY <2>4, <2>5
<1>6. count' \in Clock
  BY <1>2, <1>3, <1>4, WrapFacts, Constants DEF Clock
<1>7. AgesTold'
  <2> SUFFICES ASSUME NEW t \in Timer
               PROVE  \/ Tells(count', start'[t], age'[t])
                      \/ t \in Listed' /\ age'[t] = MaxAge
                      \/ t \notin Listed' /\ (interval'[t] = 0 \/ age'[t] > interval'[t] + MaxLag)
    BY DEF AgesTold
  <2>1. interval'[t] = interval[t] /\ start'[t] = start[t] /\ Listed' = Listed
    BY <1>2, <1>3
  <2>2. t \notin Listed /\ age'[t] = interval[t] + MaxLag + 1 => age'[t] > interval[t] + MaxLag
    BY <1>5, Constants
  <2>3. CASE Tells(count, start[t], age[t]) /\ age'[t] = age[t] + n
    <3>1. age[t] \in Nat
      BY <1>4, Constants
    <3>2. Tells(Wrap(count + n), start[t], age[t] + n)
      BY <1>3, <1>4, <2>3, <3>1, TickTells
    <3> QED BY <1>2, <2>1, <2>3, <3>2
  <2>4. CASE Tells(count, start[t], age[t]) /\ age'[t] # age[t] + n
    BY <1>5, <2>1, <2>2, <2>4
  <2>5. CASE ~Tells(count, start[t], age[t])
    <3>1. CASE t \in Listed /\ age[t] = MaxAge
      BY <1>5, <2>1, <3>1
    <3>2. CASE t \notin Listed /\ (interval[t] = 0 \/ age[t] > interval[t] + MaxLag)
      BY <1>5, <2>1, <2>2, <3>2
    <3> QED BY <1>1, <2>5, <3>1, <3>2 DEF AgesTold
  <2> QED BY <2>3, <2>4, <2>5
<1>8. age' \in [Timer -> 0 .. MaxAge]
  BY <1>2, <1>5
<1>9. polled' \in BOOLEAN
  BY <1>1, <1>2 DEF PollIfExpired, TimersTyped
<1>10. TimersTyped'
  BY <1>1, <1>2, <1>6, <1>8, <1>9 DEF TimersTyped
<1>11. OwnersKept'
  BY <1>1, <1>2, <1>3 DEF OwnersKept
<1> QED BY <1>7, <1>10, <1>11 DEF IInv

\* As clock.c's MAX_TICKS has it, half the range tells the past from the future: no
\* interval, with the ticks an interrupt may catch up, reaches beyond it.
ShortIntervals == \A i \in Interval : i + MaxCatchUp < CLOCK_RANGE - MAX_TICKS

\* A tick that makes a timer due finds its cached expiration in the past.
LEMMA CachedIsPast ==
  ASSUME NEW now \in Clock, NEW s \in Clock, NEW i \in Interval \cup {0}, NEW a \in Nat,
         NEW n \in 1 .. MaxCatchUp, NEW next \in Clock, NEW t,
         ShortIntervals, Tells(now, s, a), a < i, a + n >= i,
         IsCached(t, s, i, a, next)
  PROVE  Wrap(next - Wrap(now + n) - 1) > MAX_TICKS
<1> DEFINE r == i - a
           e == s + i
           g == Wrap(e - next)
           u == Wrap(now + n)
<1>1. /\ CLOCK_RANGE \in Nat /\ CLOCK_RANGE >= 4 /\ MaxCatchUp \in Nat
      /\ i \in Interval /\ i \in Nat /\ n \in Nat /\ n <= MaxCatchUp
      /\ now \in Int /\ s \in Int /\ next \in Int /\ e \in Int
  BY Constants DEF Clock
<1>2. i + MaxCatchUp < CLOCK_RANGE - MAX_TICKS /\ MAX_TICKS \in Nat
  <2>1. MAX_TICKS \in Nat
    BY <1>1 DEF MAX_TICKS
  <2> QED BY <1>1, <2>1 DEF ShortIntervals
<1>3. Wrap(e - now) = r /\ r \in 1 .. i /\ r <= n
  <2>1. Wrap(s + i - now) = r /\ r \in 1 .. i
    BY AwayIsLeft
  <2>2. s + i - now = e - now
    BY <1>1
  <2> QED BY <1>1, <2>1, <2>2
<1>4. g \in Clock /\ g <= i
  <2>1. s + i - next = e - next /\ e - next \in Int
    BY <1>1
  <2>2. Wrap(s + i - next) <= i
    BY DEF IsCached
  <2> QED BY <2>1, <2>2, WrapFacts
<1> DEFINE x == e - now
           y == e - next
<1>5. x \in Int /\ y \in Int /\ Wrap(x) = Wrap(r) /\ Wrap(y) = Wrap(g) /\ r \in Int /\ g \in Int
  <2>1. x \in Int /\ y \in Int
    BY <1>1
  <2>2. Wrap(Wrap(x)) = Wrap(x) /\ Wrap(Wrap(y)) = Wrap(y)
    BY <2>1, WrapFacts
  <2>3. r \in Int /\ g \in Int
    BY <1>1, <1>3, <1>4 DEF Clock
  <2> QED BY <1>3, <2>1, <2>2, <2>3
<1> DEFINE v == -n - 1
<1>6. v \in Int
  BY <1>1
<1>7. next - u - 1 = (next - 1) - u /\ next - 1 \in Int /\ now + n \in Int
  <2>1. now + n \in Int
    BY <1>1
  <2>2. u \in Int
    BY <1>1, <2>1, WrapFacts DEF Clock
  <2> QED BY <1>1, <2>1, <2>2
<1>8. Wrap((next - 1) - u) = Wrap((next - 1) - (now + n))
  <2>1. Wrap(u) = Wrap(now + n) /\ u \in Int
    BY <1>1, <1>7, WrapFacts DEF Clock
  <2> HIDE DEF u
  <2> QED BY <1>7, <2>1, WrapSums
<1>9. (next - 1) - (now + n) = (v - y) + x
  BY <1>1
<1> HIDE DEF x, y, g, v, u, e
<1>10. Wrap(v - y) = Wrap(v - g)
  BY <1>5, <1>6, WrapSums
<1>11. Wrap((v - y) + x) = Wrap((v - g) + x)
  <2>1. v - y \in Int /\ v - g \in Int
    BY <1>5, <1>6
  <2> QED BY <1>5, <1>10, <2>1, WrapSums
<1>12. Wrap(x + (v - g)) = Wrap(r + (v - g))
  <2>1. v - g \in Int
    BY <1>5, <1>6
  <2> QED BY <1>5, <2>1, WrapSums
<1>13. (v - g) + x = x + (v - g)
  BY <1>5, <1>6
<1>14. r + (v - g) \in -CLOCK_RANGE .. -1 /\ r + (v - g) >= -(i + MaxCatchUp)
  BY <1>1, <1>2, <1>3, <1>4, <1>5 DEF v, Clock
<1>15. r + (v - g) \in Int /\ Wrap(r + (v - g)) = r + (v - g) + CLOCK_RANGE
  BY <1>14, <1>5, <1>6, WrapFacts
<1>16. Wrap(r + (v - g)) > MAX_TICKS
  BY <1>1, <1>2, <1>14, <1>15, <1>5, <1>6
<1>17. Wrap(next - u - 1) = Wrap(r + (v - g))
  BY <1>7, <1>8, <1>9, <1>11, <1>12, <1>13
<1> QED BY <1>16, <1>17 DEF u

LEMMA TickWatches ==
  ASSUME WatchInv, ShortIntervals, NEW n \in 1 .. MaxCatchUp, timera1(n)
  PROVE  WatchInv'
<1>1. IInv /\ TimersTyped /\ AgesTold /\ AgesBounded /\ Cached /\ DueTimerNoticed
  BY DEF WatchInv, IInv
<1>2. /\ count' = Wrap(count + n) /\ age' = [t \in Timer |-> Older(t, n)]
      /\ UNCHANGED <<start, interval, p, timerlist, next_expiration, scan, events, alive>>
      /\ InTime /\ PollIfExpired(count')
  BY DEF timera1, timerVars
<1>3. n \in Nat /\ n <= MaxCatchUp /\ Listed' = Listed /\ Listed \subseteq Timer
  BY <1>1, <1>2, Constants DEF TimersTyped, Listed
<1>4. /\ count \in Clock /\ start \in [Timer -> Clock] /\ interval \in [Timer -> Interval \cup {0}]
      /\ age \in [Timer -> 0 .. MaxAge] /\ next_expiration \in Clock
  BY <1>1 DEF TimersTyped
<1>5. polled => polled'
  BY <1>2 DEF PollIfExpired
<1>6. ASSUME NEW t \in Listed
      PROVE  /\ t \in Timer /\ age[t] \in Nat /\ interval[t] \in Nat
             /\ interval[t] \in Interval \cup {0}
             /\ interval[t] + MaxLag + MaxCatchUp < CLOCK_RANGE
             /\ age[t] < interval[t] + MaxLag
             /\ age'[t] = age[t] + n
             /\ Tells(count, start[t], age[t])
  <2>1. t \in Timer /\ interval[t] \in Interval \cup {0} /\ age[t] \in Nat
    BY <1>3, <1>4, Constants
  <2>2. interval[t] \in Nat /\ interval[t] + MaxLag + MaxCatchUp < CLOCK_RANGE
    BY <2>1, Constants
  <2>3. age[t] < interval[t] + MaxLag + MaxCatchUp
    BY <1>1 DEF AgesBounded
  <2>4. age[t] < interval[t] + MaxLag
    <3>1. CASE Overdue(t)
      <4>1. polled \/ scan # Idle
        BY <1>1, <2>1, <3>1 DEF DueTimerNoticed
      <4> QED BY <1>2, <2>1, <3>1, <4>1 DEF InTime
    <3>2. CASE ~Overdue(t)
      <4>1. age[t] < interval[t] \/ MaxLag = 0
        BY <2>1, <2>2, <3>2 DEF Overdue
      <4>2. age[t] < interval[t]
        BY <2>1, <2>2, <3>2 DEF Overdue
      <4> QED BY <2>1, <2>2, <4>2, Constants
    <3> QED BY <3>1, <3>2
  <2>5. age'[t] = age[t] + n
    <3>1. age'[t] = IF age[t] + n > MaxAge THEN MaxAge ELSE age[t] + n
      BY <1>2, <2>1 DEF Older
    <3> QED BY <1>3, <2>1, <2>2, <2>4, <3>1, Constants
  <2>6. Tells(count, start[t], age[t])
    <3>1. age[t] # MaxAge
      BY <2>1, <2>2, <2>3, Constants
    <3> QED BY <1>1, <2>1, <3>1 DEF AgesTold
  <2> QED BY <2>1, <2>2, <2>4, <2>5, <2>6
<1>7. AgesBounded'
  BY <1>2, <1>3, <1>6, Constants DEF AgesBounded
<1>8. Cached'
  <2> SUFFICES ASSUME NEW t \in Listed, age'[t] < interval[t]
               PROVE  Wrap(start[t] + interval[t] - next_expiration) <= interval[t]
    BY <1>2, <1>3 DEF Cached, IsCached
  <2>1. age[t] < interval[t]
    BY <1>3, <1>6
  <2> QED BY <1>1, <2>1 DEF Cached, IsCached
<1>9. DueTimerNoticed'
  <2> SUFFICES ASSUME NEW t \in Timer, Overdue(t)'
               PROVE  polled' \/ (scan' # Idle /\ \E i \in scan' .. Len(timerlist') : timerlist'[i] = t)
    BY DEF DueTimerNoticed
  <2>1. t \in Listed /\ age'[t] >= interval[t]
    BY <1>2, <1>3 DEF Overdue
  <2>2. CASE Overdue(t)
    BY <1>1, <1>2, <1>5, <2>2 DEF DueTimerNoticed
  <2>3. CASE ~Overdue(t)
    <3>1. age[t] < interval[t] /\ age[t] + n >= interval[t]
      BY <1>6, <2>1, <2>3 DEF Overdue
    <3>2. IsCached(t, start[t], interval[t], age[t], next_expiration)
      BY <1>1, <2>1 DEF Cached
    <3>3. Wrap(next_expiration - Wrap(count + n) - 1) > MAX_TICKS
      BY <1>4, <1>6, <2>1, <3>1, <3>2, CachedIsPast
    <3>4. timerlist # <<>>
      BY <2>1 DEF Listed
    <3>5. polled'
      BY <1>2, <3>3, <3>4 DEF PollIfExpired
    <3> QED BY <3>5
  <2> QED BY <2>2, <2>3
<1> QED BY <1>1, <1>7, <1>8, <1>9, TickKeeps DEF WatchInv

-----------------------------------------------------------------------------
(***************************************************************************)
(* etimer_process.                                                         *)
(***************************************************************************)
\* The timer the scan is at has expired, and there is room for its event.
Posts(t) ==
  /\ t = timerlist[scan] /\ timer_expired(t) /\ Len(events) < NumEvents
  /\ events' = Append(events, [to |-> p[t], et |-> t])
  /\ p' = [p EXCEPT ![t] = PROCESS_NONE]
  /\ scan' = 1
  /\ UNCHANGED <<count, start, interval, polled, alive, age>>
  /\ Leaves({t})

\* It has not, or there is none.
Passes(t) ==
  /\ t = timerlist[scan]
  /\ polled' = (polled \/ timer_expired(t))
  /\ scan' = scan + 1
  /\ UNCHANGED <<count, timerVars, events, alive, age>>

LEMMA ScanCases ==
  ASSUME IInv, ScanTimer
  PROVE  /\ scan \in DOMAIN timerlist
         /\ \E t \in Listed : Posts(t) \/ Passes(t)
<1>1. scan \in DOMAIN timerlist
  BY DEF ScanTimer
<1> DEFINE t == timerlist[scan]
<1>2. t \in Listed
  BY <1>1 DEF Listed
<1>3. CASE timer_expired(t) /\ Len(events) < NumEvents
  <2>1. /\ events' = Append(events, [to |-> p[t], et |-> t])
        /\ p' = [p EXCEPT ![t] = PROCESS_NONE]
        /\ timerlist' = Without(timerlist, {t})
        /\ next_expiration' = update_time(timerlist', start, interval)
        /\ scan' = 1 /\ UNCHANGED polled
        /\ UNCHANGED <<count, start, interval, alive, age>>
    BY <1>3 DEF ScanTimer
  <2>2. Posts(t)
    BY <1>3, <2>1 DEF Posts, Leaves
  <2> QED BY <1>1, <1>2, <2>2
<1>4. CASE ~ (timer_expired(t) /\ Len(events) < NumEvents)
  <2>1. Passes(t)
    BY <1>4 DEF ScanTimer, Passes, timerVars
  <2> QED BY <1>1, <1>2, <2>1
<1> QED BY <1>3, <1>4

\* A timer that has expired has run for its interval.
LEMMA ExpiredIsDue ==
  ASSUME IInv, NEW t \in Listed
  PROVE  /\ timer_expired(t) => age[t] >= interval[t]
         /\ AgesBounded => (timer_expired(t) <=> age[t] >= interval[t])
<1>1. /\ t \in Timer /\ count \in Clock /\ start[t] \in Clock
      /\ interval[t] \in Interval \cup {0} /\ age[t] \in 0 .. MaxAge
  BY DEF IInv, TimersTyped, Listed
<1>2. /\ interval[t] \in Nat /\ interval[t] + MaxLag + MaxCatchUp < CLOCK_RANGE
      /\ age[t] \in Nat
  BY <1>1, Constants
<1>3. CASE age[t] = MaxAge
  <2>1. age[t] >= interval[t] /\ ~ (age[t] < interval[t] + MaxLag + MaxCatchUp)
    BY <1>2, <1>3, Constants
  <2> QED BY <2>1 DEF AgesBounded
<1>4. CASE age[t] # MaxAge
  <2>1. Tells(count, start[t], age[t])
    BY <1>1, <1>4 DEF IInv, AgesTold
  <2>2. /\ Wrap(count - start[t]) >= interval[t] => age[t] >= interval[t]
        /\ age[t] < CLOCK_RANGE => (Wrap(count - start[t]) >= interval[t] <=> age[t] >= interval[t])
    BY <1>1, <1>2, <2>1, ExpiredTells
  <2>3. AgesBounded => age[t] < CLOCK_RANGE
    BY <1>2, Constants DEF AgesBounded
  <2> QED BY <2>2, <2>3 DEF timer_expired
<1> QED BY <1>3, <1>4

LEMMA PostKeeps ==
  ASSUME IInv, scan \in DOMAIN timerlist, NEW t \in Listed, Posts(t)
  PROVE  /\ IInv'
         /\ Cached => Cached'
         /\ AgesBounded => AgesBounded'
         /\ DueTimerNoticed'
<1>1. TimersTyped /\ OwnersKept
  BY DEF IInv
<1>2. /\ events' = Append(events, [to |-> p[t], et |-> t]) /\ Len(events) < NumEvents
      /\ p' = [p EXCEPT ![t] = PROCESS_NONE] /\ scan' = 1
      /\ UNCHANGED <<count, start, interval, polled, alive, age>>
      /\ Leaves({t})
  BY DEF Posts
<1>3. /\ timerlist' \in Seq(Timer) /\ Once(timerlist') /\ Listed' = Listed \ {t}
      /\ next_expiration' \in Clock /\ AgesTold'
      /\ Cached => Cached'
      /\ AgesBounded => AgesBounded'
  BY <1>2, LeavingKeeps
<1>4. t \in Timer /\ Listed \subseteq Timer
  BY <1>1 DEF TimersTyped, Listed
<1>5. TimersTyped'
  <2>1. scan' \in 0 .. Len(timerlist') + 1
    BY <1>2, <1>3
  <2>2. p' \in [Timer -> Process \cup {PROCESS_NONE}]
    BY <1>1, <1>2 DEF TimersTyped
  <2>3. events' \in Seq(Event) /\ Len(events') <= NumEvents
    <3> DEFINE e == [to |-> p[t], et |-> t]
    <3>1. e \in Event /\ events \in Seq(Event) /\ NumEvents \in Nat
      BY <1>1, <1>4, BoundAssumption DEF TimersTyped, Event
    <3> HIDE DEF e
    <3>2. events' = Append(events, e)
      BY <1>2 DEF e
    <3> QED BY <1>2, <3>1, <3>2
  <2> QED BY <1>1, <1>2, <1>3, <2>1, <2>2, <2>3 DEF TimersTyped
<1>6. OwnersKept'
  <2>1. p'[t] = PROCESS_NONE /\ \A u \in Timer : u # t => p'[u] = p[u]
    BY <1>1, <1>2, <1>4 DEF TimersTyped
  <2> QED BY <1>1, <1>2, <1>3, <1>4, <2>1 DEF OwnersKept
<1>7. DueTimerNoticed'
  <2> SUFFICES ASSUME NEW u \in Listed'
               PROVE  scan' # Idle /\ \E i \in scan' .. Len(timerlist') : timerlist'[i] = u
    BY DEF DueTimerNoticed, Overdue
  <2>1. \E i \in 1 .. Len(timerlist') : timerlist'[i] = u
    BY <1>3 DEF Listed
  <2> QED BY <1>2, <2>1 DEF Idle
<1> QED BY <1>3, <1>5, <1>6, <1>7 DEF IInv

LEMMA PassKeeps ==
  ASSUME IInv, scan \in DOMAIN timerlist, NEW t \in Listed, Passes(t)
  PROVE  /\ IInv'
         /\ Cached => Cached'
         /\ AgesBounded => AgesBounded'
         /\ AgesBounded /\ DueTimerNoticed => DueTimerNoticed'
<1>1. TimersTyped /\ OwnersKept /\ AgesTold
  BY DEF IInv
<1>2. /\ t = timerlist[scan] /\ polled' = (polled \/ timer_expired(t)) /\ scan' = scan + 1
      /\ UNCHANGED <<count, start, interval, p, timerlist, next_expiration, events, alive, age>>
  BY DEF Passes, timerVars
<1>3. Listed' = Listed
  BY <1>2 DEF Listed
<1>4. scan' \in 0 .. Len(timerlist') + 1 /\ scan' # Idle /\ scan \in Nat
  BY <1>1, <1>2 DEF TimersTyped, Idle
<1>5. polled' \in BOOLEAN
  BY <1>1, <1>2 DEF TimersTyped, timer_expired
<1>6. TimersTyped'
  BY <1>1, <1>2, <1>4, <1>5 DEF TimersTyped
<1>7. OwnersKept' /\ AgesTold'
  BY <1>1, <1>2, <1>3 DEF OwnersKept, AgesTold
<1>8. (Cached => Cached') /\ (AgesBounded => AgesBounded')
  BY <1>2, <1>3 DEF Cached, AgesBounded
<1>9. ASSUME AgesBounded, DueTimerNoticed  PROVE DueTimerNoticed'
  <2> SUFFICES ASSUME NEW u \in Timer, Overdue(u)'
               PROVE  polled' \/ \E i \in scan' .. Len(timerlist') : timerlist'[i] = u
    BY <1>4 DEF DueTimerNoticed
  <2>1. Overdue(u)
    BY <1>2, <1>3 DEF Overdue
  <2>2. CASE polled
    BY <1>2, <2>2
  <2>3. CASE ~polled
    <3>1. PICK i \in scan .. Len(timerlist) : timerlist[i] = u
      BY <1>9, <2>1, <2>3 DEF DueTimerNoticed
    <3>2. CASE i = scan
      <4>1. timer_expired(t)
        BY <1>2, <1>9, <2>1, <3>1, <3>2, ExpiredIsDue DEF Overdue
      <4> QED BY <1>2, <4>1
    <3>3. CASE i # scan
      <4>1. i \in scan + 1 .. Len(timerlist)
        BY <1>4, <3>1, <3>3
      <4> QED BY <1>2, <3>1, <4>1
    <3> QED BY <3>2, <3>3
  <2> QED BY <2>2, <2>3
<1> QED BY <1>6, <1>7, <1>8, <1>9 DEF IInv

\* The other steps touch neither list nor timers.
OtherStep == BeginScan \/ EndScan \/ DeliverEvent \/ UNCHANGED vars
             \/ \E q \in Mortal : ProcessStarts(q)

LEMMA OtherKeeps ==
  ASSUME IInv, OtherStep
  PROVE  /\ IInv'
         /\ Cached => Cached'
         /\ AgesBounded => AgesBounded'
         /\ DueTimerNoticed => DueTimerNoticed'
<1>1. TimersTyped /\ OwnersKept /\ AgesTold
  BY DEF IInv
<1>2. UNCHANGED <<count, start, interval, p, timerlist, next_expiration, age>>
  BY DEF OtherStep, BeginScan, EndScan, DeliverEvent, ProcessStarts, vars, timerVars
<1>3. Listed' = Listed
  BY <1>2 DEF Listed
<1>4. (Cached => Cached') /\ (AgesBounded => AgesBounded') /\ AgesTold'
  BY <1>1, <1>2, <1>3 DEF Cached, AgesBounded, AgesTold
<1>5. polled' \in BOOLEAN /\ scan' \in 0 .. Len(timerlist) + 1
  <2>1. polled \in BOOLEAN /\ scan \in 0 .. Len(timerlist) + 1 /\ Len(timerlist) \in Nat
    BY <1>1 DEF TimersTyped
  <2>2. polled' = polled \/ polled' = FALSE
    BY DEF OtherStep, BeginScan, EndScan, DeliverEvent, ProcessStarts, vars
  <2>3. scan' = scan \/ scan' = 1 \/ scan' = Idle
    BY DEF OtherStep, BeginScan, EndScan, DeliverEvent, ProcessStarts, vars
  <2>4. polled' \in BOOLEAN
    BY <2>1, <2>2
  <2>5. scan' \in 0 .. Len(timerlist) + 1
    BY <2>1, <2>3 DEF Idle
  <2> QED BY <2>4, <2>5
<1>6. alive \subseteq alive' /\ alive' \subseteq Process
  <2>1. \A q \in Mortal : q \in Process
    BY MortalAssumption
  <2> QED BY <1>1, <2>1 DEF OtherStep, BeginScan, EndScan, DeliverEvent, ProcessStarts, vars, TimersTyped
<1>7. events' \in Seq(Event) /\ Len(events') <= NumEvents
  <2>1. events \in Seq(Event) /\ Len(events) <= NumEvents
    BY <1>1 DEF TimersTyped
  <2>2. CASE events' = events
    BY <2>1, <2>2
  <2>3. CASE DeliverEvent
    <3>1. events # <<>> /\ events' = Tail(events)
      BY <2>3 DEF DeliverEvent
    <3> QED BY <2>1, <3>1, BoundAssumption
  <2> QED BY <2>2, <2>3 DEF OtherStep, BeginScan, EndScan, ProcessStarts, vars
<1>8. TimersTyped'
  BY <1>1, <1>2, <1>5, <1>6, <1>7 DEF TimersTyped
<1>9. OwnersKept'
  BY <1>1, <1>2, <1>3, <1>6 DEF OwnersKept
<1>10. ASSUME DueTimerNoticed  PROVE DueTimerNoticed'
  <2> SUFFICES ASSUME NEW u \in Timer, Overdue(u)'
               PROVE  polled' \/ (scan' # Idle /\ \E i \in scan' .. Len(timerlist') : timerlist'[i] = u)
    BY DEF DueTimerNoticed
  <2>1. Overdue(u) /\ u \in Listed
    BY <1>2, <1>3 DEF Overdue
  <2>2. polled \/ (scan # Idle /\ \E i \in scan .. Len(timerlist) : timerlist[i] = u)
    BY <1>10, <2>1 DEF DueTimerNoticed
  <2>3. CASE BeginScan
    <3>1. scan' = 1 /\ timerlist' = timerlist
      BY <1>2, <2>3 DEF BeginScan
    <3>2. \E i \in 1 .. Len(timerlist) : timerlist[i] = u
      BY <1>1, <2>1 DEF Listed, TimersTyped
    <3> QED BY <3>1, <3>2 DEF Idle
  <2>4. CASE EndScan
    <3>1. scan = Len(timerlist) + 1 /\ polled' = polled
      BY <2>4 DEF EndScan
    <3>2. \A i \in scan .. Len(timerlist) : FALSE
      BY <1>1, <3>1 DEF TimersTyped
    <3> QED BY <2>2, <3>1, <3>2
  <2>5. CASE polled' = polled /\ scan' = scan
    BY <1>2, <2>2, <2>5
  <2> QED BY <2>3, <2>4, <2>5 DEF OtherStep, DeliverEvent, ProcessStarts, vars
<1> QED BY <1>4, <1>8, <1>9, <1>10 DEF IInv
-----------------------------------------------------------------------------
(***************************************************************************)
(* The invariants.                                                         *)
(***************************************************************************)
LEMMA NextCases ==
  ASSUME [Next]_vars
  PROVE  \/ \E n \in 1 .. MaxCatchUp : timera1(n)
         \/ ScanTimer
         \/ \E t \in Timer : Starts(t)
         \/ \E t \in Timer : etimer_stop(t)
         \/ \E q \in Mortal : ProcessExits(q)
         \/ OtherStep
  BY DEF Next, Tick, MainStep, UserStep, OtherStep, Starts

LEMMA NextKeeps ==
  ASSUME IInv, [Next]_vars
  PROVE  /\ IInv'
         /\ ShortIntervals /\ WatchInv => WatchInv'
<1>1. ASSUME NEW n \in 1 .. MaxCatchUp, timera1(n)
      PROVE  IInv' /\ (ShortIntervals /\ WatchInv => WatchInv')
  BY <1>1, TickKeeps, TickWatches
<1>2. CASE ScanTimer
  <2>1. PICK t \in Listed : scan \in DOMAIN timerlist /\ (Posts(t) \/ Passes(t))
    BY <1>2, ScanCases
  <2>2. CASE Posts(t)
    BY <2>1, <2>2, PostKeeps DEF WatchInv
  <2>3. CASE Passes(t)
    BY <2>1, <2>3, PassKeeps DEF WatchInv
  <2> QED BY <2>1, <2>2, <2>3
<1>3. ASSUME NEW t \in Timer, Starts(t)
      PROVE  IInv' /\ (WatchInv => WatchInv')
  <2>1. PICK i \in Interval, s \in Clock, a \in 0 .. MaxLag :
               Tells(count, s, a) /\ Restarted(t, i, s, a)
    BY <1>3, StartsRestart
  <2> QED BY <2>1, RestartKeeps DEF WatchInv
<1>4. ASSUME NEW t \in Timer, etimer_stop(t)
      PROVE  IInv' /\ (WatchInv => WatchInv')
  BY <1>4, StopKeeps DEF WatchInv
<1>5. ASSUME NEW q \in Mortal, ProcessExits(q)
      PROVE  IInv' /\ (WatchInv => WatchInv')
  BY <1>5, ExitKeeps DEF WatchInv
<1>6. CASE OtherStep
  BY <1>6, OtherKeeps DEF WatchInv
<1> QED BY <1>1, <1>2, <1>3, <1>4, <1>5, <1>6, NextCases

\* The clock tells how old a timer is, whatever the intervals.
LEMMA ClockTellsAges == Spec => []IInv
<1>1. Init => IInv
  BY InitIInv
<1>2. IInv /\ [Next]_vars => IInv'
  BY NextKeeps
<1> QED BY <1>1, <1>2, PTL DEF Spec

\* List, owners and cached expiration agree, and no timer that is due is
\* overlooked: etimer.c's list, update_time and the comparison of clock.c:82.
THEOREM TimersStayWatched == ASSUME ShortIntervals PROVE Spec => []TimersWatched
<1>1. Init => WatchInv
  BY InitIInv DEF WatchInv
<1>2. WatchInv /\ [Next]_vars => WatchInv'
  BY NextKeeps DEF WatchInv
<1>3. WatchInv => TimersWatched
  <2> SUFFICES ASSUME WatchInv PROVE TimersWatched
    OBVIOUS
  <2>1. TimersTyped /\ OwnersKept /\ DueTimerNoticed
    BY DEF WatchInv, IInv
  <2>2. /\ timerlist \in Seq(Timer) /\ Once(timerlist) /\ scan \in 0 .. Len(timerlist) + 1
    BY <2>1 DEF TimersTyped, OwnersKept
  <2>3. Len(timerlist) <= Cardinality(Timer) /\ Cardinality(Timer) \in Nat
    BY <2>2, OnceIsShort, TimerAssumption, FS_CardinalityType
  <2>4. scan \in 0 .. Cardinality(Timer) + 1
    BY <2>2, <2>3
  <2>5. TypeOK
    BY <2>1, <2>3, <2>4 DEF TimersTyped, TypeOK
  <2>6. ListedIsPending
    BY <2>1 DEF OwnersKept, ListedIsPending, Once
  <2> QED BY <2>1, <2>5, <2>6 DEF TimersWatched
<1> QED BY <1>1, <1>2, <1>3, PTL DEF Spec
-----------------------------------------------------------------------------
(***************************************************************************)
(* The timers do what TimerService says.                                   *)
(***************************************************************************)
\* What is left of a timer's interval, and the timers of the events queued.
LeftOf(t) == IF t \in Listed /\ age[t] < interval[t] THEN interval[t] - age[t] ELSE 0
Left == [t \in Timer |-> LeftOf(t)]
EtsOf(ev) == [i \in DOMAIN ev |-> ev[i].et]
Ets == EtsOf(events)

LEMMA EtsAreTimers ==
  ASSUME NEW ev \in Seq(Event)
  PROVE  /\ EtsOf(ev) \in Seq(Timer) /\ Len(EtsOf(ev)) = Len(ev) /\ Len(ev) \in Nat
         /\ \A i \in 1 .. Len(ev) : EtsOf(ev)[i] = ev[i].et
<1>1. Len(ev) \in Nat /\ DOMAIN ev = 1 .. Len(ev)
  OBVIOUS
<1>2. ASSUME NEW i \in 1 .. Len(ev) PROVE ev[i].et \in Timer
  <2>1. ev[i] \in Event
    BY <1>2
  <2> QED BY <2>1 DEF Event
<1>3. EtsOf(ev) = [i \in 1 .. Len(ev) |-> ev[i].et]
  BY <1>1 DEF EtsOf
<1>4. EtsOf(ev) \in Seq(Timer) /\ Len(EtsOf(ev)) = Len(ev)
  BY <1>1, <1>2, <1>3
<1> QED BY <1>1, <1>3, <1>4

LEMMA LongestIsLongest ==
  ASSUME NEW i \in Interval
  PROVE  Longest \in Interval /\ \A j \in Interval : j <= Longest
<1> DEFINE S == {CLOCK_RANGE - j : j \in Interval}
<1>1. \A j \in Interval : j \in Nat /\ j < CLOCK_RANGE /\ CLOCK_RANGE - j \in Nat
  <2> TAKE j \in Interval
  <2>1. j \in Nat /\ j + MaxLag + MaxCatchUp < CLOCK_RANGE
    BY Constants
  <2> QED BY <2>1, Constants
<1>2. S \in SUBSET Nat /\ S # {}
  BY <1>1
<1>3. PICK d \in S : \A e \in S : d <= e
  BY <1>2, LeastElement
<1>4. PICK m \in Interval : d = CLOCK_RANGE - m
  BY <1>3
<1>5. \A j \in Interval : j <= m
  <2> TAKE j \in Interval
  <2>1. CLOCK_RANGE - m <= CLOCK_RANGE - j
    BY <1>3, <1>4
  <2> QED BY <1>1, <2>1, Constants
<1> QED BY <1>4, <1>5 DEF Longest

LEMMA LeftIsShort ==
  ASSUME IInv, NEW t \in Timer
  PROVE  /\ LeftOf(t) \in Nat
         /\ LeftOf(t) > 0 => /\ t \in Listed /\ age[t] < interval[t]
                             /\ LeftOf(t) = interval[t] - age[t]
                             /\ interval[t] \in Interval /\ LeftOf(t) <= Longest
<1>1. interval[t] \in Interval \cup {0} /\ age[t] \in 0 .. MaxAge
  BY DEF IInv, TimersTyped
<1>2. interval[t] \in Nat /\ age[t] \in Nat
  BY <1>1, Constants
<1>3. ASSUME t \in Listed, age[t] < interval[t]
      PROVE  interval[t] \in Interval /\ interval[t] - age[t] \in Nat
             /\ interval[t] - age[t] <= Longest
  <2>1. interval[t] \in Interval
    BY <1>1, <1>2, <1>3
  <2>2. interval[t] <= Longest /\ Longest \in Nat
    BY <2>1, LongestIsLongest, Constants
  <2> QED BY <1>2, <1>3, <2>1, <2>2
<1> QED BY <1>3 DEF LeftOf

\* A tick lets as many ticks elapse, or leaves what had elapsed already.
LEMMA TickElapses ==
  ASSUME IInv, NEW n \in 1 .. MaxCatchUp, timera1(n)
  PROVE  Service!Next \/ UNCHANGED Service!vars
<1>1. /\ age' = [t \in Timer |-> Older(t, n)]
      /\ UNCHANGED <<interval, timerlist, events>>
  BY DEF timera1, timerVars
<1>2. Listed' = Listed /\ Ets' = Ets
  BY <1>1 DEF Listed, Ets, EtsOf
<1>3. n \in Nat /\ n >= 1
  BY Constants
<1>4. ASSUME NEW t \in Timer
      PROVE  Left'[t] = IF Left[t] > n THEN Left[t] - n ELSE 0
  <2>1. /\ interval[t] \in Nat /\ age[t] \in Nat /\ interval[t] < CLOCK_RANGE
    <3>1. interval[t] \in Interval \cup {0} /\ age[t] \in 0 .. MaxAge
      BY DEF IInv, TimersTyped
    <3>2. interval[t] \in Nat /\ interval[t] + MaxLag + MaxCatchUp < CLOCK_RANGE
      BY <3>1, Constants
    <3> QED BY <3>1, <3>2, Constants
  <2>2. Left'[t] = LeftOf(t)' /\ Left[t] = LeftOf(t)
    BY DEF Left
  <2>3. CASE t \notin Listed
    BY <1>2, <1>3, <2>2, <2>3 DEF LeftOf
  <2>4. CASE t \in Listed
    <3>1. age'[t] = IF age[t] + n > MaxAge THEN MaxAge ELSE age[t] + n
      BY <1>1, <2>4 DEF Older
    <3>2. LeftOf(t) = IF age[t] < interval[t] THEN interval[t] - age[t] ELSE 0
      BY <2>4 DEF LeftOf
    <3>3. LeftOf(t)' = IF age'[t] < interval[t] THEN interval[t] - age'[t] ELSE 0
      BY <1>1, <1>2, <2>4 DEF LeftOf
    <3> QED BY <1>3, <2>1, <2>2, <3>1, <3>2, <3>3, Constants
  <2> QED BY <2>3, <2>4
<1>5. CASE \A t \in Timer : Left[t] = 0
  <2>1. \A t \in Timer : Left'[t] = Left[t]
    BY <1>3, <1>4, <1>5
  <2>2. Left' = Left
    BY <2>1 DEF Left
  <2> QED BY <1>2, <2>2 DEF Service!vars, Left, LeftOf, Ets, EtsOf
<1>6. CASE \E t \in Timer : Left[t] # 0
  <2>1. PICK u \in Timer : Left[u] # 0
    BY <1>6
  <2>2. LeftOf(u) \in Nat /\ LeftOf(u) # 0
    BY <2>1, LeftIsShort DEF Left
  <2>3. LeftOf(u) > 0 /\ interval[u] \in Interval /\ LeftOf(u) <= Longest
    BY <2>2, LeftIsShort
  <2>4. Longest \in Nat /\ Longest >= 1
    BY <2>2, <2>3, LongestIsLongest, Constants
  <2> DEFINE m == IF n > Longest THEN Longest ELSE n
  <2>5. m \in 1 .. Longest
    BY <1>3, <2>4
  <2>6. ASSUME NEW t \in Timer
        PROVE  Left'[t] = IF Left[t] > m THEN Left[t] - m ELSE 0
    <3>1. Left[t] = LeftOf(t)
      BY DEF Left
    <3>2. Left[t] \in Nat /\ Left[t] <= Longest
      BY <2>4, <3>1, LeftIsShort
    <3> QED BY <1>3, <1>4, <2>4, <3>2
  <2>7. Left' = [t \in Timer |-> IF Left[t] > m THEN Left[t] - m ELSE 0]
    BY <2>6 DEF Left
  <2> HIDE DEF m
  <2>8. Service!Elapse(m)
    BY <1>2, <2>7 DEF Service!Elapse, Left, LeftOf, Ets, EtsOf
  <2> QED BY <2>5, <2>8 DEF Service!Next
<1> QED BY <1>5, <1>6
LEMMA StartsImplement ==
  ASSUME IInv, NEW t \in Timer, NEW i \in Interval, NEW s \in Clock, NEW a \in 0 .. MaxLag,
         Restarted(t, i, s, a)
  PROVE  Service!Next
<1>1. /\ User[t] \in alive /\ add_timer(t, User[t])
      /\ interval' = [interval EXCEPT ![t] = i]
      /\ age' = [age EXCEPT ![t] = a]
      /\ events' = events
  BY DEF Restarted, MayUse
<1>2. Listed' = Listed \cup {t} /\ Ets' = Ets
  BY <1>1, AddTimer DEF Ets, EtsOf
<1>3. interval \in [Timer -> Interval \cup {0}] /\ age \in [Timer -> 0 .. MaxAge]
  BY DEF IInv, TimersTyped
<1> DEFINE n == IF a < i THEN i - a ELSE 0
<1>4. n \in 0 .. Longest
  <2>1. i \in Nat /\ a \in Nat /\ Longest \in Nat /\ i <= Longest
    BY LongestIsLongest, Constants
  <2> QED BY <2>1
<1>5. \A u \in Timer : LeftOf(u)' = IF u = t THEN n ELSE LeftOf(u)
  <2>1. TAKE u \in Timer
  <2>2. u = t => interval'[u] = i /\ age'[u] = a
    BY <1>1, <1>3
  <2>3. u # t => interval'[u] = interval[u] /\ age'[u] = age[u]
    BY <1>1, <1>3
  <2>4. u = t => LeftOf(u)' = n
    BY <1>2, <2>2 DEF LeftOf
  <2>5. u # t => LeftOf(u)' = LeftOf(u)
    BY <1>2, <2>3 DEF LeftOf
  <2> QED BY <2>4, <2>5
<1> HIDE DEF n
<1>6. Left' = [Left EXCEPT ![t] = n]
  BY <1>5 DEF Left
<1>7. Service!Start(t, n)
  BY <1>2, <1>6 DEF Service!Start, Left, LeftOf, Ets, EtsOf
<1> QED BY <1>4, <1>7 DEF Service!Next

LEMMA LeavingImplements ==
  ASSUME IInv, NEW S \in SUBSET Timer, Leaves(S), events' = events
  PROVE  Service!Next
<1>1. Listed' = Listed \ S /\ Ets' = Ets
  BY LeavingKeeps DEF Ets, EtsOf
<1>2. UNCHANGED <<interval, age>>
  BY DEF Leaves
<1>3. \A t \in Timer : LeftOf(t)' = IF t \in S THEN 0 ELSE Left[t]
  BY <1>1, <1>2 DEF Left, LeftOf
<1>4. Left' = [t \in Timer |-> IF t \in S THEN 0 ELSE Left[t]]
  BY <1>3 DEF Left
<1>5. Service!Stop(S) /\ Ets' = Ets
  BY <1>1, <1>4 DEF Service!Stop, Left, LeftOf, Ets, EtsOf
<1> QED BY <1>5 DEF Service!Next, Ets, EtsOf

\* A TIMER event is posted for a timer of which nothing is left.
LEMMA PostImplements ==
  ASSUME IInv, scan \in DOMAIN timerlist, NEW t \in Listed, Posts(t)
  PROVE  Service!Next
<1>1. /\ timer_expired(t) /\ Len(events) < NumEvents
      /\ events' = Append(events, [to |-> p[t], et |-> t])
      /\ UNCHANGED <<interval, age>> /\ Leaves({t})
  BY DEF Posts
<1>2. Listed' = Listed \ {t}
  BY <1>1, LeavingKeeps
<1>3. t \in Timer /\ events \in Seq(Event)
  BY DEF IInv, TimersTyped, Listed
<1>4. ~ (age[t] < interval[t])
  <2>1. age[t] \in 0 .. MaxAge /\ interval[t] \in Interval \cup {0}
    BY <1>3 DEF IInv, TimersTyped
  <2>2. age[t] \in Nat /\ interval[t] \in Nat /\ age[t] >= interval[t]
    BY <1>1, <2>1, ExpiredIsDue, Constants
  <2> QED BY <2>2
<1>5. Left[t] = 0
  BY <1>3, <1>4 DEF Left, LeftOf
<1>6. \A u \in Timer : LeftOf(u)' = LeftOf(u)
  BY <1>1, <1>2, <1>4 DEF LeftOf
<1>7. Left' = Left
  BY <1>6 DEF Left
<1>8. Len(Ets) = Len(events) /\ Ets' = Append(Ets, t)
  <2> DEFINE e == [to |-> p[t], et |-> t]
  <2>1. e.et = t
    OBVIOUS
  <2> HIDE DEF e
  <2>2. events' = Append(events, e)
    BY <1>1 DEF e
  <2>3. Ets \in Seq(Timer) /\ Len(Ets) = Len(events) /\ Len(events) \in Nat
    BY <1>3, EtsAreTimers DEF Ets
  <2>4. e \in Event
    BY <1>3 DEF e, Event, IInv, TimersTyped
  <2>5. /\ events' \in Seq(Event) /\ Len(events') = Len(events) + 1
        /\ \A j \in 1 .. Len(events) : events'[j] = events[j]
        /\ events'[Len(events) + 1] = e
    BY <1>3, <2>2, <2>4
  <2>6. /\ Ets' \in Seq(Timer) /\ Len(Ets') = Len(events) + 1
        /\ \A j \in 1 .. Len(events) + 1 : Ets'[j] = events'[j].et
    BY <2>5, EtsAreTimers DEF Ets
  <2>7. /\ Append(Ets, t) \in Seq(Timer) /\ Len(Append(Ets, t)) = Len(events) + 1
        /\ \A j \in 1 .. Len(events) : Append(Ets, t)[j] = Ets[j]
        /\ Append(Ets, t)[Len(events) + 1] = t
    BY <1>3, <2>3
  <2>8. \A j \in 1 .. Len(events) : Ets[j] = events[j].et
    BY <1>3, EtsAreTimers DEF Ets
  <2>9. \A j \in 1 .. Len(Ets') : Ets'[j] = Append(Ets, t)[j]
    BY <2>1, <2>3, <2>5, <2>6, <2>7, <2>8
  <2>10. Ets' = Append(Ets, t)
    BY <2>6, <2>7, <2>9, SeqEqual
  <2> QED BY <2>3, <2>10
<1>9. Service!Expire(t)
  BY <1>1, <1>2, <1>3, <1>5, <1>7, <1>8 DEF Service!Expire, Left, LeftOf, Ets, EtsOf
<1> QED BY <1>3, <1>9 DEF Service!Next

LEMMA OtherImplements ==
  ASSUME IInv, OtherStep
  PROVE  Service!Next \/ UNCHANGED Service!vars
<1>1. UNCHANGED <<interval, timerlist, age>>
  BY DEF OtherStep, BeginScan, EndScan, DeliverEvent, ProcessStarts, vars, timerVars
<1>2. Listed' = Listed
  BY <1>1 DEF Listed
<1>3. Left' = Left
  BY <1>1, <1>2 DEF Left, LeftOf
<1>4. CASE events' = events
  BY <1>2, <1>3, <1>4 DEF Service!vars, Left, LeftOf
<1>5. CASE DeliverEvent
  <2>1. events # <<>> /\ events' = Tail(events) /\ events \in Seq(Event)
    BY <1>5 DEF DeliverEvent, IInv, TimersTyped
  <2>2. /\ Ets \in Seq(Timer) /\ Len(Ets) = Len(events)
        /\ \A j \in 1 .. Len(events) : Ets[j] = events[j].et
        /\ Len(events) \in Nat \ {0}
    BY <2>1, EtsAreTimers DEF Ets
  <2>3. /\ events' \in Seq(Event) /\ Len(events') = Len(events) - 1
        /\ \A j \in 1 .. Len(events) - 1 : events'[j] = events[j + 1]
    BY <2>1, <2>2
  <2>a. /\ Ets' \in Seq(Timer) /\ Len(Ets') = Len(events) - 1
        /\ \A j \in 1 .. Len(events) - 1 : Ets'[j] = events'[j].et
    BY <2>3, EtsAreTimers DEF Ets
  <2>b. Ets # <<>>
    BY <2>2
  <2>c. /\ Tail(Ets) \in Seq(Timer) /\ Len(Tail(Ets)) = Len(events) - 1
        /\ \A j \in 1 .. Len(events) - 1 : Tail(Ets)[j] = Ets[j + 1]
    BY <2>2, <2>b
  <2>d. \A j \in 1 .. Len(Ets') : Ets'[j] = Tail(Ets)[j]
    <3> TAKE j \in 1 .. Len(Ets')
    <3>1. j \in 1 .. Len(events) - 1 /\ j + 1 \in 1 .. Len(events)
      BY <2>2, <2>a
    <3> QED BY <2>2, <2>3, <2>a, <2>c, <3>1
  <2>e. Ets' = Tail(Ets)
    BY <2>a, <2>c, <2>d, SeqEqual
  <2>4. Service!Deliver
    BY <1>2, <1>3, <2>b, <2>e DEF Service!Deliver, Left, LeftOf, Ets, EtsOf
  <2> QED BY <2>4 DEF Service!Next
<1> QED BY <1>4, <1>5 DEF OtherStep, BeginScan, EndScan, ProcessStarts, vars

LEMMA NextImplements ==
  ASSUME IInv, [Next]_vars
  PROVE  Service!Next \/ UNCHANGED Service!vars
<1>1. ASSUME NEW n \in 1 .. MaxCatchUp, timera1(n)
      PROVE  Service!Next \/ UNCHANGED Service!vars
  BY <1>1, TickElapses
<1>2. CASE ScanTimer
  <2>1. PICK t \in Listed : scan \in DOMAIN timerlist /\ (Posts(t) \/ Passes(t))
    BY <1>2, ScanCases
  <2>2. CASE Posts(t)
    BY <2>1, <2>2, PostImplements
  <2>3. CASE Passes(t)
    BY <2>3 DEF Passes, timerVars, Service!vars, Listed
  <2> QED BY <2>1, <2>2, <2>3
<1>3. ASSUME NEW t \in Timer, Starts(t)
      PROVE  Service!Next
  BY <1>3, StartsRestart, StartsImplement
<1>4. ASSUME NEW t \in Timer, etimer_stop(t)
      PROVE  Service!Next
  BY <1>4, StopKeeps, LeavingImplements
<1>5. ASSUME NEW q \in Mortal, ProcessExits(q)
      PROVE  Service!Next
  BY <1>5, ExitKeeps, LeavingImplements
<1>6. CASE OtherStep
  BY <1>6, OtherImplements
<1> QED BY <1>1, <1>2, <1>3, <1>4, <1>5, <1>6, NextCases

\* The list, the 16-bit clock and the comparisons modulo its range do what a
\* counter of the ticks left would do: an event is posted only for a timer that has
\* run for its whole interval, and once.  Nothing is asked of the intervals but that
\* each, with the time main takes, fits the clock.
THEOREM EtimersImplementService == Spec => ImplementsTimerService
<1>1. Init => Service!Init
  <2> SUFFICES ASSUME Init PROVE Service!Init
    OBVIOUS
  <2>1. Listed = {}
    BY DEF Init, Listed
  <2>2. Left = [t \in Timer |-> 0]
    BY <2>1 DEF Left, LeftOf
  <2>3. Ets = <<>>
    BY DEF Init, Ets, EtsOf
  <2> QED BY <2>1, <2>2, <2>3 DEF Service!Init, Left, LeftOf, Ets, EtsOf
<1> QED
  BY <1>1, ClockTellsAges, NextImplements, PTL
  DEF Spec, ImplementsTimerService, Service!Spec
=============================================================================
