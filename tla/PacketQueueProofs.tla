-------------------------- MODULE PacketQueueProofs --------------------------
(***************************************************************************)
(* Proofs about core/net/rime/packetqueue.c and the callback timers of     *)
(* core/net/rime/ctimer.c, for every set of timers, every size of the      *)
(* queue, of the buffers and of the kernel's event queue, and about        *)
(* core/dev/slip.c, for every size of its buffers and every packet.        *)
(*                                                                         *)
(* What has to be added to the invariant the runs check is that no packet  *)
(* is on the queue twice: without it, taking one away would leave its      *)
(* block on the queue and free.  Of slip.c it says little, only what is    *)
(* handed over: what each of the two parts of the cyclic buffer holds has  *)
(* to be said while they fill.                                             *)
(***************************************************************************)
EXTENDS PacketQueue, Slip, RingArithmetic, FiniteSetTheorems,
        SequenceTheorems, TLAPS

\* No element comes twice.
Once(l) == \A i, j \in DOMAIN l : l[i] = l[j] => i = j

TimersTyped ==
  /\ pending \subseteq Ctimer
  /\ remaining \in [Ctimer -> 0 .. MaxInterval]
  /\ events \in Seq(Ctimer) /\ Len(events) <= NumEvents
  /\ interval \in [Ctimer -> 0 .. MaxInterval]
  /\ ctimer_list \in Seq(Ctimer)

\* The part about the timers alone.
TimersKept ==
  /\ TimersTyped
  /\ Once(ctimer_list)
  /\ Members(ctimer_list) \subseteq pending \cup Members(events)

\* The part about the queue alone.
QueueKept ==
  /\ memb \subseteq Item
  /\ bufs \subseteq Buf \cup Ref
  /\ buf \in [Item -> Buf \cup Ref \cup {NoBuf}]
  /\ list \in Seq(Item)
  /\ Once(list)
  /\ PoolsMatchQueue

\* The lifetimers of the packets that have a lifetime, and no others, are set.
LifetimesKept ==
  /\ mortal = Item \cap Members(ctimer_list)
  /\ mortal \subseteq Members(list)
  /\ Item \cap pending \subseteq mortal

IInv == TimersKept /\ QueueKept /\ LifetimesKept

-----------------------------------------------------------------------------
(***************************************************************************)
(* Lists.                                                                  *)
(***************************************************************************)
LEMMA ShortenedAt ==
  ASSUME NEW S, NEW l \in Seq(S), NEW at \in 1 .. Len(l)
  PROVE  /\ RemoveAt(l, at) \in Seq(S)
         /\ Len(RemoveAt(l, at)) = Len(l) - 1
         /\ \A i \in 1 .. Len(l) - 1 :
              RemoveAt(l, at)[i] = IF i < at THEN l[i] ELSE l[i + 1]
<1> DEFINE a == SubSeq(l, 1, at - 1)
           b == SubSeq(l, at + 1, Len(l))
<1>1. /\ a \in Seq(S) /\ Len(a) = at - 1
      /\ \A i \in 1 .. at - 1 : a[i] = l[i]
  OBVIOUS
<1>2. /\ b \in Seq(S) /\ Len(b) = Len(l) - at
      /\ \A i \in 1 .. Len(l) - at : b[i] = l[at + i]
  OBVIOUS
<1> HIDE DEF a, b
<1>3. /\ a \o b \in Seq(S) /\ Len(a \o b) = Len(l) - 1
      /\ \A i \in 1 .. Len(l) - 1 : (a \o b)[i] = IF i < at THEN a[i] ELSE b[i - (at - 1)]
  <2>1. a \o b \in Seq(S) /\ Len(a \o b) = Len(a) + Len(b)
    <3>1. a \in Seq(S) /\ b \in Seq(S)
      BY <1>1, <1>2
    <3> QED BY <3>1, ConcatProperties
  <2>2. \A i \in 1 .. Len(a) + Len(b) :
          (a \o b)[i] = IF i <= Len(a) THEN a[i] ELSE b[i - Len(a)]
    BY <1>1, <1>2
  <2>3. Len(a) + Len(b) = Len(l) - 1
    BY <1>1, <1>2
  <2>4. \A i \in 1 .. Len(l) - 1 : i <= at - 1 <=> i < at
    OBVIOUS
  <2> QED BY <1>1, <2>1, <2>2, <2>3, <2>4
<1>4. \A i \in 1 .. Len(l) - 1 : (a \o b)[i] = IF i < at THEN l[i] ELSE l[i + 1]
  <2>1. ASSUME NEW i \in 1 .. Len(l) - 1, i >= at  PROVE b[i - (at - 1)] = l[i + 1]
    <3>1. i - (at - 1) \in 1 .. Len(l) - at /\ at + (i - (at - 1)) = i + 1
      BY <2>1
    <3> QED BY <3>1, <1>2
  <2>2. ASSUME NEW i \in 1 .. Len(l) - 1, i < at  PROVE a[i] = l[i]
    <3>1. i \in 1 .. at - 1
      BY <2>2
    <3> QED BY <3>1, <1>1
  <2>3. ASSUME NEW i \in 1 .. Len(l) - 1
        PROVE  (a \o b)[i] = IF i < at THEN l[i] ELSE l[i + 1]
    <3>1. CASE i < at
      BY <1>3, <2>2, <3>1
    <3>2. CASE ~(i < at)
      BY <1>3, <2>1, <3>2
    <3> QED BY <3>1, <3>2
  <2> QED BY <2>3
<1> QED BY <1>3, <1>4 DEF RemoveAt, a, b

\* What list_remove makes of a list on which no item comes twice.
ItemRemoved(S, l, x, m) ==
  /\ m \in Seq(S)
  /\ Once(m)
  /\ Members(m) = Members(l) \ {x}

LEMMA RemoveTakesOff ==
  ASSUME NEW S, NEW l \in Seq(S), Once(l), NEW x
  PROVE  ItemRemoved(S, l, x, list_remove(l, x))
<1> DEFINE m == list_remove(l, x)
           I == {i \in 1 .. Len(l) : l[i] = x}
           at == SelectInSeq(l, LAMBDA v : v = x)
<1>1. DOMAIN l = 1 .. Len(l)
  OBVIOUS
<1>2. CASE I = {}
  <2>1. m = l
    BY <1>2 DEF list_remove, RemoveFirst
  <2>2. x \notin Members(l)
    BY <1>1, <1>2 DEF Members
  <2> QED BY <2>1, <2>2 DEF ItemRemoved
<1>3. CASE I # {}
  <2>1. at \in I
    <3>1. PICK k \in I : \A j \in I : k <= j
      BY <1>3, LeastElement, I \in SUBSET Nat
    <3>2. at = Min(I)
      BY <1>3 DEF SelectInSeq
    <3> QED BY <3>1, <3>2 DEF Min
  <2>2. m = RemoveAt(l, at)
    BY <1>3 DEF list_remove, RemoveFirst
  <2> HIDE DEF m, at
  <2>3. /\ m \in Seq(S) /\ Len(m) = Len(l) - 1
        /\ \A i \in 1 .. Len(l) - 1 : m[i] = IF i < at THEN l[i] ELSE l[i + 1]
        /\ DOMAIN m = 1 .. Len(l) - 1
    <3>1. at \in 1 .. Len(l)
      BY <2>1
    <3>2. /\ m \in Seq(S) /\ Len(m) = Len(l) - 1
          /\ \A i \in 1 .. Len(l) - 1 : m[i] = IF i < at THEN l[i] ELSE l[i + 1]
      BY <2>2, <3>1, ShortenedAt
    <3> QED BY <3>2
  <2>4. Once(m)
    <3> SUFFICES ASSUME NEW i \in 1 .. Len(l) - 1, NEW j \in 1 .. Len(l) - 1, m[i] = m[j]
                 PROVE  i = j
      BY <2>3 DEF Once
    <3>1. PICK p \in 1 .. Len(l) : m[i] = l[p] /\ p = IF i < at THEN i ELSE i + 1
      BY <2>1, <2>3
    <3>2. PICK q \in 1 .. Len(l) : m[j] = l[q] /\ q = IF j < at THEN j ELSE j + 1
      BY <2>1, <2>3
    <3>3. p = q
      BY <1>1, <3>1, <3>2 DEF Once
    <3> QED BY <3>1, <3>2, <3>3, <2>1
  <2>5. ASSUME NEW y \in Members(m)  PROVE y \in Members(l) /\ y # x
    <3>1. PICK i \in 1 .. Len(l) - 1 : y = m[i]
      BY <2>3 DEF Members
    <3>2. PICK p \in 1 .. Len(l) : y = l[p] /\ p # at
      BY <2>1, <2>3, <3>1
    <3>3. l[p] # l[at] /\ l[at] = x
      BY <1>1, <2>1, <3>2 DEF Once
    <3> QED BY <1>1, <3>2, <3>3 DEF Members
  <2>6. ASSUME NEW y \in Members(l), y # x  PROVE y \in Members(m)
    <3>1. PICK p \in 1 .. Len(l) : y = l[p]
      BY <1>1 DEF Members
    <3>2. p # at
      BY <2>1, <2>6, <3>1
    <3>3. \E i \in 1 .. Len(l) - 1 : m[i] = y
      <4>1. CASE p < at
        <5>1. p \in 1 .. Len(l) - 1 /\ m[p] = l[p]
          BY <2>1, <2>3, <4>1
        <5> QED BY <3>1, <5>1
      <4>2. CASE p > at
        <5>1. p - 1 \in 1 .. Len(l) - 1 /\ ~ (p - 1 < at) /\ (p - 1) + 1 = p
          BY <2>1, <4>2
        <5>2. m[p - 1] = l[p]
          BY <2>3, <5>1
        <5> QED BY <3>1, <5>1, <5>2
      <4> QED BY <2>1, <3>2, <4>1, <4>2
    <3> QED BY <2>3, <3>3 DEF Members
  <2>7. Members(m) = Members(l) \ {x}
    BY <2>5, <2>6
  <2> QED BY <2>3, <2>4, <2>7 DEF ItemRemoved, m
<1> QED BY <1>2, <1>3

\* What list_add makes of a list the item is not on.
LEMMA AddPutsBehind ==
  ASSUME NEW S, NEW l \in Seq(S), Once(l), NEW x \in S, x \notin Members(l)
  PROVE  /\ list_add(l, x) \in Seq(S)
         /\ Once(list_add(l, x))
         /\ Members(list_add(l, x)) = Members(l) \cup {x}
<1> DEFINE m == list_add(l, x)
<1>1. /\ m \in Seq(S) /\ Len(m) = Len(l) + 1
      /\ \A i \in 1 .. Len(l) : m[i] = l[i]
      /\ m[Len(l) + 1] = x
      /\ DOMAIN m = 1 .. Len(l) + 1 /\ DOMAIN l = 1 .. Len(l)
      /\ Len(l) \in Nat
  BY DEF list_add
<1> HIDE DEF m
<1>2. \A i \in 1 .. Len(l) : l[i] # x
  BY <1>1 DEF Members
<1>3. Once(m)
  <2> SUFFICES ASSUME NEW i \in 1 .. Len(l) + 1, NEW j \in 1 .. Len(l) + 1, m[i] = m[j]
               PROVE  i = j
    BY <1>1 DEF Once
  <2>1. CASE i \in 1 .. Len(l) /\ j \in 1 .. Len(l)
    BY <1>1, <2>1 DEF Once
  <2>2. CASE i = Len(l) + 1 /\ j \in 1 .. Len(l)
    BY <1>1, <1>2, <2>2
  <2>3. CASE i \in 1 .. Len(l) /\ j = Len(l) + 1
    BY <1>1, <1>2, <2>3
  <2>4. CASE i = Len(l) + 1 /\ j = Len(l) + 1
    BY <2>4
  <2> QED BY <1>1, <2>1, <2>2, <2>3, <2>4
<1>4. Members(m) = Members(l) \cup {x}
  <2>1. ASSUME NEW y \in Members(m)  PROVE y \in Members(l) \cup {x}
    <3>1. PICK i \in 1 .. Len(l) + 1 : y = m[i]
      BY <1>1 DEF Members
    <3>2. CASE i \in 1 .. Len(l)
      BY <1>1, <3>1, <3>2 DEF Members
    <3>3. CASE i = Len(l) + 1
      BY <1>1, <3>1, <3>3
    <3> QED BY <1>1, <3>2, <3>3
  <2>2. ASSUME NEW y \in Members(l)  PROVE y \in Members(m)
    <3>1. PICK i \in 1 .. Len(l) : y = l[i]
      BY <1>1 DEF Members
    <3>2. m[i] = y /\ i \in 1 .. Len(l) + 1
      BY <1>1, <3>1
    <3> QED BY <1>1, <3>2 DEF Members
  <2>3. x \in Members(m)
    <3>1. Len(l) + 1 \in 1 .. Len(l) + 1
      BY <1>1
    <3> QED BY <1>1, <3>1 DEF Members
  <2> QED BY <2>1, <2>2, <2>3
<1> QED BY <1>1, <1>3, <1>4 DEF m

\* Taking the first element of a queue takes away one occurrence of it.
LEMMA TailKeepsOthers ==
  ASSUME NEW S, NEW l \in Seq(S), l # <<>>
  PROVE  /\ Tail(l) \in Seq(S) /\ Len(Tail(l)) = Len(l) - 1
         /\ Members(l) \ {Head(l)} \subseteq Members(Tail(l))
<1>1. /\ Tail(l) \in Seq(S) /\ Len(Tail(l)) = Len(l) - 1
      /\ \A i \in 1 .. Len(l) - 1 : Tail(l)[i] = l[i + 1]
      /\ DOMAIN Tail(l) = 1 .. Len(l) - 1 /\ DOMAIN l = 1 .. Len(l)
      /\ Head(l) = l[1] /\ Len(l) \in Nat
  OBVIOUS
<1>2. ASSUME NEW y \in Members(l), y # Head(l)  PROVE y \in Members(Tail(l))
  <2>1. PICK i \in 1 .. Len(l) : y = l[i]
    BY <1>1 DEF Members
  <2>2. i # 1
    BY <1>1, <1>2, <2>1
  <2>3. i - 1 \in 1 .. Len(l) - 1 /\ (i - 1) + 1 = i
    BY <2>1, <2>2
  <2>4. Tail(l)[i - 1] = y
    BY <1>1, <2>1, <2>3
  <2> QED BY <1>1, <2>3, <2>4 DEF Members
<1> QED BY <1>1, <1>2

\* Removing the first item is taking the tail.
LEMMA RemoveFirstIsTail ==
  ASSUME NEW S, NEW l \in Seq(S), l # <<>>
  PROVE  list_remove(l, Head(l)) = Tail(l) /\ Head(l) \in Members(l)
<1> DEFINE x == Head(l)
           I == {i \in 1 .. Len(l) : l[i] = x}
           at == SelectInSeq(l, LAMBDA v : v = x)
<1>1. Len(l) \in Nat /\ Len(l) >= 1 /\ x = l[1] /\ DOMAIN l = 1 .. Len(l)
  OBVIOUS
<1>2. 1 \in I
  BY <1>1
<1>3. at = 1
  <2>1. at = Min(I)
    BY <1>2 DEF SelectInSeq
  <2>2. \A k \in I : 1 <= k
    OBVIOUS
  <2>3. \A k \in I : (\A j \in I : k <= j) => k = 1
    BY <1>2, <2>2
  <2> QED BY <1>2, <2>1, <2>2, <2>3 DEF Min
<1>4. list_remove(l, x) = RemoveAt(l, 1)
  BY <1>1, <1>2, <1>3 DEF list_remove, RemoveFirst
<1>5. RemoveAt(l, 1) = Tail(l)
  <2>1. /\ RemoveAt(l, 1) \in Seq(S) /\ Len(RemoveAt(l, 1)) = Len(l) - 1
        /\ \A i \in 1 .. Len(l) - 1 : RemoveAt(l, 1)[i] = l[i + 1]
    <3>1. 1 \in 1 .. Len(l) /\ \A i \in 1 .. Len(l) - 1 : ~ (i < 1)
      BY <1>1
    <3> QED BY <3>1, ShortenedAt
  <2>2. /\ Tail(l) \in Seq(S) /\ Len(Tail(l)) = Len(l) - 1
        /\ \A i \in 1 .. Len(l) - 1 : Tail(l)[i] = l[i + 1]
    OBVIOUS
  <2> QED BY <2>1, <2>2
<1>6. x \in Members(l)
  BY <1>1, 1 \in 1 .. Len(l) DEF Members
<1> QED BY <1>4, <1>5, <1>6

-----------------------------------------------------------------------------
(***************************************************************************)
(* The timers.                                                             *)
(***************************************************************************)
LEMMA Constants ==
  /\ MaxInterval \in Nat \ {0} /\ NumEvents \in Nat \ {0} /\ NumItems \in Nat \ {0}
  /\ Item \subseteq Ctimer /\ Item \subseteq Nat
  /\ AppInterval \subseteq 0 .. MaxInterval
BY MaxIntervalAssumption, NumEventsAssumption, SizeAssumption, LifetimerAssumption,
   AppIntervalAssumption DEF Item

\* How ctimer_set, ctimer_reset and ctimer_restart leave the timers.
TimerSet(c) ==
  /\ TimersKept'
  /\ Members(ctimer_list)' = Members(ctimer_list) \cup {c}
  /\ pending' = pending \cup {c}

LEMMA SettingKeeps ==
  ASSUME TimersKept, NEW c \in Ctimer, NEW t \in 0 .. MaxInterval,
         Etimers!Start(c, t), ToEndOfList(c),
         interval' = interval \/ interval' = [interval EXCEPT ![c] = t]
  PROVE  TimerSet(c)
<1> DEFINE l == list_remove(ctimer_list, c)
<1>1. TimersTyped /\ Once(ctimer_list)
      /\ Members(ctimer_list) \subseteq pending \cup Members(events)
  BY DEF TimersKept
<1>2. /\ pending' = pending \cup {c} /\ events' = events
      /\ remaining' = [remaining EXCEPT ![c] = t]
  BY DEF Etimers!Start
<1>3. l \in Seq(Ctimer) /\ Once(l) /\ Members(l) = Members(ctimer_list) \ {c}
  BY <1>1, RemoveTakesOff DEF ItemRemoved, TimersTyped
<1>4. ctimer_list' = list_add(l, c)
  BY DEF ToEndOfList
<1> HIDE DEF l
<1>5. /\ ctimer_list' \in Seq(Ctimer) /\ Once(ctimer_list')
      /\ Members(ctimer_list') = Members(l) \cup {c}
  BY <1>3, <1>4, AddPutsBehind
<1>6. Members(ctimer_list') = Members(ctimer_list) \cup {c}
  BY <1>3, <1>5
<1>7. TimersTyped'
  <2>1. remaining' \in [Ctimer -> 0 .. MaxInterval]
    BY <1>1, <1>2 DEF TimersTyped
  <2>2. interval' \in [Ctimer -> 0 .. MaxInterval]
    BY <1>1 DEF TimersTyped
  <2> QED BY <1>1, <1>2, <1>5, <2>1, <2>2 DEF TimersTyped
<1>8. Members(ctimer_list') \subseteq pending' \cup Members(events')
  BY <1>1, <1>2, <1>6
<1>9. TimersKept'
  BY <1>5, <1>7, <1>8 DEF TimersKept
<1> QED BY <1>2, <1>6, <1>9 DEF TimerSet

\* An event is delivered, or none is.
Delivered(c) ==
  \/ events' = events
  \/ events # <<>> /\ Head(events) = c /\ events' = Tail(events)

LEMMA DeliveryTakesOne ==
  ASSUME TimersTyped, NEW c, Delivered(c)
  PROVE  /\ events' \in Seq(Ctimer) /\ Len(events') <= NumEvents
         /\ Members(events) \ {c} \subseteq Members(events')
<1>1. CASE events' = events
  BY <1>1 DEF TimersTyped
<1>2. CASE events # <<>> /\ Head(events) = c /\ events' = Tail(events)
  <2>1. events \in Seq(Ctimer) /\ Len(events) <= NumEvents /\ Len(events) \in Nat
    BY DEF TimersTyped
  <2>2. /\ events' \in Seq(Ctimer) /\ Len(events') = Len(events) - 1
        /\ Members(events) \ {c} \subseteq Members(events')
    BY <1>2, <2>1, TailKeepsOthers
  <2>3. Len(events') <= NumEvents
    BY <2>1, <2>2, Constants
  <2> QED BY <2>2, <2>3
<1> QED BY <1>1, <1>2 DEF Delivered

\* A timer is taken off the list, and its event timer stopped or not.
LEMMA TakingOffKeeps ==
  ASSUME TimersKept, NEW c,
         ctimer_list' = list_remove(ctimer_list, c),
         Delivered(c),
         \/ Etimers!Stop({c})
         \/ UNCHANGED <<pending, remaining>>,
         interval' = interval
  PROVE  /\ TimersKept'
         /\ Members(ctimer_list)' = Members(ctimer_list) \ {c}
         /\ pending \ {c} \subseteq pending' /\ pending' \subseteq pending
<1>1. TimersTyped /\ Once(ctimer_list)
      /\ Members(ctimer_list) \subseteq pending \cup Members(events)
  BY DEF TimersKept
<1>2. /\ ctimer_list' \in Seq(Ctimer) /\ Once(ctimer_list')
      /\ Members(ctimer_list') = Members(ctimer_list) \ {c}
  BY <1>1, RemoveTakesOff DEF ItemRemoved, TimersTyped
<1>3. /\ events' \in Seq(Ctimer) /\ Len(events') <= NumEvents
      /\ Members(events) \ {c} \subseteq Members(events')
  BY <1>1, DeliveryTakesOne
<1>4. /\ pending \ {c} \subseteq pending' /\ pending' \subseteq pending
      /\ remaining' \in [Ctimer -> 0 .. MaxInterval]
  <2>1. CASE Etimers!Stop({c})
    <3>1. /\ pending' = pending \ {c}
          /\ remaining' = [t \in Ctimer |-> IF t \in {c} THEN 0 ELSE remaining[t]]
      BY <2>1 DEF Etimers!Stop
    <3>2. 0 \in 0 .. MaxInterval
      BY Constants
    <3> QED BY <1>1, <3>1, <3>2 DEF TimersTyped
  <2>2. CASE UNCHANGED <<pending, remaining>>
    BY <1>1, <2>2 DEF TimersTyped
  <2> QED BY <2>1, <2>2
<1>5. TimersTyped'
  BY <1>1, <1>2, <1>3, <1>4 DEF TimersTyped
<1>6. Members(ctimer_list') \subseteq pending' \cup Members(events')
  BY <1>1, <1>2, <1>3, <1>4
<1> QED BY <1>2, <1>4, <1>5, <1>6 DEF TimersKept

\* Time, an expiry and an event without a timer leave the list alone.
LEMMA TimePassesSafely ==
  ASSUME TimersKept, Clock \/ (\E c \in Ctimer : Expire(c)) \/ EventIgnored
  PROVE  TimersKept' /\ ctimer_list' = ctimer_list /\ pending' \subseteq pending
<1>1. TimersTyped /\ Once(ctimer_list)
      /\ Members(ctimer_list) \subseteq pending \cup Members(events)
  BY DEF TimersKept
<1>2. CASE Clock
  <2>1. PICK n \in 1 .. MaxInterval : Etimers!Elapse(n)
    BY <1>2 DEF Clock
  <2>2. /\ remaining' = [t \in Ctimer |-> IF remaining[t] > n THEN remaining[t] - n ELSE 0]
        /\ pending' = pending /\ events' = events
    BY <2>1 DEF Etimers!Elapse
  <2>3. interval' = interval /\ ctimer_list' = ctimer_list
    BY <1>2 DEF Clock
  <2>4. remaining' \in [Ctimer -> 0 .. MaxInterval]
    BY <1>1, <2>2, Constants DEF TimersTyped
  <2>5. TimersTyped'
    BY <1>1, <2>2, <2>3, <2>4 DEF TimersTyped
  <2> QED BY <1>1, <2>2, <2>3, <2>5 DEF TimersKept
<1>3. ASSUME NEW c \in Ctimer, Expire(c)
      PROVE  TimersKept' /\ ctimer_list' = ctimer_list /\ pending' \subseteq pending
  <2>1. /\ Len(events) < NumEvents /\ pending' = pending \ {c}
        /\ events' = Append(events, c) /\ remaining' = remaining
        /\ interval' = interval /\ ctimer_list' = ctimer_list
    BY <1>3 DEF Expire, Etimers!Expire
  <2>2. /\ events \in Seq(Ctimer) /\ events' \in Seq(Ctimer)
        /\ Len(events') = Len(events) + 1 /\ Len(events) \in Nat
    BY <1>1, <2>1 DEF TimersTyped
  <2>3. Len(events') <= NumEvents
    BY <2>1, <2>2, Constants
  <2>4. Members(events) \cup {c} \subseteq Members(events')
    <3>1. /\ DOMAIN events' = 1 .. Len(events) + 1 /\ DOMAIN events = 1 .. Len(events)
          /\ events'[Len(events) + 1] = c
          /\ \A i \in 1 .. Len(events) : events'[i] = events[i]
      BY <2>1, <2>2
    <3>2. Len(events) + 1 \in 1 .. Len(events) + 1
      BY <2>2
    <3>3. c \in Members(events')
      BY <3>1, <3>2 DEF Members
    <3>4. ASSUME NEW y \in Members(events)  PROVE y \in Members(events')
      <4>1. PICK i \in 1 .. Len(events) : y = events[i]
        BY <3>1 DEF Members
      <4>2. i \in 1 .. Len(events) + 1 /\ events'[i] = y
        BY <2>2, <3>1, <4>1
      <4> QED BY <3>1, <4>2 DEF Members
    <3> QED BY <3>3, <3>4
  <2>5. TimersTyped'
    BY <1>1, <2>1, <2>2, <2>3 DEF TimersTyped
  <2>6. Members(ctimer_list') \subseteq pending' \cup Members(events')
    BY <1>1, <2>1, <2>4
  <2> QED BY <1>1, <2>1, <2>5, <2>6 DEF TimersKept
<1>4. CASE EventIgnored
  <2> DEFINE c == Head(events)
  <2>1. /\ Delivered(c) /\ c \notin Members(ctimer_list)
        /\ pending' = pending /\ remaining' = remaining
        /\ interval' = interval /\ ctimer_list' = ctimer_list
    BY <1>4 DEF EventIgnored, Etimers!Deliver, IsCalled, Delivered
  <2> HIDE DEF c
  <2>2. /\ events' \in Seq(Ctimer) /\ Len(events') <= NumEvents
        /\ Members(events) \ {c} \subseteq Members(events')
    BY <1>1, <2>1, DeliveryTakesOne
  <2>3. TimersTyped'
    BY <1>1, <2>1, <2>2 DEF TimersTyped
  <2>4. Members(ctimer_list') \subseteq pending' \cup Members(events')
    BY <1>1, <2>1, <2>2
  <2> QED BY <1>1, <2>1, <2>3, <2>4 DEF TimersKept
<1> QED BY <1>2, <1>3, <1>4

-----------------------------------------------------------------------------
(***************************************************************************)
(* The invariant.                                                          *)
(***************************************************************************)
\* Nothing was done to the queue.
LEMMA QueueUntouched ==
  ASSUME QueueKept, UNCHANGED queueVars
  PROVE  QueueKept'
BY DEF QueueKept, queueVars, PoolsMatchQueue

LEMMA InitEstablishes == Init => IInv
<1> SUFFICES ASSUME Init PROVE IInv
  OBVIOUS
<1>1. /\ pending = {} /\ remaining = [t \in Ctimer |-> 0] /\ events = <<>>
      /\ interval = [c \in Ctimer |-> 0] /\ ctimer_list = <<>>
      /\ memb = {} /\ bufs = {} /\ buf = [i \in Item |-> NoBuf]
      /\ list = <<>> /\ mortal = {}
  BY DEF Init, CtimerInit, Etimers!Init
<1>2. \A S : <<>> \in Seq(S)
  OBVIOUS
<1>3. Once(<<>>) /\ Members(<<>>) = {} /\ Len(<<>>) = 0
  BY DEF Once, Members
<1>4. TimersKept
  <2>1. 0 \in 0 .. MaxInterval /\ 0 <= NumEvents
    BY Constants
  <2>2. TimersTyped
    BY <1>1, <1>2, <1>3, <2>1 DEF TimersTyped
  <2> QED BY <1>1, <1>3, <2>2 DEF TimersKept
<1>5. QueueKept
  <2>1. PoolsMatchQueue
    BY <1>1, <1>3 DEF PoolsMatchQueue
  <2> QED BY <1>1, <1>2, <1>3, <2>1 DEF QueueKept
<1>6. LifetimesKept
  BY <1>1, <1>3 DEF LifetimesKept
<1> QED BY <1>4, <1>5, <1>6 DEF IInv

\* A packet that is queued gets a block and a buffer of its own.
LEMMA EnqueueKeeps ==
  ASSUME IInv, NEW isReference \in BOOLEAN, NEW lifetime \in 0 .. MaxInterval,
         EnqueueSucceeds(isReference, lifetime)
  PROVE  IInv' /\ \E i \in Item \ Members(list) : list' = Append(list, i)
<1>1. PICK i \in Item, b \in Buf \cup Ref :
        /\ memb_alloc(i)
        /\ memb' = memb \cup {i}
        /\ queuebuf_new_from_packetbuf(isReference, b)
        /\ buf' = [buf EXCEPT ![i] = b]
        /\ IF lifetime > 0
           THEN /\ ctimer_set(i, lifetime)
                /\ mortal' = mortal \cup {i}
           ELSE UNCHANGED <<ctimerVars, mortal>>
        /\ list' = list_add(list, i)
  BY DEF EnqueueSucceeds
<1>2. TimersKept /\ QueueKept /\ LifetimesKept
  BY DEF IInv
<1>3. /\ i \notin memb /\ b \notin bufs /\ bufs' = bufs \cup {b}
  <2>1. i \notin memb
    BY <1>1 DEF memb_alloc
  <2>2. b \notin bufs /\ bufs' = bufs \cup {b}
    BY <1>1 DEF queuebuf_new_from_packetbuf, FirstFree
  <2> QED BY <2>1, <2>2
<1>4. memb = Members(list) /\ i \notin Members(list)
  BY <1>2, <1>3 DEF QueueKept, PoolsMatchQueue
<1>5. /\ list' \in Seq(Item) /\ Once(list') /\ Members(list') = Members(list) \cup {i}
  BY <1>1, <1>2, <1>4, AddPutsBehind DEF QueueKept
<1>6. QueueKept'
  <2>1. /\ buf' \in [Item -> Buf \cup Ref \cup {NoBuf}] /\ buf'[i] = b
        /\ \A j \in memb : buf'[j] = buf[j]
    BY <1>1, <1>2, <1>3 DEF QueueKept
  <2>2. bufs = {buf[j] : j \in memb} /\ \A j, k \in memb : buf[j] = buf[k] => j = k
    BY <1>2 DEF QueueKept, PoolsMatchQueue
  <2>3. bufs' = {buf'[j] : j \in memb'}
    BY <1>1, <1>3, <2>1, <2>2
  <2>4. \A j, k \in memb' : buf'[j] = buf'[k] => j = k
    BY <1>1, <1>3, <2>1, <2>2
  <2>5. PoolsMatchQueue'
    BY <1>1, <1>4, <1>5, <2>3, <2>4 DEF PoolsMatchQueue
  <2>6. memb' \subseteq Item /\ bufs' \subseteq Buf \cup Ref
    BY <1>1, <1>2, <1>3 DEF QueueKept
  <2> QED BY <1>5, <2>1, <2>5, <2>6 DEF QueueKept
<1>7. TimersKept' /\ LifetimesKept'
  <2>1. CASE lifetime > 0
    <3>1. ctimer_set(i, lifetime) /\ mortal' = mortal \cup {i} /\ i \in Ctimer
      BY <1>1, <2>1, Constants
    <3>2. TimerSet(i)
      BY <1>2, <3>1, SettingKeeps DEF ctimer_set
    <3> QED BY <1>2, <1>5, <3>1, <3>2 DEF TimerSet, LifetimesKept
  <2>2. CASE ~ (lifetime > 0)
    <3>1. UNCHANGED <<ctimerVars, mortal>>
      BY <1>1, <2>2
    <3>2. TimersKept'
      BY <1>2, <3>1 DEF TimersKept, TimersTyped, ctimerVars, etimerVars
    <3>3. /\ mortal' = mortal /\ ctimer_list' = ctimer_list /\ pending' = pending
      BY <3>1 DEF ctimerVars, etimerVars
    <3> QED BY <1>2, <1>5, <3>2, <3>3 DEF LifetimesKept
  <2> QED BY <2>1, <2>2
<1>8. list' = Append(list, i)
  BY <1>1 DEF list_add
<1> QED BY <1>4, <1>6, <1>7, <1>8 DEF IInv

\* A packet that goes, taken or too old, gives its block, its buffer and its
\* timer back.
LEMMA RemoveKeeps ==
  ASSUME IInv, NEW i \in Members(list), RemovePacket(i), Delivered(i)
  PROVE  IInv'
<1>1. TimersKept /\ QueueKept /\ LifetimesKept
  BY DEF IInv
<1>2. /\ list' = list_remove(list, i) /\ bufs' = bufs \ {buf[i]}
      /\ memb' = memb \ {i} /\ mortal' = mortal \ {i} /\ buf' = buf
      /\ ctimer_stop(i) /\ interval' = interval
  BY DEF RemovePacket, queuebuf_free, memb_free
<1>3. /\ list' \in Seq(Item) /\ Once(list') /\ Members(list') = Members(list) \ {i}
  BY <1>1, <1>2, RemoveTakesOff DEF ItemRemoved, QueueKept
<1>4. QueueKept'
  <2>1. /\ memb = Members(list) /\ i \in memb /\ bufs = {buf[j] : j \in memb}
        /\ \A j, k \in memb : buf[j] = buf[k] => j = k
    BY <1>1 DEF QueueKept, PoolsMatchQueue
  <2>2. bufs' = {buf'[j] : j \in memb'}
    BY <1>2, <2>1
  <2>3. PoolsMatchQueue'
    BY <1>2, <1>3, <2>1, <2>2 DEF PoolsMatchQueue
  <2> QED BY <1>1, <1>2, <1>3, <2>3 DEF QueueKept
<1>5. /\ TimersKept'
      /\ Members(ctimer_list)' = Members(ctimer_list) \ {i}
      /\ pending' = pending \ {i}
  <2>1. ctimer_list' = list_remove(ctimer_list, i) /\ Etimers!Stop({i})
    BY <1>2 DEF ctimer_stop
  <2>2. pending' = pending \ {i}
    BY <2>1 DEF Etimers!Stop
  <2> QED BY <1>1, <1>2, <2>1, <2>2, TakingOffKeeps
<1>6. LifetimesKept'
  BY <1>1, <1>2, <1>3, <1>5 DEF LifetimesKept
<1> QED BY <1>4, <1>5, <1>6 DEF IInv

\* A timer that is no lifetimer is set, stopped or called.
LEMMA AppTimerKeeps ==
  ASSUME IInv, NEW c \in App, AppTimer(c) \/ AppCallback(c)
  PROVE  IInv' /\ list' = list
<1>1. TimersKept /\ QueueKept /\ LifetimesKept /\ c \in Ctimer /\ c \notin Item
  BY DEF IInv, App
<1>2. UNCHANGED queueVars
  BY DEF AppTimer, AppCallback
<1>3. QueueKept' /\ list' = list /\ mortal' = mortal
  BY <1>1, <1>2, QueueUntouched DEF queueVars
<1>4. ASSUME TimersKept', NEW M, Members(ctimer_list)' = M,
             M = Members(ctimer_list) \cup {c} \/ M = Members(ctimer_list) \ {c},
             pending' \subseteq pending \cup {c}
      PROVE  IInv' /\ list' = list
  <2>1. LifetimesKept'
    BY <1>1, <1>3, <1>4 DEF LifetimesKept
  <2> QED BY <1>3, <1>4, <2>1 DEF IInv
<1>5. ASSUME TimerSet(c)  PROVE IInv' /\ list' = list
  BY <1>4, <1>5 DEF TimerSet
<1>6. ASSUME NEW t \in AppInterval, ctimer_set(c, t)  PROVE IInv' /\ list' = list
  <2>1. t \in 0 .. MaxInterval
    BY Constants
  <2>2. TimerSet(c)
    BY <1>1, <1>6, <2>1, SettingKeeps DEF ctimer_set
  <2> QED BY <2>2, <1>5
<1>7. ASSUME ctimer_reset(c)  PROVE IInv' /\ list' = list
  <2>1. PICK left \in 0 .. interval[c] : Etimers!Start(c, left)
    BY <1>7 DEF ctimer_reset
  <2>2. left \in 0 .. MaxInterval
    <3>1. interval[c] \in 0 .. MaxInterval
      BY <1>1 DEF TimersKept, TimersTyped
    <3> QED BY <3>1, Constants
  <2>3. TimerSet(c)
    BY <1>1, <1>7, <2>1, <2>2, SettingKeeps DEF ctimer_reset
  <2> QED BY <2>3, <1>5
<1>8. ASSUME ctimer_restart(c)  PROVE IInv' /\ list' = list
  <2>1. interval[c] \in 0 .. MaxInterval
    BY <1>1 DEF TimersKept, TimersTyped
  <2>2. TimerSet(c)
    BY <1>1, <1>8, <2>1, SettingKeeps DEF ctimer_restart
  <2> QED BY <2>2, <1>5
<1>9. ASSUME ctimer_stop(c), UNCHANGED <<events, interval>>
      PROVE  IInv' /\ list' = list
  <2>1. /\ TimersKept'
        /\ Members(ctimer_list)' = Members(ctimer_list) \ {c}
        /\ pending' \subseteq pending
    BY <1>1, <1>9, TakingOffKeeps DEF ctimer_stop, Delivered
  <2> QED BY <2>1, <1>4
<1>10. ASSUME AppCallback(c)  PROVE IInv' /\ list' = list
  <2>1. /\ ctimer_list' = list_remove(ctimer_list, c) /\ Delivered(c)
        /\ UNCHANGED <<pending, remaining>> /\ interval' = interval
    BY <1>10 DEF AppCallback, Called, Delivered
  <2>2. /\ TimersKept'
        /\ Members(ctimer_list)' = Members(ctimer_list) \ {c}
        /\ pending' \subseteq pending
    BY <1>1, <2>1, TakingOffKeeps
  <2> QED BY <2>2, <1>4
<1> QED BY <1>6, <1>7, <1>8, <1>9, <1>10 DEF AppTimer

\* The queue changes at its ends, or by the end of a lifetime.
InOrder ==
  \/ list' = list
  \/ \E i \in Item \ Members(list) : list' = Append(list, i)
  \/ list # <<>> /\ list' = Tail(list)
  \/ \E i \in mortal : list' = list_remove(list, i)

LEMMA NextKeeps == IInv /\ [Next]_vars => IInv' /\ InOrder
<1> SUFFICES ASSUME IInv, [Next]_vars PROVE IInv' /\ InOrder
  OBVIOUS
<1>1. TimersKept /\ QueueKept /\ LifetimesKept
  BY DEF IInv
<1>2. CASE Timers
  <2>1. UNCHANGED queueVars
    BY <1>2 DEF Timers
  <2>2. TimersKept' /\ ctimer_list' = ctimer_list /\ pending' \subseteq pending
    BY <1>1, <1>2, TimePassesSafely DEF Timers
  <2>3. QueueKept' /\ list' = list /\ mortal' = mortal
    BY <1>1, <2>1, QueueUntouched DEF queueVars
  <2>4. LifetimesKept'
    BY <1>1, <2>2, <2>3 DEF LifetimesKept
  <2> QED BY <2>2, <2>3, <2>4 DEF IInv, InOrder
<1>3. ASSUME NEW i \in Item, remove_queued_packet(i)  PROVE IInv' /\ InOrder
  <2>1. Delivered(i) /\ i \in Members(ctimer_list) /\ RemovePacket(i)
    BY <1>3 DEF remove_queued_packet, Called, Delivered, IsCalled
  <2>2. i \in mortal /\ i \in Members(list)
    BY <1>1, <2>1 DEF LifetimesKept
  <2>3. list' = list_remove(list, i)
    BY <2>1 DEF RemovePacket
  <2> QED BY <2>1, <2>2, <2>3, RemoveKeeps DEF InOrder
<1>4. ASSUME NEW c \in App, AppCallback(c) \/ AppTimer(c)  PROVE IInv' /\ InOrder
  BY <1>4, AppTimerKeeps DEF InOrder
<1>5. ASSUME NEW isReference \in BOOLEAN, NEW lifetime \in 0 .. MaxInterval,
             packetqueue_enqueue_packetbuf(isReference, lifetime)
      PROVE  IInv' /\ InOrder
  <2>1. CASE EnqueueFails(isReference)
    <3>1. UNCHANGED vars
      BY <2>1 DEF EnqueueFails
    <3>2. UNCHANGED queueVars /\ UNCHANGED <<pending, remaining, events, interval, ctimer_list>>
      BY <3>1 DEF vars, ctimerVars, etimerVars
    <3>3. QueueKept' /\ list' = list /\ mortal' = mortal
      BY <1>1, <3>2, QueueUntouched DEF queueVars
    <3>4. TimersKept'
      BY <1>1, <3>2 DEF TimersKept, TimersTyped
    <3>5. LifetimesKept'
      BY <1>1, <3>2, <3>3 DEF LifetimesKept
    <3> QED BY <3>3, <3>4, <3>5 DEF IInv, InOrder
  <2>2. CASE EnqueueSucceeds(isReference, lifetime)
    BY <2>2, EnqueueKeeps DEF InOrder
  <2> QED BY <1>5, <2>1, <2>2 DEF packetqueue_enqueue_packetbuf
<1>6. CASE packetqueue_dequeue
  <2> DEFINE i == Head(list)
  <2>1. list # <<>> /\ RemovePacket(i) /\ events' = events
    BY <1>6 DEF packetqueue_dequeue
  <2>2. list_remove(list, i) = Tail(list) /\ i \in Members(list)
    BY <1>1, <2>1, RemoveFirstIsTail DEF QueueKept
  <2>3. list' = Tail(list)
    BY <2>1, <2>2 DEF RemovePacket
  <2> HIDE DEF i
  <2>4. IInv'
    BY <2>1, <2>2, RemoveKeeps DEF Delivered
  <2> QED BY <2>1, <2>3, <2>4 DEF InOrder
<1>7. CASE UNCHANGED vars
  <2>1. UNCHANGED queueVars /\ UNCHANGED <<pending, remaining, events, interval, ctimer_list>>
    BY <1>7 DEF vars, ctimerVars, etimerVars
  <2>2. QueueKept' /\ list' = list /\ mortal' = mortal
    BY <1>1, <2>1, QueueUntouched DEF queueVars
  <2>3. TimersKept'
    BY <1>1, <2>1 DEF TimersKept, TimersTyped
  <2>4. LifetimesKept'
    BY <1>1, <2>1, <2>2 DEF LifetimesKept
  <2> QED BY <2>2, <2>3, <2>4 DEF IInv, InOrder
<1> QED BY <1>2, <1>3, <1>4, <1>5, <1>6, <1>7 DEF Next

LEMMA InvariantHolds == Spec => []IInv
BY InitEstablishes, NextKeeps, PTL DEF Spec

-----------------------------------------------------------------------------
(***************************************************************************)
(* What follows.                                                           *)
(***************************************************************************)
\* A list without repetitions is no longer than the set its items are from.
LEMMA OnceIsShort ==
  ASSUME NEW S, IsFiniteSet(S), NEW l \in Seq(S), Once(l)
  PROVE  Len(l) <= Cardinality(S)
<1> DEFINE D == 1 .. Len(l)
           f == [i \in D |-> l[i]]
<1>1. Len(l) \in Nat /\ DOMAIN l = D /\ f \in [D -> S]
  OBVIOUS
<1>2. IsFiniteSet(D) /\ Cardinality(D) = Len(l)
  <2>1. IsFiniteSet(D) /\ Cardinality(D) = IF 1 > Len(l) THEN 0 ELSE Len(l) - 1 + 1
    BY <1>1, FS_Interval
  <2> QED BY <1>1, <2>1
<1>3. Cardinality(S) \in Nat
  BY FS_CardinalityType
<1>4. \A i, j \in D : i # j => f[i] # f[j]
  BY <1>1 DEF Once
<1> HIDE DEF f, D
<1>5. ~ (Cardinality(S) < Cardinality(D))
  <2> SUFFICES ASSUME Cardinality(S) < Cardinality(D) PROVE FALSE
    OBVIOUS
  <2>1. \E i, j \in D : i # j /\ f[i] = f[j]
    <3>1. IsFiniteSet(S) /\ IsFiniteSet(D) /\ f \in [D -> S]
      BY <1>1, <1>2
    <3> QED BY <3>1, FS_PigeonHole
  <2> QED BY <1>4, <2>1
<1> QED BY <1>1, <1>2, <1>3, <1>5

\* Item blocks, buffers, lifetimers and queue agree after any sequence of calls of
\* packetqueue.h and ctimer.h, failed ones included, and of late TIMER events;
\* and each timer on the list of ctimer.c counts or has its event in the queue.
THEOREM QueueStaysConsistent == Spec => []QueueConsistent
<1>1. IInv => QueueConsistent
  <2> SUFFICES ASSUME IInv PROVE QueueConsistent
    OBVIOUS
  <2>1. TimersKept /\ QueueKept /\ LifetimesKept
    BY DEF IInv
  <2>2. Len(ctimer_list) <= Cardinality(Ctimer)
    BY <2>1, CtimerAssumption, OnceIsShort DEF TimersKept, TimersTyped
  <2>3. CtimerTypeOK
    BY <2>1, <2>2 DEF CtimerTypeOK, TimersKept, TimersTyped
  <2>4. TypeOK
    BY <2>1, <2>3 DEF TypeOK, QueueKept, LifetimesKept
  <2>5. PoolsMatchQueue
    BY <2>1 DEF QueueKept
  <2>6. ListedWillBeCalled
    BY <2>1 DEF ListedWillBeCalled, TimersKept, Once
  <2>7. LifetimesWatched
    BY <2>1, <2>6 DEF LifetimesWatched, LifetimesKept
  <2> QED BY <2>4, <2>5, <2>7 DEF QueueConsistent
<1> QED BY <1>1, InvariantHolds, PTL

\* Packets leave from the front or at the end of their lifetime, and nothing else
\* disturbs their order: a TIMER event left over from an earlier packet in the
\* same block removes no packet without a lifetime.
THEOREM PacketsLeaveInOrder == Spec => LeavesInOrder
<1>1. InOrder => [\/ list' = list
                  \/ \E i \in Item \ Members(list) : list' = Append(list, i)
                  \/ list # <<>> /\ list' = Tail(list)
                  \/ \E i \in mortal : list' = list_remove(list, i)]_vars
  BY DEF InOrder
<1> QED BY <1>1, InvariantHolds, NextKeeps, PTL DEF Spec, LeavesInOrder

-----------------------------------------------------------------------------
(***************************************************************************)
(* Slip: the packet handed over is a frame that was sent.  The ring holds  *)
(* two parts, the packet that waits and what has come behind it; the       *)
(* invariant says of which frame each is a part, and how much of the frame *)
(* being sent has come, by what the line, the interrupt and the process    *)
(* have done.                                                              *)
(***************************************************************************)

\* The provers do not know these words to be strings.
Character == STRING \cup {SLIP_END, SLIP_ESC, SLIP_ESC_END, SLIP_ESC_ESC, "NUL"}
Byte == Character \X Nat
Distance(from, to) == (to - from) % RX_BUFSIZE
\* The packet that waits, and what has come behind it.
PartOf(buffer, from, to) == RingEntries(buffer, from, Distance(from, to), RX_BUFSIZE)
First == PartOf(rxbuf, begin, pkt_end)
Second == PartOf(rxbuf, pkt_end, end)

RingTypes ==
  /\ begin \in Index /\ end \in Index /\ pkt_end \in Index
  /\ rxbuf \in [Index -> Byte]
  /\ Distance(begin, pkt_end) + Distance(pkt_end, end) = Distance(begin, end)

LEMMA RingSize == RX_BUFSIZE \in Nat \ {0} /\ BLEN \in Nat /\ 0 \in Index /\ Index = 0 .. RX_BUFSIZE - 1
BY BufferAssumption DEF Index

LEMMA Distances ==
  ASSUME NEW a \in Index, NEW b \in Index
  PROVE  /\ Distance(a, b) \in Index /\ Distance(a, b) \in 0 .. RX_BUFSIZE
         /\ Distance(a, b) = 0 <=> a = b
         /\ Distance(a, a) = 0
         /\ (a + Distance(a, b)) % RX_BUFSIZE = b
<1>1. (b - a) % RX_BUFSIZE = IF b >= a THEN b - a ELSE b - a + RX_BUFSIZE
  BY RingSize, DistanceWraps
<1>2. (b - a) % RX_BUFSIZE \in Index
  BY RingSize, DistanceWraps
<1>3. (a - a) % RX_BUFSIZE = IF a >= a THEN a - a ELSE a - a + RX_BUFSIZE
  BY RingSize, DistanceWraps
<1>4. (a + Distance(a, b)) % RX_BUFSIZE = b
  BY RingSize, FrontOfRing DEF Distance
<1> QED
  BY <1>1, <1>2, <1>3, <1>4, RingSize DEF Distance

\* What a part is.
LEMMA PartIsSequence ==
  ASSUME NEW buffer \in [Index -> Byte], NEW a \in Index, NEW b \in Index
  PROVE  /\ PartOf(buffer, a, b) \in Seq(Byte)
         /\ Len(PartOf(buffer, a, b)) = Distance(a, b)
         /\ PartOf(buffer, a, b) = <<>> <=> a = b
         /\ \A k \in 1 .. Distance(a, b) :
              PartOf(buffer, a, b)[k] = buffer[(a + (k - 1)) % RX_BUFSIZE]
<1>1. PICK l \in 0 .. RX_BUFSIZE : l = Distance(a, b)
  BY Distances
<1>2. ASSUME NEW k \in 1 .. l
      PROVE  buffer[(a + (k - 1)) % RX_BUFSIZE] \in Byte
  <2>1. k - 1 \in 0 .. RX_BUFSIZE
    BY RingSize
  <2>2. (a + (k - 1)) % RX_BUFSIZE \in Index
    BY <2>1, RingSize, WrapOnce
  <2> QED
    BY <2>2
<1> DEFINE s == [k \in 1 .. l |-> buffer[(a + (k - 1)) % RX_BUFSIZE]]
<1>3. l \in Nat /\ s \in [1 .. l -> Byte]
  BY <1>2, RingSize
<1>4. \A k \in 1 .. l : s[k] = buffer[(a + (k - 1)) % RX_BUFSIZE]
  OBVIOUS
<1>5. PartOf(buffer, a, b) = s
  BY <1>1 DEF PartOf, RingEntries
<1> HIDE DEF s
<1>6. s \in Seq(Byte) /\ Len(s) = l
  BY ONLY <1>3, IsASeq
<1>7. s = <<>> <=> a = b
  <2>1. s = <<>> <=> Len(s) = 0
    BY <1>6, EmptySeq
  <2> QED
    BY <1>1, <1>6, <2>1, Distances
<1> QED
  BY <1>1, <1>4, <1>5, <1>6, <1>7

\* What the accesses of the code do to them.
LEMMA Stored ==
  ASSUME RingTypes, HasRoom, NEW c \in Byte, rxbuf' = [rxbuf EXCEPT ![end] = c],
         end' = Following(end), begin' = begin, pkt_end' = pkt_end
  PROVE  RingTypes' /\ First' = First /\ Second' = Append(Second, c)
<1> DEFINE d == Distance(begin, end)
           d1 == Distance(begin, pkt_end)
           d2 == Distance(pkt_end, end)
<1>1. /\ begin \in 0 .. RX_BUFSIZE - 1 /\ end \in 0 .. RX_BUFSIZE - 1 /\ pkt_end \in 0 .. RX_BUFSIZE - 1
      /\ RX_BUFSIZE \in Nat \ {0} /\ d1 + d2 = d
  BY RingSize DEF RingTypes
<1>2. /\ d \in 0 .. RX_BUFSIZE - 1 /\ d1 \in 0 .. RX_BUFSIZE - 1 /\ d2 \in 0 .. RX_BUFSIZE - 1
      /\ (begin + d) % RX_BUFSIZE = end /\ (pkt_end + d2) % RX_BUFSIZE = end
  BY Distances, RingSize DEF RingTypes
<1>3. d # RX_BUFSIZE - 1
  <2> SUFFICES ASSUME d = RX_BUFSIZE - 1 PROVE FALSE
    OBVIOUS
  <2>1. d = IF end >= begin THEN end - begin ELSE end - begin + RX_BUFSIZE
    BY <1>1, DistanceWraps DEF Distance
  <2>2. (end + 1) % RX_BUFSIZE = IF end + 1 < RX_BUFSIZE THEN end + 1 ELSE end + 1 - RX_BUFSIZE
    BY <1>1, WrapOnce, 1 \in 0 .. RX_BUFSIZE
  <2> HIDE DEF d
  <2>3. (end + 1) % RX_BUFSIZE = begin
    BY <1>1, <2>1, <2>2
  <2> QED
    BY <2>3 DEF HasRoom, Following
<1>4. d2 # RX_BUFSIZE - 1
  <2> HIDE DEF d, d1, d2
  <2> QED
    BY <1>1, <1>2, <1>3
<1>5. end' \in Index /\ Distance(begin, end') = d + 1 /\ Distance(pkt_end, end') = d2 + 1
  BY <1>1, <1>3, <1>4, FrontAdvances DEF Distance, Following, Index
<1>6. /\ rxbuf \in [0 .. RX_BUFSIZE - 1 -> Byte] /\ rxbuf' \in [Index -> Byte]
      /\ Index = 0 .. RX_BUFSIZE - 1
  BY RingSize DEF RingTypes
<1>7. RingTypes'
  <2>1. d1 + (d2 + 1) = d + 1
    <3> HIDE DEF d, d1, d2
    <3> QED
      BY <1>1, <1>2
  <2> QED
    BY <1>1, <1>5, <1>6, <2>1 DEF RingTypes, Distance
<1>8. First' = First
  <2>1. ASSUME NEW k \in 1 .. d1
        PROVE  rxbuf'[(begin + (k - 1)) % RX_BUFSIZE] = rxbuf[(begin + (k - 1)) % RX_BUFSIZE]
    <3>1. k - 1 \in 0 .. RX_BUFSIZE - 1 /\ k - 1 # d /\ k - 1 \in 0 .. RX_BUFSIZE
      <4> HIDE DEF d, d1, d2
      <4> QED
        BY <1>1, <1>2
    <3> HIDE DEF d, d1, d2
    <3>2. (begin + (k - 1)) % RX_BUFSIZE # end
      BY <1>1, <1>2, <3>1, SlotsDiffer
    <3>3. (begin + (k - 1)) % RX_BUFSIZE \in Index
      BY <1>1, <1>6, <3>1, WrapOnce
    <3> QED
      BY <1>6, <3>2, <3>3
  <2> QED
    BY <2>1 DEF First, PartOf, RingEntries, Distance
<1>9. Second' = Append(Second, c)
  <2>1. \A k \in 1 .. d2 : rxbuf[(pkt_end + (k - 1)) % RX_BUFSIZE] \in Byte
    <3> SUFFICES ASSUME NEW k \in 1 .. d2
                 PROVE  rxbuf[(pkt_end + (k - 1)) % RX_BUFSIZE] \in Byte
      OBVIOUS
    <3>1. k - 1 \in 0 .. RX_BUFSIZE
      <4> HIDE DEF d, d1, d2
      <4> QED
        BY <1>1, <1>2
    <3> QED
      BY <1>1, <1>6, <3>1, WrapOnce
  <2>2. WriteAppended(rxbuf, pkt_end, d2, RX_BUFSIZE, Byte, Byte, c)
    <3> HIDE DEF d, d1, d2
    <3> QED
      BY <1>1, <1>2, <1>6, <2>1, WriteAppends
  <2>3. RingEntries(rxbuf', pkt_end, d2 + 1, RX_BUFSIZE) = Append(RingEntries(rxbuf, pkt_end, d2, RX_BUFSIZE), c)
    BY <1>2, <2>2 DEF WriteAppended
  <2> QED
    BY <1>5, <2>3 DEF Second, PartOf
<1> QED
  BY <1>7, <1>8, <1>9

LEMMA Kept ==
  ASSUME RingTypes, UNCHANGED bufferVars
  PROVE  RingTypes' /\ First' = First /\ Second' = Second
BY DEF RingTypes, First, Second, PartOf, Distance, bufferVars

LEMMA Dropped ==
  ASSUME RingTypes, end' = pkt_end, UNCHANGED <<begin, pkt_end, rxbuf>>
  PROVE  RingTypes' /\ First' = First /\ Second' = <<>>
<1>1. First' = First
  BY DEF First, PartOf, Distance
<1>2. Second' = <<>>
  BY PartIsSequence DEF RingTypes, Second
<1>3. Distance(pkt_end, pkt_end) = 0 /\ Distance(begin, pkt_end) \in Index
  BY Distances DEF RingTypes
<1>4. Distance(begin, pkt_end) + 0 = Distance(begin, pkt_end)
  BY <1>3, RingSize
<1>5. RingTypes'
  BY <1>3, <1>4 DEF RingTypes, Distance
<1> QED
  BY <1>1, <1>2, <1>5

LEMMA FirstRemoved ==
  ASSUME RingTypes, begin' = pkt_end, UNCHANGED <<end, pkt_end, rxbuf>>
  PROVE  RingTypes' /\ First' = <<>> /\ Second' = Second
<1>1. Second' = Second
  BY DEF Second, PartOf, Distance
<1>2. First' = <<>>
  BY PartIsSequence DEF RingTypes, First
<1>3. Distance(pkt_end, pkt_end) = 0 /\ Distance(pkt_end, end) \in Index
  BY Distances DEF RingTypes
<1>4. 0 + Distance(pkt_end, end) = Distance(pkt_end, end)
  BY <1>3, RingSize
<1>5. RingTypes'
  BY <1>3, <1>4 DEF RingTypes, Distance
<1> QED
  BY <1>1, <1>2, <1>5

LEMMA SecondCompleted ==
  ASSUME RingTypes, pkt_end' = end, UNCHANGED <<begin, end, rxbuf>>
  PROVE  RingTypes' /\ (begin = pkt_end => First' = Second) /\ Second' = <<>>
<1>1. begin = pkt_end => First' = Second
  BY DEF First, Second, PartOf, Distance
<1>2. Second' = <<>>
  BY PartIsSequence DEF RingTypes, Second
<1>3. Distance(end, end) = 0 /\ Distance(begin, end) \in Index
  BY Distances DEF RingTypes
<1>4. Distance(begin, end) + 0 = Distance(begin, end)
  BY <1>3, RingSize
<1>5. RingTypes'
  BY <1>3, <1>4 DEF RingTypes, Distance
<1> QED
  BY <1>1, <1>2, <1>5

LEMMA Cleared ==
  ASSUME begin' = 0, end' = 0, pkt_end' = 0, rxbuf' \in [Index -> Byte]
  PROVE  RingTypes' /\ First' = <<>> /\ Second' = <<>>
<1>1. 0 \in Index /\ Distance(0, 0) = 0
  BY RingSize, Distances
<1>2. RingTypes'
  BY <1>1 DEF RingTypes, Distance
<1>3. PartOf(rxbuf', 0, 0) = <<>>
  BY <1>1, PartIsSequence
<1> QED
  BY <1>2, <1>3 DEF First, Second, PartOf, Distance

-----------------------------------------------------------------------------
Of(n, s) == \A k \in 1 .. Len(s) : Frame(s[k]) = n
\* A packet is one of the frames fr, exactly unless that is among dam.
Whole(s, fr, dam) == \E n \in DOMAIN fr : Of(n, s) /\ (n \notin dam => s = fr[n])

SenderTypes ==
  /\ sent \in Seq(Seq(Byte))
  /\ \A n \in DOMAIN sent : Of(n, sent[n])
  /\ pos \in Nat /\ escaped \in BOOLEAN /\ cut \in BOOLEAN
  /\ escaped => sent # <<>> /\ pos \in DOMAIN LastFrame /\ IsEscaped(LastFrame[pos])

LEMMA PrefixGrows ==
  ASSUME NEW s \in Seq(Byte)
  PROVE  /\ SubSeq(s, 1, 0) = <<>> /\ SubSeq(s, 1, Len(s)) = s
         /\ \A k \in 1 .. Len(s) : Append(SubSeq(s, 1, k - 1), s[k]) = SubSeq(s, 1, k)
<1>1. SubSeq(s, 1, 0) = <<>>
  BY SubSeqEmpty
<1>2. SubSeq(s, 1, Len(s)) = s
  OBVIOUS
<1>3. ASSUME NEW k \in 1 .. Len(s)
      PROVE  Append(SubSeq(s, 1, k - 1), s[k]) = SubSeq(s, 1, k)
  <2> DEFINE p == SubSeq(s, 1, k - 1)
             r == SubSeq(s, 1, k)
  <2>1. /\ p \in Seq(Byte) /\ Len(p) = k - 1 /\ \A j \in 1 .. k - 1 : p[j] = s[j]
        /\ r \in Seq(Byte) /\ Len(r) = k /\ \A j \in 1 .. k : r[j] = s[j]
    OBVIOUS
  <2> HIDE DEF p, r
  <2>2. Append(p, s[k]) = r
    BY <2>1
  <2> QED
    BY <2>2 DEF p, r
<1> QED
  BY <1>1, <1>2, <1>3

LEMMA OfAppended ==
  ASSUME NEW n, NEW s \in Seq(Byte), NEW c \in Byte, Of(n, s), Frame(c) = n
  PROVE  Of(n, Append(s, c))
<1>1. /\ Len(Append(s, c)) = Len(s) + 1
      /\ \A k \in 1 .. Len(s) + 1 : Append(s, c)[k] = IF k <= Len(s) THEN s[k] ELSE c
  OBVIOUS
<1> QED
  BY <1>1 DEF Of

\* The frame being sent is still one when another is sent or is damaged.
LEMMA WholeStays ==
  ASSUME NEW s, NEW dam, NEW dam1, dam \subseteq dam1, NEW fr \in Seq(Seq(Byte)),
         Whole(s, fr, dam)
  PROVE  /\ Whole(s, fr, dam1)
         /\ \A f \in Seq(Byte) : Whole(s, Append(fr, f), dam1)
<1>1. PICK n \in DOMAIN fr : Of(n, s) /\ (n \notin dam => s = fr[n])
  BY DEF Whole
<1>2. n \notin dam1 => s = fr[n]
  BY <1>1
<1>3. ASSUME NEW f \in Seq(Byte)
      PROVE  n \in DOMAIN Append(fr, f) /\ Append(fr, f)[n] = fr[n]
  OBVIOUS
<1> QED
  BY <1>1, <1>2, <1>3 DEF Whole

\* Between its two END.
Within == sent # <<>> /\ pos \in 1 .. Len(LastFrame) + 1

LEMMA LastFrameIs ==
  ASSUME SenderTypes, sent # <<>>
  PROVE  /\ Len(sent) \in DOMAIN sent /\ LastFrame \in Seq(Byte) /\ Of(Len(sent), LastFrame)
         /\ Len(LastFrame) \in Nat /\ DOMAIN LastFrame = 1 .. Len(LastFrame)
         /\ \A k \in 1 .. Len(LastFrame) :
              LastFrame[k] \in Byte /\ LastFrame[k] = <<Char(LastFrame[k]), Len(sent)>>
<1>1. Len(sent) \in DOMAIN sent /\ LastFrame \in Seq(Byte)
  BY EmptySeq DEF SenderTypes, LastFrame
<1>2. Of(Len(sent), LastFrame)
  BY <1>1 DEF SenderTypes, LastFrame
<1>3. Len(LastFrame) \in Nat /\ DOMAIN LastFrame = 1 .. Len(LastFrame)
  BY <1>1
<1>4. ASSUME NEW k \in 1 .. Len(LastFrame)
      PROVE  LastFrame[k] \in Byte /\ LastFrame[k] = <<Char(LastFrame[k]), Len(sent)>>
  <2>1. LastFrame[k] \in Byte /\ Frame(LastFrame[k]) = Len(sent)
    BY <1>1, <1>2 DEF Of
  <2>2. LastFrame[k] = <<LastFrame[k][1], LastFrame[k][2]>>
    BY <2>1 DEF Byte
  <2> QED
    BY <2>1, <2>2 DEF Char, Frame
<1> QED
  BY <1>1, <1>2, <1>3, <1>4

LEMMA Pairs ==
  ASSUME NEW c \in Character, NEW n \in Nat
  PROVE  <<c, n>> \in Byte /\ Char(<<c, n>>) = c /\ Frame(<<c, n>>) = n
BY DEF Byte, Char, Frame

LEMMA SpecialChars ==
  /\ {SLIP_END, SLIP_ESC, SLIP_ESC_END, SLIP_ESC_ESC} \subseteq Character
  /\ SLIP_ESC # SLIP_END /\ SLIP_ESC_END # SLIP_END /\ SLIP_ESC_ESC # SLIP_END
  /\ SLIP_ESC_END # SLIP_ESC /\ SLIP_ESC_ESC # SLIP_ESC /\ SLIP_ESC_ESC # SLIP_ESC_END
<1>1. /\ SLIP_END \in Character /\ SLIP_ESC \in Character
      /\ SLIP_ESC_END \in Character /\ SLIP_ESC_ESC \in Character
  BY DEF Character
<1>2. /\ SLIP_ESC # SLIP_END /\ SLIP_ESC_END # SLIP_END /\ SLIP_ESC_ESC # SLIP_END
      /\ SLIP_ESC_END # SLIP_ESC /\ SLIP_ESC_ESC # SLIP_ESC /\ SLIP_ESC_ESC # SLIP_ESC_END
  BY DEF SLIP_END, SLIP_ESC, SLIP_ESC_END, SLIP_ESC_ESC
<1> QED
  BY <1>1, <1>2

\* What is written at each place of a frame.
LEMMA WrittenIs ==
  ASSUME SenderTypes, Sending
  PROVE  /\ Written \in Byte /\ Frame(Written) = Len(sent)
         /\ pos \notin 1 .. Len(LastFrame) => /\ pos = 0 \/ pos = Len(LastFrame) + 1
                                             /\ Char(Written) = SLIP_END
                                             /\ ~EscapeDue /\ ~escaped
         /\ pos \in 1 .. Len(LastFrame) =>
              \/ /\ ~IsEscaped(LastFrame[pos]) /\ ~EscapeDue /\ ~escaped
                 /\ Written = LastFrame[pos] /\ Char(Written) \notin {SLIP_END, SLIP_ESC}
              \/ EscapeDue /\ ~escaped /\ Char(Written) = SLIP_ESC
              \/ /\ escaped /\ ~EscapeDue
                 /\ \/ LastFrame[pos] = <<SLIP_END, Len(sent)>> /\ Char(Written) = SLIP_ESC_END
                    \/ LastFrame[pos] = <<SLIP_ESC, Len(sent)>> /\ Char(Written) = SLIP_ESC_ESC
<1>1. /\ Len(sent) \in Nat /\ LastFrame \in Seq(Byte) /\ DOMAIN LastFrame = 1 .. Len(LastFrame)
      /\ \A k \in 1 .. Len(LastFrame) :
           LastFrame[k] \in Byte /\ LastFrame[k] = <<Char(LastFrame[k]), Len(sent)>>
      /\ pos \in Nat /\ pos <= Len(LastFrame) + 1 /\ escaped \in BOOLEAN
  BY LastFrameIs DEF Sending, SenderTypes
<1>2. CASE pos \notin 1 .. Len(LastFrame)
  <2>1. pos = 0 \/ pos = Len(LastFrame) + 1
    BY <1>1, <1>2
  <2>2. Written = <<SLIP_END, Len(sent)>> /\ ~EscapeDue /\ ~escaped
    BY <1>1, <1>2 DEF Written, EscapeDue, SenderTypes
  <2> QED
    BY <1>1, <1>2, <2>1, <2>2, Pairs, SpecialChars
<1>3. CASE pos \in 1 .. Len(LastFrame)
  <2> DEFINE c == LastFrame[pos]
  <2>0. c \in Byte /\ c = <<Char(c), Len(sent)>> /\ Char(c) \in Character
    BY <1>1, <1>3 DEF Byte, Char
  <2>1. CASE ~IsEscaped(c)
    <3>1. Char(c) # SLIP_END /\ Char(c) # SLIP_ESC
      BY <2>1 DEF IsEscaped
    <3>2. ~EscapeDue /\ ~escaped
      BY <2>1 DEF EscapeDue, SenderTypes
    <3>3. Written = c
      BY <1>1, <1>3, <3>1, <3>2 DEF Written
    <3> QED
      BY <1>3, <2>0, <2>1, <3>1, <3>2, <3>3 DEF Frame
  <2>2. CASE IsEscaped(c) /\ ~escaped
    <3>1. EscapeDue
      BY <1>1, <1>3, <2>2 DEF EscapeDue
    <3>2. Written = <<SLIP_ESC, Len(sent)>>
      BY <3>1 DEF Written
    <3> QED
      BY <1>1, <1>3, <2>2, <3>1, <3>2, Pairs, SpecialChars
  <2>3. CASE IsEscaped(c) /\ escaped
    <3>1. ~EscapeDue
      BY <2>3 DEF EscapeDue
    <3>2. CASE Char(c) = SLIP_END
      <4>1. Written = <<SLIP_ESC_END, Len(sent)>> /\ c = <<SLIP_END, Len(sent)>>
        BY <1>1, <1>3, <2>0, <3>1, <3>2 DEF Written
      <4> QED
        BY <1>1, <1>3, <2>3, <3>1, <4>1, Pairs, SpecialChars
    <3>3. CASE Char(c) = SLIP_ESC
      <4>1. SLIP_ESC # SLIP_END
        BY DEF SLIP_ESC, SLIP_END
      <4>2. Written = <<SLIP_ESC_ESC, Len(sent)>> /\ c = <<SLIP_ESC, Len(sent)>>
        BY <1>1, <1>3, <2>0, <3>1, <3>3, <4>1 DEF Written
      <4> QED
        BY <1>1, <1>3, <2>3, <3>1, <4>2, Pairs, SpecialChars
    <3> QED
      BY <2>3, <3>2, <3>3 DEF IsEscaped
  <2> QED
    BY <1>1, <2>1, <2>2, <2>3
<1> QED
  BY <1>2, <1>3

LEMMA SenderStays ==
  ASSUME SenderTypes, SendFrame \/ (slip_write /\ cut' \in BOOLEAN) \/ UNCHANGED lineVars
  PROVE  SenderTypes'
<1>1. CASE SendFrame
  <2>1. PICK packet \in Packet :
          sent' = Append(sent, [k \in DOMAIN packet |-> <<packet[k], Len(sent) + 1>>])
    BY <1>1 DEF SendFrame
  <2>2. packet \in Seq(STRING) /\ DOMAIN packet = 1 .. Len(packet) /\ Len(packet) \in Nat
    BY BufferAssumption
  <2>3. sent \in Seq(Seq(Byte)) /\ Len(sent) + 1 \in Nat
    BY DEF SenderTypes
  <2> DEFINE f == [k \in 1 .. Len(packet) |-> <<packet[k], Len(sent) + 1>>]
  <2>4. ASSUME NEW k \in 1 .. Len(packet)
        PROVE  f[k] \in Byte /\ Frame(f[k]) = Len(sent) + 1
    <3>1. packet[k] \in Character
      BY <2>2 DEF Character
    <3> QED
      BY <2>3, <3>1, Pairs
  <2>5. f \in [1 .. Len(packet) -> Byte] /\ f \in Seq(Byte) /\ Len(f) = Len(packet)
    <3>1. f \in [1 .. Len(packet) -> Byte]
      BY <2>4
    <3> HIDE DEF f
    <3> QED
      BY <2>2, <3>1, IsASeq
  <2>6. Of(Len(sent) + 1, f)
    <3> HIDE DEF f
    <3> QED
      BY <2>4, <2>5 DEF Of
  <2>7. sent' = Append(sent, f)
    BY <2>1, <2>2
  <2>8. ~escaped
    BY <1>1, LastFrameIs DEF SendFrame, Sending, SenderTypes
  <2> HIDE DEF f
  <2>9. /\ sent' \in Seq(Seq(Byte)) /\ DOMAIN sent' = 1 .. Len(sent) + 1
        /\ \A n \in 1 .. Len(sent) + 1 : sent'[n] = IF n = Len(sent) + 1 THEN f ELSE sent[n]
    BY <2>3, <2>5, <2>7
  <2>10. \A n \in DOMAIN sent' : Of(n, sent'[n])
    <3> SUFFICES ASSUME NEW n \in 1 .. Len(sent) + 1 PROVE Of(n, sent'[n])
      BY <2>9
    <3>1. CASE n = Len(sent) + 1
      BY <2>6, <2>9, <3>1
    <3>2. CASE n # Len(sent) + 1
      <4>1. n \in DOMAIN sent /\ sent'[n] = sent[n]
        BY <2>3, <2>9, <3>2
      <4> QED
        BY <4>1 DEF SenderTypes
    <3> QED
      BY <3>1, <3>2
  <2>11. pos' \in Nat /\ escaped' = FALSE /\ cut' \in BOOLEAN
    BY <1>1, <2>8 DEF SendFrame, SenderTypes
  <2> QED
    BY <2>9, <2>10, <2>11 DEF SenderTypes
<1>2. CASE slip_write /\ cut' \in BOOLEAN
  <2>1. sent' = sent /\ LastFrame' = LastFrame /\ sent # <<>>
    BY <1>2 DEF slip_write, Sending, LastFrame
  <2>2. pos' \in Nat
    BY <1>2 DEF slip_write, SenderTypes
  <2>3. escaped' \in BOOLEAN /\ (escaped' => EscapeDue /\ pos' = pos)
    BY <1>2 DEF slip_write, EscapeDue
  <2>4. escaped' => sent' # <<>> /\ pos' \in DOMAIN LastFrame' /\ IsEscaped(LastFrame'[pos'])
    BY <2>1, <2>3 DEF EscapeDue
  <2> QED
    BY <1>2, <2>1, <2>2, <2>3, <2>4 DEF SenderTypes, LastFrame
<1>3. CASE UNCHANGED lineVars
  BY <1>3 DEF lineVars, SenderTypes, LastFrame
<1> QED
  BY <1>1, <1>2, <1>3

-----------------------------------------------------------------------------
Prefix ==
  /\ Of(Len(sent), Second)
  /\ Len(sent) \notin damaged =>
       Second = SubSeq(LastFrame, 1, pos - 1) /\ (state = "ESC" <=> escaped)

\* While bytes are taken, the second part is what has come of the frame being sent,
\* or else a frame whose END was lost.
Coming ==
  /\ state = "RUBBISH" => Second = <<>>
  /\ state \in {"OK", "ESC"} =>
       /\ Second # <<>> \/ state = "ESC" => Within \/ cut
       /\ Within => Prefix
       /\ ~Within /\ Second # <<>> => Whole(Second, sent, damaged)

\* While none is, a frame is damaged, or has not yet lost anything.
TwoPackets ==
  state = "TWOPACKETS" /\ main # "knock" =>
    /\ Within /\ Len(sent) \notin damaged => pos = 1 /\ ~escaped
    /\ main # "boot" => /\ Second # <<>> /\ Whole(Second, sent, damaged)
                        /\ begin = pkt_end <=> main = "check"

\* The packet in front is a frame, and so is what is taken of it.
Handled ==
  /\ begin # pkt_end => Whole(First, sent, damaged)
  /\ main = "copy" => uip_buf = SubSeq(First, 1, Len(uip_buf))
  /\ main = "advance" => begin # pkt_end /\ (uip_buf = <<>> \/ uip_buf = First)
  /\ main \in {"check", "input"} => uip_buf = <<>> \/ Whole(uip_buf, sent, damaged)
  /\ main \notin {"copy", "advance", "check", "input"} => uip_buf = <<>>

MainTypes ==
  /\ SlipTypeOK
  /\ uip_buf \in Seq(Byte)
  /\ main = "copy" => /\ begin # pkt_end /\ Distance(begin, pkt_end) <= BLEN
                      /\ Len(uip_buf) < Distance(begin, pkt_end)
                      /\ index = (begin + Len(uip_buf)) % RX_BUFSIZE
  /\ main = "boot" => state = "TWOPACKETS" /\ begin = end /\ begin = pkt_end

SlipIInv ==
  /\ SenderTypes /\ RingTypes /\ MainTypes
  /\ ~merged => Coming /\ TwoPackets /\ Handled

\* Where the writing of a byte takes the sender.
Places ==
  /\ sent' = sent /\ LastFrame' = LastFrame
  /\ \/ pos = 0 /\ pos' = 1 /\ ~Within /\ Within' /\ ~escaped' /\ ~AtEnd
     \/ AtEnd /\ Within /\ ~Within' /\ ~escaped'
     \/ pos \in 1 .. Len(LastFrame) /\ Within /\ Within' /\ ~AtEnd

LEMMA WhereTo ==
  ASSUME SenderTypes, slip_write
  PROVE  Places
<1>1. /\ sent' = sent /\ sent # <<>> /\ LastFrame' = LastFrame /\ Len(LastFrame) \in Nat
      /\ pos \in Nat /\ pos <= Len(LastFrame) + 1 /\ Sending
      /\ escaped' = EscapeDue /\ pos' = IF EscapeDue THEN pos ELSE pos + 1
  BY LastFrameIs DEF slip_write, Sending, SenderTypes, LastFrame
<1>2. Within' <=> pos' \in 1 .. Len(LastFrame) + 1
  BY <1>1 DEF Within
<1>3. CASE pos \notin 1 .. Len(LastFrame)
  <2>1. ~EscapeDue /\ (pos = 0 \/ pos = Len(LastFrame) + 1)
    BY <1>1, <1>3, WrittenIs
  <2>2. CASE pos = 0
    BY <1>1, <1>2, <2>1, <2>2 DEF Places, Within, AtEnd
  <2>3. CASE pos = Len(LastFrame) + 1
    BY <1>1, <1>2, <2>1, <2>3 DEF Places, Within, AtEnd
  <2> QED
    BY <2>1, <2>2, <2>3
<1>4. CASE pos \in 1 .. Len(LastFrame)
  <2>1. pos' \in 1 .. Len(LastFrame) + 1
    BY <1>1, <1>4
  <2> QED
    BY <1>1, <1>2, <1>4, <2>1 DEF Places, Within, AtEnd
<1> QED
  BY <1>3, <1>4

-----------------------------------------------------------------------------
\* The interrupt, by what it does.
Ignored == Ignore(Written) /\ state' = state
Restarted == Char(Written) = SLIP_END /\ state' = "OK" /\ UNCHANGED <<bufferVars, damaged, merged>>
Rejected == Rubbish(Written)
Escaping ==
  /\ state = "OK" /\ Char(Written) = SLIP_ESC
  /\ state' = "ESC" /\ UNCHANGED <<bufferVars, damaged, merged>>
Added(c) ==
  /\ HasRoom /\ state' = "OK" /\ rxbuf' = [rxbuf EXCEPT ![end] = c] /\ end' = Following(end)
  /\ UNCHANGED <<begin, pkt_end, damaged, merged>>
  /\ \/ state = "OK" /\ c = Written /\ Char(c) \notin {SLIP_END, SLIP_ESC}
     \/ state = "ESC" /\ Char(Written) = SLIP_ESC_END /\ c = <<SLIP_END, Frame(Written)>>
     \/ state = "ESC" /\ Char(Written) = SLIP_ESC_ESC /\ c = <<SLIP_ESC, Frame(Written)>>
Finished ==
  /\ state = "OK" /\ Char(Written) = SLIP_END /\ begin = pkt_end
  /\ end # pkt_end /\ pkt_end' = end /\ UNCHANGED <<state, begin, end, rxbuf, damaged, merged>>
FinishedTwo ==
  /\ state = "OK" /\ Char(Written) = SLIP_END /\ begin # pkt_end
  /\ end # pkt_end /\ state' = "TWOPACKETS" /\ merged' = (merged \/ main = "check")
  /\ UNCHANGED <<bufferVars, damaged>>

LEMMA InputByte ==
  ASSUME SenderTypes, RingTypes, MainTypes, Sending, slip_input_byte(Written)
  PROVE  /\ \/ Ignored /\ state \in {"TWOPACKETS", "RUBBISH"}
            \/ Restarted /\ state = "RUBBISH"
            \/ Restarted /\ state = "OK" /\ end = pkt_end
            \/ Rejected /\ state \in {"OK", "ESC"}
            \/ Escaping
            \/ \E c \in Byte : Added(c)
            \/ Finished \/ FinishedTwo
         /\ polled' \in BOOLEAN
<1>0. /\ Written \in Byte /\ Frame(Written) = Len(sent) /\ Len(sent) \in Nat
      /\ <<SLIP_END, Frame(Written)>> \in Byte /\ <<SLIP_ESC, Frame(Written)>> \in Byte
      /\ polled \in BOOLEAN /\ state \in {"TWOPACKETS", "OK", "ESC", "RUBBISH"}
  BY WrittenIs, Pairs, SpecialChars DEF SenderTypes, MainTypes, SlipTypeOK
<1>1. ASSUME NEW c \in Byte, add_char(c), state \in {"OK", "ESC"},
             \/ state = "OK" /\ c = Written /\ Char(c) \notin {SLIP_END, SLIP_ESC}
             \/ state = "ESC" /\ Char(Written) = SLIP_ESC_END /\ c = <<SLIP_END, Frame(Written)>>
             \/ state = "ESC" /\ Char(Written) = SLIP_ESC_ESC /\ c = <<SLIP_ESC, Frame(Written)>>
      PROVE  (Added(c) \/ Rejected) /\ polled' \in BOOLEAN
  <2>1. CASE HasRoom
    <3>1. polled' = (polled \/ (Char(c) = KNOCK[2] /\ Char(rxbuf'[begin]) = KNOCK[1]))
      BY <1>1, <2>1 DEF add_char
    <3>2. polled' \in BOOLEAN
      BY <1>0, <3>1
    <3>3. Added(c)
      BY <1>1, <2>1 DEF add_char, Added, historyVars
    <3> QED
      BY <3>2, <3>3
  <2>2. CASE ~HasRoom
    <3>1. Rubbish(c)
      BY <1>1, <2>2 DEF add_char
    <3>2. Frame(c) = Frame(Written)
      BY <1>0, <1>1, Pairs, SpecialChars
    <3> QED
      BY <1>0, <1>1, <3>1, <3>2 DEF Rejected, Rubbish
  <2> QED
    BY <2>1, <2>2
<1>2. CASE state = "TWOPACKETS"
  <2>1. Ignore(Written)
    BY <1>2 DEF slip_input_byte
  <2> QED
    BY <1>0, <1>2, <2>1 DEF Ignored, Ignore
<1>3. CASE state = "RUBBISH"
  <2>1. CASE Char(Written) = SLIP_END
    BY <1>0, <1>3, <2>1 DEF slip_input_byte, Restarted, historyVars
  <2>2. CASE Char(Written) # SLIP_END
    BY <1>0, <1>3, <2>2 DEF slip_input_byte, Ignored, Ignore
  <2> QED
    BY <2>1, <2>2
<1>4. CASE state = "ESC"
  <2>0. slip_input_byte(Written) =
          IF Char(Written) = SLIP_ESC_END THEN add_char(<<SLIP_END, Frame(Written)>>)
          ELSE IF Char(Written) = SLIP_ESC_ESC THEN add_char(<<SLIP_ESC, Frame(Written)>>)
          ELSE Rubbish(Written)
    BY <1>4 DEF slip_input_byte
  <2>1. CASE Char(Written) = SLIP_ESC_END
    BY <1>0, <1>1, <1>4, <2>0, <2>1
  <2>2. CASE Char(Written) = SLIP_ESC_ESC
    BY <1>0, <1>1, <1>4, <2>0, <2>2, SpecialChars
  <2>3. CASE Char(Written) \notin {SLIP_ESC_END, SLIP_ESC_ESC}
    <3>1. Rubbish(Written)
      BY <2>0, <2>3
    <3> QED
      BY <1>0, <1>4, <3>1 DEF Rejected, Rubbish
  <2> QED
    BY <2>1, <2>2, <2>3
<1>5. CASE state = "OK"
  <2>0. slip_input_byte(Written) =
          IF Char(Written) = SLIP_ESC
          THEN state' = "ESC" /\ UNCHANGED <<bufferVars, polled, historyVars>>
          ELSE IF Char(Written) = SLIP_END THEN EndOfPacket ELSE add_char(Written)
    BY <1>5 DEF slip_input_byte
  <2>1. CASE Char(Written) = SLIP_ESC
    BY <1>0, <1>5, <2>0, <2>1 DEF Escaping, historyVars
  <2>2. CASE Char(Written) = SLIP_END
    <3>1. EndOfPacket
      BY <2>0, <2>2, SpecialChars
    <3>2. CASE end = pkt_end
      BY <1>0, <1>5, <2>2, <3>1, <3>2 DEF EndOfPacket, Restarted, historyVars
    <3>3. CASE end # pkt_end /\ begin = pkt_end
      BY <1>0, <1>5, <2>2, <3>1, <3>3 DEF EndOfPacket, Finished
    <3>4. CASE end # pkt_end /\ begin # pkt_end
      BY <1>0, <1>5, <2>2, <3>1, <3>4 DEF EndOfPacket, FinishedTwo, bufferVars
    <3> QED
      BY <3>2, <3>3, <3>4
  <2>3. CASE Char(Written) \notin {SLIP_END, SLIP_ESC}
    BY <1>0, <1>1, <1>5, <2>0, <2>3
  <2> QED
    BY <2>1, <2>2, <2>3
<1> QED
  BY <1>0, <1>2, <1>3, <1>4, <1>5

LEMMA StillHandled ==
  ASSUME SenderTypes, Handled, MainTypes, UNCHANGED <<main, uip_buf, sent>>, damaged \subseteq damaged',
         begin' # pkt_end' => Whole(First', sent', damaged'),
         begin # pkt_end => begin' # pkt_end' /\ First' = First
  PROVE  Handled'
<1>1. main = "copy" \/ main = "advance" => begin # pkt_end
  BY DEF MainTypes, Handled
<1>2. ASSUME Whole(uip_buf, sent, damaged) PROVE Whole(uip_buf', sent', damaged')
  BY <1>2, WholeStays DEF SenderTypes
<1> HIDE DEF First
<1> QED
  BY <1>1, <1>2 DEF Handled

LEMMA MainTypesStay ==
  ASSUME RingTypes, RingTypes', MainTypes, UNCHANGED <<main, uip_buf, index>>,
         state' \in {"TWOPACKETS", "OK", "ESC", "RUBBISH"}, polled' \in BOOLEAN, merged' \in BOOLEAN,
         begin # pkt_end => UNCHANGED <<begin, pkt_end>>,
         state = "TWOPACKETS" => UNCHANGED <<state, begin, end, pkt_end>>
  PROVE  MainTypes'
<1>1. SlipTypeOK'
  BY DEF SlipTypeOK, MainTypes, RingTypes
<1>2. main' = "copy" => /\ begin' # pkt_end' /\ (Distance(begin, pkt_end) <= BLEN)'
                        /\ Len(uip_buf') < Distance(begin, pkt_end)'
                        /\ index' = (begin' + Len(uip_buf')) % RX_BUFSIZE
  BY DEF MainTypes, Distance
<1> QED
  BY <1>1, <1>2 DEF MainTypes

LEMMA ByteReceived ==
  ASSUME SlipIInv, ReceiveByte
  PROVE  SlipIInv'
<1>0. /\ SenderTypes /\ RingTypes /\ MainTypes /\ slip_write /\ Sending /\ slip_input_byte(Written)
      /\ cut' = (cut /\ ~AtEnd) /\ UNCHANGED <<main, index, uip_buf>>
      /\ (~merged => Coming /\ TwoPackets /\ Handled)
  BY DEF SlipIInv, ReceiveByte, slip_write
<1>1. SenderTypes' /\ Places
  <2>1. cut' \in BOOLEAN
    BY <1>0 DEF SenderTypes
  <2> QED
    BY <1>0, <2>1, SenderStays, WhereTo
<1>2. /\ Written \in Byte /\ Frame(Written) = Len(sent) /\ Len(sent) \in DOMAIN sent
      /\ LastFrame \in Seq(Byte) /\ sent \in Seq(Seq(Byte)) /\ Len(LastFrame) \in Nat
      /\ sent' = sent /\ LastFrame' = LastFrame /\ polled' \in BOOLEAN
      /\ state \in {"TWOPACKETS", "OK", "ESC", "RUBBISH"} /\ merged \in BOOLEAN
  <2>1. sent # <<>>
    BY <1>0 DEF Sending
  <2>2. polled' \in BOOLEAN
    BY <1>0, InputByte
  <2> QED
    BY <1>0, <1>1, <2>1, <2>2, WrittenIs, LastFrameIs DEF SenderTypes, Places, MainTypes, SlipTypeOK
<1>3. /\ First \in Seq(Byte) /\ Second \in Seq(Byte) /\ (Second = <<>> <=> end = pkt_end)
  BY <1>0, PartIsSequence DEF First, Second, RingTypes
<1>4. \/ pos = 0 /\ pos' = 1 /\ ~Within /\ Within' /\ ~escaped' /\ ~AtEnd /\ Char(Written) = SLIP_END
      \/ AtEnd /\ Within /\ ~Within' /\ ~escaped' /\ Char(Written) = SLIP_END
      \/ pos \in 1 .. Len(LastFrame) /\ Within /\ Within' /\ ~AtEnd /\ Char(Written) # SLIP_END
  <2>1. pos \in 1 .. Len(LastFrame) => Char(Written) # SLIP_END
    BY <1>0, WrittenIs, SpecialChars
  <2>2. pos \notin 1 .. Len(LastFrame) => Char(Written) = SLIP_END
    BY <1>0, WrittenIs
  <2>3. pos = 0 \/ AtEnd => pos \notin 1 .. Len(LastFrame)
    BY <1>2 DEF AtEnd
  <2> QED
    BY <1>1, <2>1, <2>2, <2>3 DEF Places
<1>5. Of(Len(sent), <<>>)
  BY DEF Of
<1> DEFINE Goal == RingTypes' /\ MainTypes' /\ (~merged' => Coming' /\ TwoPackets' /\ Handled')
<1> SUFFICES Goal
  BY <1>1 DEF SlipIInv
\* An END between frames, the second part empty.
<1>6. ASSUME state' = "OK", Second' = <<>>, Char(Written) = SLIP_END
      PROVE  Coming' /\ TwoPackets'
  <2>1. Within' => pos' = 1 /\ ~escaped'
    BY <1>4, <1>6
  <2>2. Within' => Prefix'
    <3>1. SubSeq(LastFrame, 1, 0) = <<>> /\ 1 - 1 = 0
      BY <1>2, PrefixGrows
    <3> QED
      BY <1>2, <1>5, <1>6, <2>1, <3>1 DEF Prefix
  <2> QED
    BY <1>6, <2>2 DEF Coming, TwoPackets
<1>7. CASE Ignored /\ state \in {"TWOPACKETS", "RUBBISH"}
  <2>1. /\ UNCHANGED bufferVars /\ state' = state /\ merged' = merged
        /\ damaged' = damaged \cup (IF Char(Written) = SLIP_END THEN {} ELSE {Len(sent)})
    BY <1>2, <1>7 DEF Ignored, Ignore, Damages
  <2>2. RingTypes' /\ First' = First /\ Second' = Second
    BY <1>0, <2>1, Kept
  <2>3. MainTypes'
    BY <1>0, <1>2, <2>1, <2>2, MainTypesStay DEF bufferVars
  <2>4. ASSUME ~merged PROVE Coming' /\ TwoPackets' /\ Handled'
    <3>1. Coming'
      BY <1>0, <1>7, <2>1, <2>2, <2>4 DEF Coming
    <3>2. damaged \subseteq damaged'
      BY <2>1
    <3>3. TwoPackets'
      <4>1. ASSUME state = "TWOPACKETS", Within', Len(sent) \notin damaged' PROVE pos' = 1 /\ ~escaped'
        BY <1>4, <2>1, <4>1
      <4>2. Whole(Second, sent, damaged) => Whole(Second', sent', damaged')
        BY <1>2, <2>2, <3>2, WholeStays
      <4> QED
        BY <1>0, <1>2, <2>1, <2>2, <2>4, <4>1, <4>2 DEF TwoPackets, bufferVars
    <3>4. Whole(First, sent, damaged) => Whole(First', sent', damaged')
      BY <1>2, <2>2, <3>2, WholeStays
    <3>5. Handled'
      <4>1. Handled /\ (begin' # pkt_end' <=> begin # pkt_end)
        BY <1>0, <2>1, <2>4 DEF bufferVars
      <4>2. begin # pkt_end => Whole(First, sent, damaged)
        BY <4>1 DEF Handled
      <4> QED
        BY <1>0, <1>2, <2>2, <3>2, <3>4, <4>1, <4>2, StillHandled
    <3> QED
      BY <3>1, <3>3, <3>5
  <2> QED
    BY <2>1, <2>2, <2>3, <2>4
<1>8. CASE Restarted /\ (state = "RUBBISH" \/ (state = "OK" /\ end = pkt_end))
  <2>1. /\ UNCHANGED bufferVars /\ state' = "OK" /\ merged' = merged /\ damaged' = damaged
        /\ Char(Written) = SLIP_END
    BY <1>8 DEF Restarted
  <2>2. RingTypes' /\ First' = First /\ Second' = Second
    BY <1>0, <2>1, Kept
  <2>3. MainTypes'
    BY <1>0, <1>2, <1>8, <2>1, <2>2, MainTypesStay DEF bufferVars
  <2>4. ASSUME ~merged PROVE Coming' /\ TwoPackets' /\ Handled'
    <3>1. Second' = <<>>
      BY <1>0, <1>3, <1>8, <2>2, <2>4 DEF Coming
    <3>2. Coming' /\ TwoPackets'
      BY <1>6, <2>1, <3>1
    <3>3. Handled'
      BY <1>0, <1>2, <2>1, <2>2, <2>4, StillHandled DEF Handled, bufferVars
    <3> QED
      BY <3>2, <3>3
  <2> QED
    BY <2>1, <2>2, <2>3, <2>4
<1>9. CASE Rejected /\ state \in {"OK", "ESC"}
  <2>1. /\ state' = "RUBBISH" /\ end' = pkt_end /\ UNCHANGED <<begin, pkt_end, rxbuf, merged>>
        /\ damaged \subseteq damaged'
    BY <1>9 DEF Rejected, Rubbish
  <2>2. RingTypes' /\ First' = First /\ Second' = <<>>
    BY <1>0, <2>1, Dropped
  <2>3. MainTypes'
    BY <1>0, <1>2, <1>9, <2>1, <2>2, MainTypesStay
  <2>4. ASSUME ~merged PROVE Coming' /\ TwoPackets' /\ Handled'
    <3>1. Coming' /\ TwoPackets'
      BY <2>1, <2>2 DEF Coming, TwoPackets
    <3>2. Whole(First, sent, damaged) => Whole(First', sent', damaged')
      BY <1>2, <2>1, <2>2, WholeStays
    <3>3. Handled
      BY <1>0, <2>4
    <3>4. begin # pkt_end => Whole(First, sent, damaged)
      BY <3>3 DEF Handled
    <3>5. Handled'
      BY <1>0, <1>2, <2>1, <2>2, <3>2, <3>3, <3>4, StillHandled
    <3> QED
      BY <3>1, <3>5
  <2> QED
    BY <2>1, <2>2, <2>3, <2>4
<1>10. CASE Escaping
  <2>1. /\ UNCHANGED bufferVars /\ state = "OK" /\ state' = "ESC" /\ merged' = merged /\ damaged' = damaged
        /\ Char(Written) = SLIP_ESC
    BY <1>10 DEF Escaping
  <2>2. RingTypes' /\ First' = First /\ Second' = Second
    BY <1>0, <2>1, Kept
  <2>3. MainTypes'
    BY <1>0, <1>2, <2>1, <2>2, MainTypesStay DEF bufferVars
  <2>4. ASSUME ~merged PROVE Coming' /\ TwoPackets' /\ Handled'
    <3>1. pos \in 1 .. Len(LastFrame) /\ Within /\ Within'
      BY <1>4, <2>1, SpecialChars
    <3>2. EscapeDue
      BY <1>0, <2>1, <3>1, WrittenIs, SpecialChars
    <3>3. escaped' = TRUE /\ pos' = pos
      BY <1>0, <3>2 DEF slip_write
    <3>4. Prefix
      BY <1>0, <2>1, <2>4, <3>1 DEF Coming
    <3>5. Prefix'
      BY <1>2, <2>1, <2>2, <3>3, <3>4 DEF Prefix
    <3>6. Coming' /\ TwoPackets'
      BY <2>1, <3>1, <3>5 DEF Coming, TwoPackets
    <3>7. Handled'
      BY <1>0, <1>2, <2>1, <2>2, <2>4, StillHandled DEF Handled, bufferVars
    <3> QED
      BY <3>6, <3>7
  <2> QED
    BY <2>1, <2>2, <2>3, <2>4
<1>11. CASE \E c \in Byte : Added(c)
  <2>0. PICK c \in Byte : Added(c)
    BY <1>11
  <2>1. /\ HasRoom /\ state' = "OK" /\ rxbuf' = [rxbuf EXCEPT ![end] = c] /\ end' = Following(end)
        /\ begin' = begin /\ pkt_end' = pkt_end /\ damaged' = damaged /\ merged' = merged
    BY <2>0 DEF Added
  <2>2. RingTypes' /\ First' = First /\ Second' = Append(Second, c)
    BY <1>0, <2>1, Stored
  <2>3. \/ state = "OK" /\ c = Written /\ Char(Written) \notin {SLIP_END, SLIP_ESC}
        \/ state = "ESC" /\ Char(Written) = SLIP_ESC_END /\ c = <<SLIP_END, Len(sent)>>
        \/ state = "ESC" /\ Char(Written) = SLIP_ESC_ESC /\ c = <<SLIP_ESC, Len(sent)>>
    BY <1>2, <2>0 DEF Added
  <2>4. MainTypes'
    BY <1>0, <1>2, <2>1, <2>2, <2>3, MainTypesStay
  <2>5. ASSUME ~merged PROVE Coming' /\ TwoPackets' /\ Handled'
    <3>1. pos \in 1 .. Len(LastFrame) /\ Within /\ Within'
      BY <1>4, <2>3, SpecialChars
    <3>2. Prefix
      BY <1>0, <2>3, <2>5, <3>1 DEF Coming
    <3>3. Frame(c) = Len(sent)
      BY <1>2, <2>3 DEF Frame
    <3>4. Of(Len(sent), Append(Second, c))
      BY <1>3, <3>2, <3>3, OfAppended DEF Prefix
    <3>5. ASSUME Len(sent) \notin damaged
          PROVE  /\ Append(Second, c) = SubSeq(LastFrame, 1, pos' - 1) /\ ~escaped'
      <4>1. Second = SubSeq(LastFrame, 1, pos - 1) /\ (state = "ESC" <=> escaped)
        BY <3>2, <3>5 DEF Prefix
      <4>2. c = LastFrame[pos] /\ ~EscapeDue
        <5>1. CASE state = "OK"
          BY <1>0, <2>3, <3>1, <4>1, <5>1, WrittenIs, SpecialChars
        <5>2. CASE state = "ESC"
          BY <1>0, <2>3, <3>1, <4>1, <5>2, WrittenIs, SpecialChars
        <5> QED
          BY <2>3, <5>1, <5>2
      <4>3. pos' = pos + 1 /\ escaped' = FALSE /\ pos \in Nat
        BY <1>0, <4>2 DEF slip_write, SenderTypes
      <4>4. Append(SubSeq(LastFrame, 1, pos - 1), LastFrame[pos]) = SubSeq(LastFrame, 1, pos)
        BY <1>2, <3>1, PrefixGrows
      <4>5. pos' - 1 = pos
        BY <4>3
      <4> QED
        BY <4>1, <4>2, <4>3, <4>4, <4>5
    <3>6. Prefix'
      BY <1>2, <2>1, <2>2, <3>4, <3>5 DEF Prefix
    <3>7. Coming' /\ TwoPackets'
      BY <2>1, <3>1, <3>6 DEF Coming, TwoPackets
    <3>8. Handled'
      BY <1>0, <1>2, <2>1, <2>2, <2>5, StillHandled DEF Handled
    <3> QED
      BY <3>7, <3>8
  <2> QED
    BY <2>1, <2>2, <2>4, <2>5
\* What an END completes is a frame.
<1>12. ASSUME ~merged, state = "OK", end # pkt_end, Char(Written) = SLIP_END
       PROVE  Whole(Second, sent, damaged)
  <2>1. Coming /\ Second # <<>>
    BY <1>0, <1>3, <1>12
  <2>2. CASE Within
    <3>1. AtEnd
      BY <1>4, <1>12, <2>2
    <3>2. Prefix /\ pos - 1 = Len(LastFrame)
      BY <1>2, <1>12, <2>1, <2>2, <3>1 DEF Coming, AtEnd
    <3>3. SubSeq(LastFrame, 1, Len(LastFrame)) = LastFrame
      BY <1>2, PrefixGrows
    <3> QED
      BY <1>2, <3>2, <3>3 DEF Prefix, Whole, LastFrame
  <2>3. CASE ~Within
    BY <1>12, <2>1, <2>3 DEF Coming
  <2> QED
    BY <2>2, <2>3
<1>13. CASE Finished
  <2>1. /\ state = "OK" /\ state' = "OK" /\ Char(Written) = SLIP_END /\ begin = pkt_end /\ end # pkt_end
        /\ pkt_end' = end /\ UNCHANGED <<begin, end, rxbuf, damaged, merged>>
    BY <1>13 DEF Finished
  <2>2. RingTypes' /\ First' = Second /\ Second' = <<>>
    BY <1>0, <2>1, SecondCompleted
  <2>3. MainTypes'
    BY <1>0, <1>2, <2>1, <2>2, MainTypesStay
  <2>4. ASSUME ~merged PROVE Coming' /\ TwoPackets' /\ Handled'
    <3>1. Coming' /\ TwoPackets'
      BY <1>6, <2>1, <2>2
    <3>2. Whole(First', sent', damaged')
      BY <1>2, <1>12, <2>1, <2>2, <2>4
    <3>3. Handled'
      BY <1>0, <1>2, <2>1, <2>4, <3>2, StillHandled
    <3> QED
      BY <3>1, <3>3
  <2> QED
    BY <2>1, <2>2, <2>3, <2>4
<1>14. CASE FinishedTwo
  <2>1. /\ state = "OK" /\ state' = "TWOPACKETS" /\ Char(Written) = SLIP_END /\ begin # pkt_end
        /\ end # pkt_end /\ UNCHANGED bufferVars /\ damaged' = damaged
        /\ merged' = (merged \/ main = "check")
    BY <1>14 DEF FinishedTwo
  <2>2. RingTypes' /\ First' = First /\ Second' = Second
    BY <1>0, <2>1, Kept
  <2>3. MainTypes'
    <3>1. merged' \in BOOLEAN
      BY <1>2, <2>1
    <3> QED
      BY <1>0, <1>2, <2>1, <2>2, <3>1, MainTypesStay DEF bufferVars
  <2>4. ASSUME ~merged' PROVE Coming' /\ TwoPackets' /\ Handled'
    <3>1. ~merged /\ main # "check"
      BY <2>1, <2>4
    <3>2. Whole(Second', sent', damaged')
      BY <1>2, <1>12, <2>1, <2>2, <3>1
    <3>3. TwoPackets'
      <4>1. Second' # <<>>
        BY <1>3, <2>1, <2>2
      <4>2. Within' => pos' = 1 /\ ~escaped'
        BY <1>4, <2>1
      <4> QED
        BY <1>0, <2>1, <3>1, <3>2, <4>1, <4>2 DEF TwoPackets, bufferVars
    <3>4. Handled'
      BY <1>0, <1>2, <2>1, <2>2, <3>1, StillHandled DEF Handled, bufferVars
    <3>5. Coming'
      BY <2>1 DEF Coming
    <3> QED
      BY <3>3, <3>4, <3>5
  <2> QED
    BY <2>2, <2>3, <2>4
<1> QED
  BY <1>0, <1>7, <1>8, <1>9, <1>10, <1>11, <1>13, <1>14, InputByte

LEMMA ByteLost ==
  ASSUME SlipIInv, LoseByte
  PROVE  SlipIInv'
<1>0. /\ SenderTypes /\ RingTypes /\ MainTypes /\ slip_write /\ Sending /\ ~(pos = 0 /\ cut)
      /\ damaged' = damaged \cup (IF Char(Written) = SLIP_END THEN {} ELSE {Frame(Written)})
      /\ cut' = (cut \/ AtEnd) /\ UNCHANGED <<state, bufferVars, polled, main, index, uip_buf, merged>>
      /\ (~merged => Coming /\ TwoPackets /\ Handled)
  BY DEF SlipIInv, LoseByte, slip_write, Damages
<1>1. SenderTypes' /\ Places
  <2>1. cut' \in BOOLEAN
    BY <1>0 DEF SenderTypes
  <2> QED
    BY <1>0, <2>1, SenderStays, WhereTo
<1>2. /\ Frame(Written) = Len(sent) /\ Len(sent) \in DOMAIN sent
      /\ LastFrame \in Seq(Byte) /\ sent \in Seq(Seq(Byte)) /\ Len(LastFrame) \in Nat
      /\ sent' = sent /\ LastFrame' = LastFrame /\ polled' \in BOOLEAN
      /\ state \in {"TWOPACKETS", "OK", "ESC", "RUBBISH"} /\ merged \in BOOLEAN
  <2>1. sent # <<>>
    BY <1>0 DEF Sending
  <2> QED
    BY <1>0, <1>1, <2>1, WrittenIs, LastFrameIs DEF SenderTypes, Places, MainTypes, SlipTypeOK
<1>3. RingTypes' /\ First' = First /\ Second' = Second
  BY <1>0, Kept
<1>4. MainTypes'
  BY <1>0, <1>2, <1>3, MainTypesStay DEF bufferVars
<1>5. \/ pos = 0 /\ pos' = 1 /\ ~Within /\ Within' /\ ~escaped' /\ ~cut
      \/ AtEnd /\ Within /\ ~Within' /\ ~escaped' /\ cut'
      \/ pos \in 1 .. Len(LastFrame) /\ Within /\ Within' /\ Len(sent) \in damaged'
  <2>1. pos \in 1 .. Len(LastFrame) => Len(sent) \in damaged'
    BY <1>0, <1>2, WrittenIs, SpecialChars
  <2> QED
    BY <1>0, <1>1, <2>1 DEF Places
<1>6. damaged \subseteq damaged'
  BY <1>0
<1>7. ASSUME ~merged PROVE Coming' /\ TwoPackets' /\ Handled'
  <2>0. Coming /\ TwoPackets /\ Handled
    BY <1>0, <1>7
  <2>1. \A s : Whole(s, sent, damaged) => Whole(s, sent', damaged')
    BY <1>2, <1>6, WholeStays
  <2>2. Coming'
    <3>1. CASE state \notin {"OK", "ESC"}
      BY <1>0, <1>3, <2>0, <3>1 DEF Coming
    <3>2. CASE state \in {"OK", "ESC"} /\ pos = 0 /\ ~Within /\ ~cut
      <4>1. Second = <<>> /\ state = "OK"
        BY <2>0, <3>2 DEF Coming
      <4>2. pos' = 1 /\ ~escaped' /\ Within'
        BY <1>2, <1>5, <3>2 DEF Within, AtEnd
      <4>3. SubSeq(LastFrame, 1, 0) = <<>> /\ 1 - 1 = 0
        BY <1>2, PrefixGrows
      <4>4. Of(Len(sent), <<>>)
        BY DEF Of
      <4>5. Prefix'
        BY <1>0, <1>2, <1>3, <4>1, <4>2, <4>3, <4>4 DEF Prefix
      <4> QED
        BY <1>0, <1>3, <4>1, <4>2, <4>5 DEF Coming
    <3>3. CASE state \in {"OK", "ESC"} /\ AtEnd /\ Within /\ ~Within' /\ cut'
      <4>1. Prefix /\ pos - 1 = Len(LastFrame)
        BY <1>2, <2>0, <3>3 DEF Coming, AtEnd
      <4>2. SubSeq(LastFrame, 1, Len(LastFrame)) = LastFrame
        BY <1>2, PrefixGrows
      <4>3. Whole(Second, sent, damaged)
        BY <1>2, <4>1, <4>2 DEF Prefix, Whole, LastFrame
      <4>4. Whole(Second', sent', damaged')
        BY <1>3, <2>1, <4>3
      <4> QED
        BY <1>0, <3>3, <4>4 DEF Coming
    <3>4. CASE state \in {"OK", "ESC"} /\ Within /\ Within' /\ Len(sent) \in damaged'
      <4>1. Of(Len(sent), Second)
        BY <2>0, <3>4 DEF Coming, Prefix
      <4>2. Prefix'
        BY <1>2, <1>3, <3>4, <4>1 DEF Prefix
      <4> QED
        BY <1>0, <3>4, <4>2 DEF Coming
    <3> QED
      BY <1>2, <1>5, <3>1, <3>2, <3>3, <3>4
  <2>3. TwoPackets'
    <3>1. ASSUME state = "TWOPACKETS", Within', Len(sent) \notin damaged' PROVE pos' = 1 /\ ~escaped'
      BY <1>5, <3>1
    <3>2. Whole(Second, sent, damaged) => Whole(Second', sent', damaged')
      BY <1>3, <2>1
    <3> QED
      BY <1>0, <1>2, <1>3, <2>0, <3>1, <3>2 DEF TwoPackets, bufferVars
  <2>4. Handled'
    <3>1. Whole(First, sent, damaged) => Whole(First', sent', damaged')
      BY <1>3, <2>1
    <3>2. (begin' # pkt_end' <=> begin # pkt_end) /\ (begin # pkt_end => Whole(First, sent, damaged))
      BY <1>0, <2>0 DEF bufferVars, Handled
    <3> QED
      BY <1>0, <1>2, <1>3, <1>6, <2>0, <3>1, <3>2, StillHandled
  <2> QED
    BY <2>2, <2>3, <2>4
<1> QED
  BY <1>0, <1>1, <1>3, <1>4, <1>7 DEF SlipIInv

LEMMA NextFrame ==
  ASSUME SlipIInv, SendFrame
  PROVE  SlipIInv'
<1>0. /\ SenderTypes /\ RingTypes /\ MainTypes /\ ~Sending
      /\ UNCHANGED <<state, bufferVars, polled, main, index, uip_buf, escaped, cut, damaged, merged>>
      /\ pos' = 0 /\ (~merged => Coming /\ TwoPackets /\ Handled)
  BY DEF SlipIInv, SendFrame, historyVars
<1>1. SenderTypes'
  BY <1>0, SenderStays
<1>2. RingTypes' /\ First' = First /\ Second' = Second
  BY <1>0, Kept
<1>3. MainTypes'
  BY <1>0, <1>2, MainTypesStay DEF MainTypes, SlipTypeOK, bufferVars
<1>4. ~Within /\ ~Within'
  BY <1>0 DEF Within, Sending, SenderTypes
<1>5. ASSUME NEW s, Whole(s, sent, damaged) PROVE Whole(s, sent', damaged')
  <2>1. PICK packet \in Packet :
          sent' = Append(sent, [k \in DOMAIN packet |-> <<packet[k], Len(sent) + 1>>])
    BY DEF SendFrame
  <2> DEFINE f == [k \in DOMAIN packet |-> <<packet[k], Len(sent) + 1>>]
  <2>2. sent \in Seq(Seq(Byte)) /\ sent' \in Seq(Seq(Byte)) /\ sent' = Append(sent, f)
    BY <1>0, <1>1, <2>1 DEF SenderTypes
  <2> HIDE DEF f
  <2>3. Len(sent') = Len(sent) + 1 /\ sent'[Len(sent) + 1] = f
    BY <2>2
  <2>4. f \in Seq(Byte)
    BY <2>2, <2>3
  <2> QED
    BY <1>0, <1>5, <2>2, <2>4, WholeStays
<1>6. ASSUME ~merged PROVE Coming' /\ TwoPackets' /\ Handled'
  <2>0. Coming /\ TwoPackets /\ Handled
    BY <1>0, <1>6
  <2>1. Coming'
    BY <1>0, <1>2, <1>4, <1>5, <2>0 DEF Coming
  <2>2. TwoPackets'
    BY <1>0, <1>2, <1>4, <1>5, <2>0 DEF TwoPackets, bufferVars
  <2>3. Handled'
    <3>1. /\ begin' = begin /\ pkt_end' = pkt_end /\ main' = main /\ uip_buf' = uip_buf
      BY <1>0 DEF bufferVars
    <3> QED
      BY <1>2, <1>5, <2>0, <3>1 DEF Handled
  <2> QED
    BY <2>1, <2>2, <2>3
<1> QED
  BY <1>0, <1>1, <1>2, <1>3, <1>6 DEF SlipIInv

-----------------------------------------------------------------------------

\* The steps of the main program.
LEMMA MainSteps ==
  ASSUME SlipIInv, SlipMain
  PROVE  SlipIInv'
<1>0. /\ SenderTypes /\ RingTypes /\ MainTypes
      /\ (~merged => Coming /\ TwoPackets /\ Handled)
  BY DEF SlipIInv
<1>1. UNCHANGED lineVars /\ SenderTypes' /\ merged' = merged
  <2>1. UNCHANGED lineVars /\ merged' = merged
    BY DEF SlipMain, StartProcess, Poll, TestClient, Handshake, TestPacket, CopyByte, RemoveData,
           SecondPacket, HandOver, historyVars
  <2> QED
    BY <1>0, <2>1, SenderStays
<1>2. /\ sent' = sent /\ pos' = pos /\ escaped' = escaped /\ cut' = cut
      /\ LastFrame' = LastFrame /\ (Within' <=> Within)
  BY <1>1 DEF lineVars, LastFrame, Within
<1>3. /\ SlipTypeOK /\ 0 \in Index /\ (LastFrame \in Seq(Byte) \/ sent = <<>>)
  BY <1>0, LastFrameIs, RingSize DEF MainTypes
<1>4. /\ SlipTypeOK /\ begin \in Index /\ end \in Index /\ pkt_end \in Index /\ index \in Index
      /\ polled \in BOOLEAN /\ merged \in BOOLEAN /\ state \in {"TWOPACKETS", "OK", "ESC", "RUBBISH"}
      /\ rxbuf \in [Index -> Byte] /\ DOMAIN rxbuf = Index /\ 0 \in Index
      /\ uip_buf \in Seq(Byte) /\ Len(uip_buf) <= BLEN
  BY <1>0, RingSize DEF MainTypes, SlipTypeOK, RingTypes
<1>5. Of(Len(sent), <<>>) /\ Len(<<>>) = 0 /\ 0 <= BLEN /\ <<>> \in Seq(Byte)
  BY RingSize DEF Of
<1> DEFINE Goal == RingTypes' /\ MainTypes' /\ (~merged => Coming' /\ TwoPackets' /\ Handled')
<1> SUFFICES Goal
  BY <1>1 DEF SlipIInv
<1> HIDE DEF First, Second
<1>6. CASE StartProcess
  <2>1. /\ main = "boot" /\ main' = "yield" /\ begin' = 0 /\ end' = 0 /\ pkt_end' = 0 /\ state' = "OK"
        /\ UNCHANGED <<rxbuf, polled, index, uip_buf, damaged>>
    BY <1>6 DEF StartProcess, rxbuf_init, historyVars
  <2>2. RingTypes' /\ First' = <<>> /\ Second' = <<>>
    BY <1>4, <2>1, Cleared
  <2>3. MainTypes'
    BY <1>1, <1>4, <2>1 DEF MainTypes, SlipTypeOK
  <2>4. ASSUME ~merged PROVE Coming' /\ TwoPackets' /\ Handled'
    <3>1. state = "TWOPACKETS" /\ TwoPackets /\ Handled
      BY <1>0, <2>1, <2>4 DEF MainTypes
    <3>2. Within /\ Len(sent) \notin damaged => pos = 1 /\ ~escaped
      BY <2>1, <3>1 DEF TwoPackets
    <3>3. Within => Prefix'
      <4>1. (SubSeq(LastFrame, 1, 0) = <<>> /\ 1 - 1 = 0) \/ sent = <<>>
        BY <1>3, PrefixGrows
      <4> QED
        BY <1>2, <1>5, <2>1, <2>2, <3>2, <4>1 DEF Prefix, Within
    <3>4. Coming' /\ TwoPackets'
      BY <1>2, <2>1, <2>2, <3>3 DEF Coming, TwoPackets
    <3>5. Handled'
      BY <2>1, <3>1 DEF Handled
    <3> QED
      BY <3>4, <3>5
  <2> QED
    BY <2>2, <2>3, <2>4
<1>7. CASE Poll \/ TestClient
  <2>1. /\ UNCHANGED <<bufferVars, index, uip_buf, damaged>> /\ polled' \in BOOLEAN
        /\ main \in {"yield", "client"} /\ main' \in {"client", "test", "knock"}
        /\ \/ main' # "knock" /\ state' = state
           \/ main' = "knock" /\ state' = "TWOPACKETS"
    BY <1>4, <1>7 DEF Poll, TestClient, historyVars
  <2>2. RingTypes' /\ First' = First /\ Second' = Second /\ UNCHANGED <<begin, end, pkt_end, rxbuf>>
    BY <1>0, <2>1, Kept DEF bufferVars
  <2>3. MainTypes'
    BY <1>1, <1>4, <2>1, <2>2 DEF MainTypes, SlipTypeOK
  <2>4. ASSUME ~merged PROVE Coming' /\ TwoPackets' /\ Handled'
    <3>1. Coming /\ TwoPackets /\ Handled
      BY <1>0, <2>4
    <3>2. Coming'
      BY <1>2, <2>1, <2>2, <3>1 DEF Coming, Prefix
    <3>3. TwoPackets'
      BY <1>2, <2>1, <2>2, <3>1 DEF TwoPackets
    <3>4. Handled'
      BY <1>2, <2>1, <2>2, <3>1 DEF Handled
    <3> QED
      BY <3>2, <3>3, <3>4
  <2> QED
    BY <2>2, <2>3, <2>4
<1>8. CASE Handshake
  <2>1. /\ main = "knock" /\ main' = "yield" /\ begin' = 0 /\ end' = 0 /\ pkt_end' = 0 /\ state' = "OK"
        /\ UNCHANGED <<polled, index, uip_buf>> /\ damaged' = damaged \cup {Len(sent)}
    BY <1>8 DEF Handshake, rxbuf_init
  <2>2. rxbuf' \in [Index -> Byte]
    <3>1. Nul \in Byte
      BY DEF Nul, Byte, Character
    <3> QED
      BY <1>4, <1>8, <3>1 DEF Handshake
  <2>3. RingTypes' /\ First' = <<>> /\ Second' = <<>>
    BY <1>4, <2>1, <2>2, Cleared
  <2>4. MainTypes'
    BY <1>1, <1>4, <2>1, <2>2 DEF MainTypes, SlipTypeOK
  <2>5. ASSUME ~merged PROVE Coming' /\ TwoPackets' /\ Handled'
    <3>1. Prefix'
      BY <1>2, <1>5, <2>1, <2>3 DEF Prefix
    <3>2. Coming' /\ TwoPackets'
      BY <2>1, <2>3, <3>1 DEF Coming, TwoPackets
    <3>3. Handled'
      BY <1>0, <2>1, <2>5 DEF Handled
    <3> QED
      BY <3>2, <3>3
  <2> QED
    BY <2>3, <2>4, <2>5
<1>9. CASE TestPacket
  <2>1. /\ main = "test" /\ uip_buf' = <<>> /\ index' = begin
        /\ main' = IF begin = pkt_end THEN "yield"
                   ELSE IF Distance(begin, pkt_end) > BLEN THEN "advance" ELSE "copy"
        /\ UNCHANGED <<state, bufferVars, polled, damaged>>
    BY <1>9 DEF TestPacket, PacketLength, Distance, historyVars
  <2>2. RingTypes' /\ First' = First /\ Second' = Second /\ UNCHANGED <<begin, end, pkt_end, rxbuf>>
    BY <1>0, <2>1, Kept DEF bufferVars
  <2>3. MainTypes'
    <3>1. /\ Distance(begin, pkt_end)' = Distance(begin, pkt_end)
          /\ Distance(begin, pkt_end) \in 0 .. RX_BUFSIZE - 1
          /\ (Distance(begin, pkt_end) = 0 <=> begin = pkt_end)
      BY <1>4, <2>2, Distances, RingSize DEF Distance
    <3>2. (begin + 0) % RX_BUFSIZE = begin
      <4>1. begin + 0 < RX_BUFSIZE /\ begin + 0 = begin /\ 0 \in 0 .. RX_BUFSIZE
            /\ begin \in 0 .. RX_BUFSIZE - 1
        BY <1>4, RingSize
      <4> QED
        BY <4>1, RingSize, WrapOnce
    <3>3. SlipTypeOK'
      BY <1>1, <1>4, <1>5, <2>1, <2>2 DEF SlipTypeOK
    <3>4. main' = "copy" => /\ begin # pkt_end /\ Distance(begin, pkt_end) <= BLEN
                            /\ 0 < Distance(begin, pkt_end)
      BY <2>1, <3>1, RingSize
    <3> QED
      BY <1>5, <2>1, <2>2, <3>1, <3>2, <3>3, <3>4 DEF MainTypes
  <2>4. ASSUME ~merged PROVE Coming' /\ TwoPackets' /\ Handled'
    <3>1. Coming /\ TwoPackets /\ Handled
      BY <1>0, <2>4
    <3>2. Coming'
      BY <1>2, <2>1, <2>2, <3>1 DEF Coming, Prefix
    <3>3. TwoPackets'
      BY <1>2, <2>1, <2>2, <3>1 DEF TwoPackets
    <3>4. SubSeq(First, 1, 0) = <<>>
      BY <1>4, PartIsSequence, PrefixGrows DEF First
    <3>5. Handled'
      BY <1>2, <1>5, <2>1, <2>2, <3>1, <3>4 DEF Handled
    <3> QED
      BY <3>2, <3>3, <3>5
  <2> QED
    BY <2>2, <2>3, <2>4
<1>10. CASE CopyByte
  <2>1. /\ main = "copy" /\ uip_buf' = Append(uip_buf, rxbuf[index]) /\ index' = Following(index)
        /\ main' = (IF index' = pkt_end THEN "advance" ELSE "copy")
        /\ UNCHANGED <<state, bufferVars, polled, damaged>>
    BY <1>10 DEF CopyByte, historyVars
  <2>2. RingTypes' /\ First' = First /\ Second' = Second /\ UNCHANGED <<begin, end, pkt_end, rxbuf>>
    BY <1>0, <2>1, Kept DEF bufferVars
  <2>3. PICK k \in Nat, d \in 0 .. RX_BUFSIZE - 1 : k = Len(uip_buf) /\ d = Distance(begin, pkt_end)
    <3>1. Distance(begin, pkt_end) \in 0 .. RX_BUFSIZE - 1
      BY <1>4, Distances, RingSize
    <3>2. Len(uip_buf) \in Nat
      BY <1>4
    <3> QED
      BY <3>1, <3>2
  <2>4. /\ begin # pkt_end /\ d <= BLEN /\ k < d /\ index = (begin + k) % RX_BUFSIZE
    BY <1>0, <2>1, <2>3 DEF MainTypes
  <2>5. /\ begin \in 0 .. RX_BUFSIZE - 1 /\ RX_BUFSIZE \in Nat \ {0}
        /\ k \in 0 .. RX_BUFSIZE - 1 /\ k + 1 \in 0 .. RX_BUFSIZE - 1 /\ k + 1 \in 1 .. d
        /\ k \in 0 .. RX_BUFSIZE /\ (k + 1) - 1 = k
    BY <1>4, <2>3, <2>4, RingSize
  <2>6. index' = (begin + (k + 1)) % RX_BUFSIZE
    BY <2>1, <2>4, <2>5, NextSlot DEF Following
  <2>7. (begin + d) % RX_BUFSIZE = pkt_end
    BY <1>4, <2>3, Distances
  <2>8. index' = pkt_end <=> k + 1 = d
    BY <2>3, <2>5, <2>6, <2>7, SlotsDiffer
  <2>9. /\ First \in Seq(Byte) /\ Len(First) = d /\ rxbuf[index] = First[k + 1]
        /\ rxbuf[index] \in Byte
    <3>1. First \in Seq(Byte) /\ Len(First) = d
      BY <1>4, <2>3, PartIsSequence DEF First
    <3>2. First[k + 1] = rxbuf[(begin + k) % RX_BUFSIZE]
      <4>1. First = [j \in 1 .. d |-> rxbuf[(begin + (j - 1)) % RX_BUFSIZE]]
        BY <2>3 DEF First, PartOf, RingEntries
      <4>2. First[k + 1] = rxbuf[(begin + ((k + 1) - 1)) % RX_BUFSIZE]
        BY <2>5, <4>1
      <4> QED
        BY <2>5, <4>2
    <3> QED
      BY <1>4, <2>4, <3>1, <3>2
  <2>10. uip_buf' \in Seq(Byte) /\ Len(uip_buf') = k + 1
    BY <1>4, <2>1, <2>3, <2>9
  <2>11. MainTypes'
    <3>1. index' \in Index
      BY <2>5, <2>6, RingSize, WrapOnce
    <3>2. k + 1 <= BLEN
      BY <2>4, <2>5, RingSize
    <3>3. SlipTypeOK'
      BY <1>1, <1>4, <2>1, <2>2, <2>10, <3>1, <3>2 DEF SlipTypeOK
    <3>4. main' = "copy" => k + 1 < d
      BY <2>1, <2>5, <2>8
    <3>5. Distance(begin, pkt_end)' = d
      BY <2>2, <2>3 DEF Distance
    <3> QED
      BY <2>1, <2>2, <2>4, <2>6, <2>10, <3>3, <3>4, <3>5 DEF MainTypes
  <2>12. ASSUME ~merged PROVE Coming' /\ TwoPackets' /\ Handled'
    <3>1. Coming /\ TwoPackets /\ Handled
      BY <1>0, <2>12
    <3>2. Coming'
      BY <1>2, <2>1, <2>2, <3>1 DEF Coming, Prefix
    <3>3. TwoPackets'
      BY <1>2, <2>1, <2>2, <3>1 DEF TwoPackets
    <3>4. uip_buf' = SubSeq(First, 1, k + 1)
      <4>1. uip_buf = SubSeq(First, 1, k)
        BY <2>1, <2>3, <3>1 DEF Handled
      <4>2. Append(SubSeq(First, 1, (k + 1) - 1), First[k + 1]) = SubSeq(First, 1, k + 1)
        BY <2>5, <2>9, PrefixGrows
      <4> QED
        BY <2>1, <2>5, <2>9, <4>1, <4>2
    <3>5. k + 1 = d => uip_buf' = First
      BY <2>9, <3>4, PrefixGrows
    <3>6. Handled'
      BY <1>2, <2>1, <2>2, <2>4, <2>8, <2>10, <3>1, <3>4, <3>5 DEF Handled
    <3> QED
      BY <3>2, <3>3, <3>6
  <2> QED
    BY <2>2, <2>11, <2>12
<1>11. CASE RemoveData
  <2>1. /\ main = "advance" /\ main' = "check" /\ begin' = pkt_end
        /\ UNCHANGED <<state, end, pkt_end, rxbuf, polled, index, uip_buf, damaged>>
    BY <1>11 DEF RemoveData, historyVars
  <2>2. RingTypes' /\ First' = <<>> /\ Second' = Second
    BY <1>0, <2>1, FirstRemoved
  <2>3. MainTypes'
    BY <1>1, <1>4, <2>1 DEF MainTypes, SlipTypeOK
  <2>4. ASSUME ~merged PROVE Coming' /\ TwoPackets' /\ Handled'
    <3>1. Coming /\ TwoPackets /\ Handled
      BY <1>0, <2>4
    <3>2. Coming'
      BY <1>2, <2>1, <2>2, <3>1 DEF Coming, Prefix
    <3>3. TwoPackets'
      BY <1>2, <2>1, <2>2, <3>1 DEF TwoPackets
    <3>4. Handled'
      BY <1>2, <2>1, <2>2, <3>1 DEF Handled
    <3> QED
      BY <3>2, <3>3, <3>4
  <2> QED
    BY <2>2, <2>3, <2>4
<1>12. CASE SecondPacket
  <2>1. /\ main = "check" /\ main' = "input" /\ UNCHANGED <<begin, end, rxbuf, index, uip_buf, damaged>>
        /\ polled' \in BOOLEAN
    BY <1>4, <1>12 DEF SecondPacket, historyVars, PollAgain
  <2>2. CASE state = "TWOPACKETS"
    <3>1. pkt_end' = end /\ state' = "OK"
      BY <1>12, <2>2 DEF SecondPacket
    <3>2. RingTypes' /\ (begin = pkt_end => First' = Second) /\ Second' = <<>>
      BY <1>0, <2>1, <3>1, SecondCompleted
    <3>3. MainTypes'
      BY <1>1, <1>4, <2>1, <3>1 DEF MainTypes, SlipTypeOK
    <3>4. ASSUME ~merged PROVE Coming' /\ TwoPackets' /\ Handled'
      <4>1. Coming /\ TwoPackets /\ Handled
        BY <1>0, <3>4
      <4>2. Whole(Second, sent, damaged) /\ begin = pkt_end
        BY <2>1, <2>2, <4>1 DEF TwoPackets
      <4>3. Within /\ Len(sent) \notin damaged => pos = 1 /\ ~escaped
        BY <2>1, <2>2, <4>1 DEF TwoPackets
      <4>4. Within => Prefix'
        <5>1. (SubSeq(LastFrame, 1, 0) = <<>> /\ 1 - 1 = 0) \/ sent = <<>>
          BY <1>3, PrefixGrows
        <5> QED
          BY <1>2, <1>5, <2>1, <3>1, <3>2, <4>3, <5>1 DEF Prefix, Within
      <4>5. Coming' /\ TwoPackets'
        BY <1>2, <3>1, <3>2, <4>4 DEF Coming, TwoPackets
      <4>6. Handled'
        BY <1>2, <2>1, <3>2, <4>1, <4>2 DEF Handled
      <4> QED
        BY <4>5, <4>6
    <3> QED
      BY <3>2, <3>3, <3>4
  <2>3. CASE state # "TWOPACKETS"
    <3>1. pkt_end' = pkt_end /\ state' = state
      BY <1>12, <2>3 DEF SecondPacket
    <3>2. RingTypes' /\ First' = First /\ Second' = Second
      BY <1>0, <2>1, <3>1, Kept DEF bufferVars
    <3>3. MainTypes'
      BY <1>1, <1>4, <2>1, <3>1 DEF MainTypes, SlipTypeOK
    <3>4. ASSUME ~merged PROVE Coming' /\ TwoPackets' /\ Handled'
      <4>1. Coming /\ TwoPackets /\ Handled
        BY <1>0, <3>4
      <4>2. Coming'
        BY <1>2, <2>1, <3>1, <3>2, <4>1 DEF Coming, Prefix
      <4>3. TwoPackets'
        BY <2>3, <3>1 DEF TwoPackets
      <4>4. Handled'
        BY <1>2, <2>1, <3>1, <3>2, <4>1 DEF Handled
      <4> QED
        BY <4>2, <4>3, <4>4
    <3> QED
      BY <3>2, <3>3, <3>4
  <2> QED
    BY <2>2, <2>3
<1>13. CASE HandOver
  <2>1. /\ main = "input" /\ main' = "yield" /\ uip_buf' = <<>> /\ index' = 0
        /\ UNCHANGED <<state, bufferVars, polled, damaged>>
    BY <1>13 DEF HandOver, historyVars
  <2>2. RingTypes' /\ First' = First /\ Second' = Second /\ UNCHANGED <<begin, end, pkt_end, rxbuf>>
    BY <1>0, <2>1, Kept DEF bufferVars
  <2>3. MainTypes'
    BY <1>1, <1>4, <1>5, <2>1, <2>2 DEF MainTypes, SlipTypeOK
  <2>4. ASSUME ~merged PROVE Coming' /\ TwoPackets' /\ Handled'
    <3>1. Coming /\ TwoPackets /\ Handled
      BY <1>0, <2>4
    <3>2. Coming'
      BY <1>2, <2>1, <2>2, <3>1 DEF Coming, Prefix
    <3>3. TwoPackets'
      BY <1>2, <2>1, <2>2, <3>1 DEF TwoPackets
    <3>4. Handled'
      BY <1>2, <2>1, <2>2, <3>1 DEF Handled
    <3> QED
      BY <3>2, <3>3, <3>4
  <2> QED
    BY <2>2, <2>3, <2>4
<1> QED
  BY <1>6, <1>7, <1>8, <1>9, <1>10, <1>11, <1>12, <1>13 DEF SlipMain

LEMMA SlipInitial == SlipInit => SlipIInv
<1> SUFFICES ASSUME SlipInit PROVE SlipIInv
  OBVIOUS
<1>1. /\ state = "TWOPACKETS" /\ begin = 0 /\ end = 0 /\ pkt_end = 0 /\ polled = FALSE
      /\ rxbuf = [k \in Index |-> Nul] /\ main = "boot" /\ index = 0 /\ uip_buf = <<>>
      /\ sent = <<>> /\ pos = 0 /\ escaped = FALSE /\ cut = FALSE /\ damaged = {} /\ merged = FALSE
  BY DEF SlipInit
<1>2. rxbuf \in [Index -> Byte] /\ DOMAIN rxbuf = Index
  <2>1. Nul \in Byte
    BY DEF Nul, Byte, Character
  <2> QED
    BY <1>1, <2>1
<1>3. RingTypes
  <2>1. 0 \in Index /\ Distance(0, 0) = 0 /\ 0 + 0 = 0
    BY RingSize, Distances
  <2> QED
    BY <1>1, <1>2, <2>1 DEF RingTypes
<1>4. SenderTypes
  <2>1. sent \in Seq(Seq(Byte)) /\ DOMAIN sent = {}
    BY <1>1
  <2> QED
    BY <1>1, <2>1 DEF SenderTypes
<1>5. MainTypes
  <2>1. uip_buf \in Seq(Byte) /\ Len(uip_buf) = 0
    BY <1>1
  <2>2. SlipTypeOK
    <3>1. {begin, end, pkt_end, index} \subseteq Index /\ Len(uip_buf) <= BLEN
      BY <1>1, <2>1, RingSize
    <3>2. {polled, merged} \subseteq BOOLEAN
      BY <1>1
    <3> QED
      BY <1>1, <1>2, <3>1, <3>2 DEF SlipTypeOK
  <2> QED
    BY <1>1, <2>1, <2>2 DEF MainTypes
<1>6. ~Within
  BY <1>1 DEF Within
<1>7. Coming /\ TwoPackets /\ Handled
  BY <1>1, <1>6 DEF Coming, TwoPackets, Handled
<1> QED
  BY <1>3, <1>4, <1>5, <1>7 DEF SlipIInv

LEMMA SlipStutters == SlipIInv /\ UNCHANGED slipVars => SlipIInv'
<1> SUFFICES ASSUME SlipIInv, UNCHANGED slipVars PROVE SlipIInv'
  OBVIOUS
<1>1. /\ UNCHANGED <<state, bufferVars, polled, main, index, uip_buf, sent, pos, escaped, cut, damaged, merged>>
      /\ UNCHANGED lineVars
  BY DEF slipVars, lineVars, bufferVars
<1>2. SenderTypes /\ RingTypes /\ MainTypes
  BY DEF SlipIInv
<1>3. SenderTypes' /\ LastFrame' = LastFrame /\ (Within' <=> Within)
  BY <1>1, <1>2, SenderStays DEF LastFrame, Within
<1>4. RingTypes' /\ First' = First /\ Second' = Second
  BY <1>1, <1>2, Kept
<1>5. MainTypes'
  BY <1>1, <1>2, <1>4, MainTypesStay DEF bufferVars, MainTypes, SlipTypeOK
<1>6. begin' = begin /\ pkt_end' = pkt_end
  BY <1>1 DEF bufferVars
<1> HIDE DEF First, Second
<1>7. ASSUME ~merged PROVE Coming' /\ TwoPackets' /\ Handled'
  <2>1. Coming /\ TwoPackets /\ Handled
    BY <1>7 DEF SlipIInv
  <2>2. Coming'
    BY <1>1, <1>3, <1>4, <2>1 DEF Coming, Prefix
  <2>3. TwoPackets'
    BY <1>1, <1>3, <1>4, <1>6, <2>1 DEF TwoPackets
  <2>4. Handled'
    BY <1>1, <1>4, <1>6, <2>1 DEF Handled
  <2> QED
    BY <2>2, <2>3, <2>4
<1> QED
  BY <1>1, <1>3, <1>4, <1>5, <1>7 DEF SlipIInv

\* core/dev/slip.c: what is handed over is one frame, exactly unless characters of it
\* were lost or dropped, whatever the interrupt does between any two steps of the
\* handler, but where `merged' says: for every size of the buffers, every set of
\* packets, any number of frames and of characters lost, if of the two END between
\* two frames one arrives.
THEOREM PacketsStayFrames == SlipSpec => []PacketIsAFrame
<1>1. SlipIInv /\ [SlipNext]_slipVars => SlipIInv'
  BY ByteReceived, ByteLost, NextFrame, MainSteps, SlipStutters DEF SlipNext
<1>2. SlipIInv => PacketIsAFrame
  <2> SUFFICES ASSUME SlipIInv PROVE PacketIsAFrame
    OBVIOUS
  <2>1. SlipTypeOK /\ uip_buf \in Seq(Byte)
    BY DEF SlipIInv, MainTypes
  <2>2. ASSUME main = "input", uip_buf # <<>>, ~merged
        PROVE  \E n \in DOMAIN sent : /\ \A k \in DOMAIN uip_buf : Frame(uip_buf[k]) = n
                                      /\ n \notin damaged => uip_buf = sent[n]
    <3>1. Whole(uip_buf, sent, damaged)
      BY <2>2 DEF SlipIInv, Handled
    <3>2. DOMAIN uip_buf = 1 .. Len(uip_buf)
      BY <2>1
    <3> QED
      BY <3>1, <3>2 DEF Whole, Of
  <2> QED
    BY <2>1, <2>2 DEF PacketIsAFrame
<1> QED
  BY <1>1, <1>2, SlipInitial, PTL DEF SlipSpec
=============================================================================
