---------------------------- MODULE NativeProofs ----------------------------
(***************************************************************************)
(* Proofs about two services of the native kernel: the deferred events of  *)
(* sys/event.c and the alarms of drivers/timer.c.                          *)
(***************************************************************************)
EXTENDS EventQueue, TimerA, RingArithmetic, TLAPS

-----------------------------------------------------------------------------
(***************************************************************************)
(* sys/event.c, for every EVENT_QUEUE_SIZE and every set of events.        *)
(*                                                                         *)
(* The inductive invariant.  TypeOK and LoopHasEntry need only themselves; *)
(* RunningEntryStable needs LiveEntriesAreEvents for the entry that        *)
(* CallEvent loads, and all of them need `queue_len > 0 inside the loop'.  *)
(***************************************************************************)

LEMMA InitIInv == Init => IInv
BY SizeAssumption, NoEventAssumption
   DEF Init, IInv, TypeOK, LoopHasEntry, RunningEntryStable,
       LiveEntriesAreEvents, InLoop, Slot, MainPoint

\* event_post keeps the shape of the ring and the content of every live entry.
LEMMA PostKeepsRing ==
  ASSUME TypeOK, LiveEntriesAreEvents, NEW e \in Event, event_post(e)
  PROVE  /\ event_queue' \in [Slot -> Event \cup {NoEvent}]
         /\ queue_start' = queue_start
         /\ queue_len' \in 0 .. EVENT_QUEUE_SIZE
         /\ queue_len' >= queue_len
         /\ \A i \in 0 .. queue_len - 1 :
              event_queue'[(queue_start + i) % EVENT_QUEUE_SIZE]
                = event_queue[(queue_start + i) % EVENT_QUEUE_SIZE]
         /\ LiveEntriesAreEvents'
<1> DEFINE pt == (queue_start + queue_len) % EVENT_QUEUE_SIZE
           at(i) == (queue_start + i) % EVENT_QUEUE_SIZE
<1> USE SizeAssumption
<1>t. /\ event_queue \in [Slot -> Event \cup {NoEvent}]
      /\ queue_start \in 0 .. EVENT_QUEUE_SIZE - 1
      /\ queue_len \in 0 .. EVENT_QUEUE_SIZE
  BY DEF TypeOK, Slot
<1>1. CASE queue_len < EVENT_QUEUE_SIZE
  <2>1. /\ event_queue' = [event_queue EXCEPT ![pt] = e]
        /\ queue_len' = queue_len + 1
        /\ queue_start' = queue_start
    BY <1>1 DEF event_post
  <2>2. pt \in Slot
    BY <1>t, WrapOnce DEF Slot
  <2>3. \A i \in 0 .. queue_len - 1 : at(i) # pt /\ at(i) \in Slot
    <3>1. TAKE i \in 0 .. queue_len - 1
    <3>2. i \in 0 .. EVENT_QUEUE_SIZE - 1 /\ i # queue_len
          /\ queue_len \in 0 .. EVENT_QUEUE_SIZE - 1
          /\ i \in 0 .. EVENT_QUEUE_SIZE
      BY <1>t, <1>1
    <3>3. at(i) # pt
      BY <1>t, <3>2, SlotsDiffer
    <3>4. at(i) \in Slot
      BY <1>t, <3>2, WrapOnce DEF Slot
    <3> QED
      BY <3>3, <3>4
  <2>4. \A i \in 0 .. queue_len - 1 : event_queue'[at(i)] = event_queue[at(i)]
    BY <1>t, <2>1, <2>3
  <2>5. event_queue'[pt] = e
    BY <1>t, <2>1, <2>2
  <2>6. \A i \in 0 .. queue_len' - 1 : event_queue'[at(i)] \in Event
    <3>1. TAKE i \in 0 .. queue_len' - 1
    <3>2. CASE i = queue_len
      BY <2>5, <3>2
    <3>3. CASE i # queue_len
      <4>1. i \in 0 .. queue_len - 1
        BY <1>t, <2>1, <3>3
      <4> QED
        BY <4>1, <2>4 DEF LiveEntriesAreEvents
    <3> QED
      BY <3>2, <3>3
  <2>7. LiveEntriesAreEvents'
    BY <2>1, <2>6 DEF LiveEntriesAreEvents
  <2>8. event_queue' \in [Slot -> Event \cup {NoEvent}]
    BY <1>t, <2>1
  <2>9. queue_len' \in 0 .. EVENT_QUEUE_SIZE /\ queue_len' >= queue_len
    BY <1>t, <1>1, <2>1
  <2> QED
    BY <2>1, <2>4, <2>7, <2>8, <2>9
<1>2. CASE ~(queue_len < EVENT_QUEUE_SIZE)
  <2>1. UNCHANGED <<event_queue, queue_len, queue_start>>
    BY <1>2 DEF event_post
  <2> QED
    BY <1>t, <2>1 DEF LiveEntriesAreEvents
<1> QED
  BY <1>1, <1>2

\* A post, by whoever, preserves the invariant when main does not move, or only
\* wakes up.
LEMMA PostPreserves ==
  ASSUME IInv, NEW e \in Event, event_post(e), UNCHANGED current,
         main' = main \/ (main = "asleep" /\ main' = "test")
  PROVE  IInv'
<1> USE SizeAssumption DEF IInv
<1>1. /\ event_queue' \in [Slot -> Event \cup {NoEvent}]
      /\ queue_start' = queue_start
      /\ queue_len' \in 0 .. EVENT_QUEUE_SIZE
      /\ queue_len' >= queue_len
      /\ \A i \in 0 .. queue_len - 1 :
           event_queue'[(queue_start + i) % EVENT_QUEUE_SIZE]
             = event_queue[(queue_start + i) % EVENT_QUEUE_SIZE]
      /\ LiveEntriesAreEvents'
  BY PostKeepsRing
<1>2. TypeOK'
  BY <1>1 DEF TypeOK, MainPoint
<1>3. LoopHasEntry'
  BY <1>1 DEF LoopHasEntry, InLoop, TypeOK
<1>4. RunningEntryStable'
  <2>0. /\ main' = "handler" <=> main = "handler"
        /\ main = "handler" <=> current # NoEvent
    BY DEF RunningEntryStable
  <2>1. SUFFICES ASSUME main = "handler"
                 PROVE  /\ queue_len' > 0
                        /\ event_queue'[queue_start'] = current'
    BY <2>0 DEF RunningEntryStable
  <2>2. queue_len > 0 /\ event_queue[queue_start] = current
    BY <2>1 DEF RunningEntryStable
  <2>3. queue_start \in 0 .. EVENT_QUEUE_SIZE - 1 /\ queue_len \in Nat
    BY DEF TypeOK, Slot
  <2>4. (queue_start + 0) % EVENT_QUEUE_SIZE = queue_start
    BY <2>3, WrapOnce
  <2>5. event_queue'[queue_start] = event_queue[queue_start]
    <3>1. 0 \in 0 .. queue_len - 1
      BY <2>2, <2>3
    <3> QED
      BY <1>1, <2>4, <3>1
  <2> QED
    BY <1>1, <2>2, <2>3, <2>5
<1> QED
  BY <1>1, <1>2, <1>3, <1>4

\* queue_remove, called inside the loop, leaves the younger entries in place.
LEMMA RemovePreserves ==
  ASSUME IInv, RemoveEvent
  PROVE  IInv'
<1> USE SizeAssumption DEF IInv
<1>t. /\ event_queue \in [Slot -> Event \cup {NoEvent}]
      /\ queue_start \in 0 .. EVENT_QUEUE_SIZE - 1
      /\ queue_len \in 0 .. EVENT_QUEUE_SIZE
      /\ queue_len > 0
  BY DEF TypeOK, Slot, LoopHasEntry, InLoop, RemoveEvent
<1>1. /\ queue_len' = queue_len - 1
      /\ queue_start' = (queue_start + 1) % EVENT_QUEUE_SIZE
      /\ event_queue' = event_queue
      /\ current' = current
      /\ main' = "test"
  BY DEF RemoveEvent, queue_remove
<1>2. queue_start' \in Slot
  BY <1>t, <1>1, WrapOnce, 1 \in 0 .. EVENT_QUEUE_SIZE DEF Slot
<1>3. TypeOK'
  BY <1>t, <1>1, <1>2 DEF TypeOK, MainPoint
<1>4. current' = NoEvent
  BY <1>1 DEF RunningEntryStable, RemoveEvent
<1>5. LiveEntriesAreEvents'
  <2>1. SUFFICES ASSUME NEW i \in 0 .. queue_len' - 1
                 PROVE  event_queue'[(queue_start' + i) % EVENT_QUEUE_SIZE]
                          \in Event
    BY DEF LiveEntriesAreEvents
  <2>2. i \in 0 .. EVENT_QUEUE_SIZE - 1 /\ i + 1 \in 0 .. queue_len - 1
    BY <1>t, <1>1
  <2>3. (queue_start' + i) % EVENT_QUEUE_SIZE
          = (queue_start + (i + 1)) % EVENT_QUEUE_SIZE
    BY <1>t, <1>1, <2>2, StartAdvances
  <2> QED
    BY <1>1, <2>2, <2>3 DEF LiveEntriesAreEvents
<1> QED
  BY <1>1, <1>3, <1>4, <1>5 DEF LoopHasEntry, InLoop, RunningEntryStable

LEMMA NextIInv == IInv /\ [Next]_vars => IInv'
<1> SUFFICES ASSUME IInv, [Next]_vars PROVE IInv'
  OBVIOUS
<1> USE SizeAssumption, NoEventAssumption
<1> USE DEF IInv, InLoop, MainPoint
<1>1. CASE EventInit
  BY <1>1 DEF EventInit, TypeOK, LoopHasEntry, RunningEntryStable,
              LiveEntriesAreEvents, Slot
<1>2. CASE TestQueue
  BY <1>2 DEF TestQueue, TypeOK, LoopHasEntry, RunningEntryStable,
              LiveEntriesAreEvents
<1>3. CASE CallEvent
  <2>1. queue_start \in 0 .. EVENT_QUEUE_SIZE - 1 /\ queue_len \in Nat
        /\ queue_len > 0
    BY <1>3 DEF TypeOK, Slot, CallEvent, LoopHasEntry
  <2>2. (queue_start + 0) % EVENT_QUEUE_SIZE = queue_start
    BY <2>1, WrapOnce
  <2>3. event_queue[queue_start] \in Event
    <3>1. 0 \in 0 .. queue_len - 1
      BY <2>1
    <3> QED
      BY <2>2, <3>1 DEF LiveEntriesAreEvents
  <2> QED
    BY <1>3, <2>1, <2>3 DEF CallEvent, TypeOK, LoopHasEntry,
         RunningEntryStable, LiveEntriesAreEvents
<1>4. CASE HandlerReturns
  BY <1>4 DEF HandlerReturns, TypeOK, LoopHasEntry, RunningEntryStable,
              LiveEntriesAreEvents
<1>5. CASE RemoveEvent
  BY <1>5, RemovePreserves
<1>6. CASE LPM0
  BY <1>6 DEF LPM0, TypeOK, LoopHasEntry, RunningEntryStable,
              LiveEntriesAreEvents
<1>7. CASE WakingInterrupt
  BY <1>7 DEF WakingInterrupt, LPM4_EXIT, TypeOK, LoopHasEntry,
              RunningEntryStable, LiveEntriesAreEvents
<1>8. ASSUME NEW e \in Event, HandlerPosts(e)
      PROVE  IInv'
  BY <1>8, PostPreserves DEF HandlerPosts
<1>9. ASSUME NEW e \in Event, PostingInterrupt(e)
      PROVE  IInv'
  BY <1>9, PostPreserves DEF PostingInterrupt, LPM4_EXIT
<1>10. CASE UNCHANGED vars
  BY <1>10 DEF vars, TypeOK, LoopHasEntry, RunningEntryStable,
               LiveEntriesAreEvents
<1> QED
  BY <1>1, <1>2, <1>3, <1>4, <1>5, <1>6, <1>7, <1>8, <1>9, <1>10
  DEF Next, MainStep

\* For every queue size and every interleaving of interrupts with the loop of
\* event_process: the entry main executes keeps its slot until the call has
\* returned, the loop never reads a slot nobody filled, queue_remove never runs
\* on an empty queue, and the two counters stay in range.
THEOREM InvariantHolds == Spec => []IInv
<1> QED
  BY InitIInv, NextIInv, PTL DEF Spec

-----------------------------------------------------------------------------
(***************************************************************************)
(* The refinement of the event service.  Execute is the call, Retire is    *)
(* queue_remove; the test of queue_len and all that concerns sleeping      *)
(* stutters.                                                               *)
(***************************************************************************)

\* What Waiting is made of.
WaitingEntries ==
  /\ Waiting \in Seq(Event)
  /\ Len(Waiting) = queue_len
  /\ \A i \in 1 .. queue_len :
       Waiting[i] = event_queue[(queue_start + (i - 1)) % EVENT_QUEUE_SIZE]

LEMMA WaitingIsSequence == IInv => WaitingEntries
<1> SUFFICES ASSUME IInv PROVE WaitingEntries
  OBVIOUS
<1>1. queue_len \in Nat
  BY SizeAssumption DEF IInv, TypeOK
<1>2. ASSUME NEW i \in 1 .. queue_len
      PROVE  event_queue[(queue_start + (i - 1)) % EVENT_QUEUE_SIZE] \in Event
  <2>1. i - 1 \in 0 .. queue_len - 1
    BY <1>1
  <2> QED
    BY <2>1 DEF IInv, LiveEntriesAreEvents
<1>3. Waiting \in [1 .. queue_len -> Event]
  BY <1>2 DEF Waiting
<1> QED
  BY <1>1, <1>3 DEF Waiting, WaitingEntries

\* An accepted post appends to Waiting, a dropped one leaves it alone.
LEMMA PostAppends ==
  ASSUME IInv, IInv', NEW e \in Event, event_post(e)
  PROVE  \/ Len(Waiting) < EVENT_QUEUE_SIZE /\ Waiting' = Append(Waiting, e)
         \/ Waiting' = Waiting
<1> USE SizeAssumption
<1>1. WaitingEntries /\ WaitingEntries'
  BY WaitingIsSequence, PTL
<1>2. /\ queue_start \in 0 .. EVENT_QUEUE_SIZE - 1
      /\ queue_len \in 0 .. EVENT_QUEUE_SIZE
      /\ event_queue \in [Slot -> Event \cup {NoEvent}]
  BY DEF IInv, TypeOK, Slot
<1>3. CASE queue_len < EVENT_QUEUE_SIZE
  <2>1. /\ queue_start' = queue_start
        /\ queue_len' = queue_len + 1
        /\ event_queue' =
             [event_queue EXCEPT
                ![(queue_start + queue_len) % EVENT_QUEUE_SIZE] = e]
    BY <1>3 DEF event_post
  <2>2. \A i \in 0 .. queue_len - 1 :
          event_queue'[(queue_start + i) % EVENT_QUEUE_SIZE]
            = event_queue[(queue_start + i) % EVENT_QUEUE_SIZE]
    BY PostKeepsRing DEF IInv
  <2>3. \A i \in 1 .. queue_len : Waiting'[i] = Waiting[i]
    <3>1. TAKE i \in 1 .. queue_len
    <3>2. i - 1 \in 0 .. queue_len - 1 /\ i \in 1 .. queue_len'
      BY <1>2, <2>1
    <3> QED
      BY <1>1, <2>1, <2>2, <3>2 DEF WaitingEntries
  <2>4. Waiting'[queue_len + 1] = e
    <3>1. (queue_start + queue_len) % EVENT_QUEUE_SIZE \in Slot
      BY <1>2, WrapOnce DEF Slot
    <3>2. event_queue'[(queue_start + queue_len) % EVENT_QUEUE_SIZE] = e
      BY <1>2, <2>1, <3>1
    <3>3. queue_len + 1 \in 1 .. queue_len' /\ (queue_len + 1) - 1 = queue_len
      BY <1>2, <2>1
    <3> QED
      BY <1>1, <2>1, <3>2, <3>3 DEF WaitingEntries
  <2>5. Waiting' = Append(Waiting, e)
    <3>1. /\ Waiting \in Seq(Event) /\ Len(Waiting) = queue_len
          /\ Waiting' \in Seq(Event) /\ Len(Waiting') = queue_len + 1
          /\ queue_len \in Nat
      BY <1>1, <1>2, <2>1 DEF WaitingEntries
    <3> QED
      BY <2>3, <2>4, <3>1
  <2> QED
    BY <1>1, <1>3, <2>5 DEF WaitingEntries
<1>4. CASE ~(queue_len < EVENT_QUEUE_SIZE)
  BY <1>4 DEF event_post, Waiting
<1> QED
  BY <1>3, <1>4

\* event_process calls the oldest entry.
LEMMA CallExecutes ==
  ASSUME IInv, CallEvent
  PROVE  Service!Execute
<1> USE SizeAssumption
<1>1. WaitingEntries
  BY WaitingIsSequence
<1>2. /\ queue_start \in 0 .. EVENT_QUEUE_SIZE - 1
      /\ queue_len \in Nat /\ queue_len > 0
  BY DEF IInv, TypeOK, Slot, CallEvent, LoopHasEntry, InLoop
<1>3. Waiting # <<>> /\ Head(Waiting) = event_queue[queue_start]
  <2>1. (queue_start + 0) % EVENT_QUEUE_SIZE = queue_start
    BY <1>2, WrapOnce
  <2>2. 1 \in 1 .. queue_len /\ 1 - 1 = 0
    BY <1>2
  <2> QED
    BY <1>1, <1>2, <2>1, <2>2 DEF WaitingEntries
<1>4. current = NoEvent
  BY DEF IInv, RunningEntryStable, CallEvent
<1> QED
  BY <1>3, <1>4 DEF CallEvent, Service!Execute, Waiting

\* queue_remove takes the oldest entry, which has run.
LEMMA RemoveRetires ==
  ASSUME IInv, IInv', RemoveEvent
  PROVE  Service!Retire
<1> USE SizeAssumption
<1>1. WaitingEntries /\ WaitingEntries'
  BY WaitingIsSequence, PTL
<1>2. /\ queue_start \in 0 .. EVENT_QUEUE_SIZE - 1
      /\ queue_len \in 1 .. EVENT_QUEUE_SIZE
  BY DEF IInv, TypeOK, Slot, RemoveEvent, LoopHasEntry, InLoop
<1>3. /\ queue_len' = queue_len - 1
      /\ queue_start' = (queue_start + 1) % EVENT_QUEUE_SIZE
      /\ event_queue' = event_queue
      /\ current' = current
      /\ main = "remove" /\ main' = "test"
  BY DEF RemoveEvent, queue_remove
<1>4. \A i \in 1 .. queue_len - 1 : Waiting'[i] = Waiting[i + 1]
  <2>1. TAKE i \in 1 .. queue_len - 1
  <2>2. /\ i - 1 \in 0 .. EVENT_QUEUE_SIZE - 1
        /\ i \in 1 .. queue_len' /\ i + 1 \in 1 .. queue_len
        /\ (i - 1) + 1 = i /\ (i + 1) - 1 = i
    BY <1>2, <1>3
  <2>3. (queue_start' + (i - 1)) % EVENT_QUEUE_SIZE
          = (queue_start + i) % EVENT_QUEUE_SIZE
    BY <1>2, <1>3, <2>2, StartAdvances
  <2>4. Waiting'[i] = event_queue[(queue_start' + (i - 1)) % EVENT_QUEUE_SIZE]
    BY <1>1, <1>3, <2>2 DEF WaitingEntries
  <2>5. Waiting[i + 1] = event_queue[(queue_start + i) % EVENT_QUEUE_SIZE]
    BY <1>1, <2>2 DEF WaitingEntries
  <2> QED
    BY <2>3, <2>4, <2>5
<1>5. Waiting' = Tail(Waiting)
  <2>1. /\ Tail(Waiting) \in Seq(Event)
        /\ Len(Tail(Waiting)) = queue_len - 1
        /\ \A i \in 1 .. queue_len - 1 : Tail(Waiting)[i] = Waiting[i + 1]
    BY <1>1, <1>2 DEF WaitingEntries
  <2> QED
    BY <1>1, <1>2, <1>3, <1>4, <2>1 DEF WaitingEntries
<1> QED
  BY <1>3, <1>5 DEF Service!Retire

LEMMA InitImplements == Init => Service!Init
<1> SUFFICES ASSUME Init PROVE Service!Init
  OBVIOUS
<1>1. WaitingEntries
  BY InitIInv, WaitingIsSequence
<1>2. Waiting = <<>>
  BY <1>1 DEF Init, WaitingEntries
<1> QED
  BY <1>2 DEF Init, Service!Init

LEMMA NextImplements ==
  IInv /\ IInv' /\ [Next]_vars => [Service!Next]_(Service!vars)
<1> SUFFICES ASSUME IInv, IInv', [Next]_vars
             PROVE  [Service!Next]_(Service!vars)
  OBVIOUS
<1>1. CASE EventInit
  <2>1. WaitingEntries'
    BY WaitingIsSequence, PTL
  <2>2. Waiting' = <<>>
    BY <1>1, <2>1 DEF EventInit, WaitingEntries
  <2> QED
    BY <1>1, <2>2 DEF EventInit, Service!Next, Service!Start
<1>2. CASE TestQueue \/ LPM0
  BY <1>2 DEF TestQueue, LPM0, Waiting, Service!vars
<1>3. CASE CallEvent
  BY <1>3, CallExecutes DEF Service!Next
<1>4. CASE HandlerReturns
  <2>1. current # NoEvent
    BY <1>4 DEF IInv, RunningEntryStable, HandlerReturns
  <2> QED
    BY <1>4, <2>1 DEF HandlerReturns, Waiting, Service!Next, Service!Return
<1>5. CASE RemoveEvent
  BY <1>5, RemoveRetires DEF Service!Next
<1>6. CASE WakingInterrupt
  BY <1>6 DEF WakingInterrupt, LPM4_EXIT, Waiting, Service!vars
<1>7. ASSUME NEW e \in Event, HandlerPosts(e)
      PROVE  [Service!Next]_(Service!vars)
  BY <1>7, PostAppends
  DEF HandlerPosts, Service!Next, Service!Post, Service!vars
<1>8. ASSUME NEW e \in Event, PostingInterrupt(e)
      PROVE  [Service!Next]_(Service!vars)
  BY <1>8, PostAppends
  DEF PostingInterrupt, LPM4_EXIT, Service!Next, Service!Post, Service!vars
<1>9. CASE UNCHANGED vars
  BY <1>9 DEF vars, Waiting, Service!vars
<1> QED
  BY <1>1, <1>2, <1>3, <1>4, <1>5, <1>6, <1>7, <1>8, <1>9 DEF Next, MainStep

\* For every queue size and every interleaving of interrupts with the loop: what
\* event_post accepts is executed once, one at a time and in the order of the
\* posts, and an entry gives its place back only after it has run.
THEOREM QueueImplementsService == Spec => ImplementsService
<1>1. Init => Service!Init
  BY InitImplements
<1>2. IInv /\ IInv' /\ [Next]_vars => [Service!Next]_(Service!vars)
  BY NextImplements
<1> QED
  BY <1>1, <1>2, InvariantHolds, PTL
  DEF Spec, ImplementsService, Service!Spec

-----------------------------------------------------------------------------
(***************************************************************************)
(* A step other than queue_remove leaves what waits in front.              *)
(***************************************************************************)
LEMMA GrownIsKept ==
  ASSUME IInv, IInv',
         Waiting' = Waiting \/ \E e \in Event : Waiting' = Append(Waiting, e)
  PROVE  queue_len' >= queue_len /\ SubSeq(Waiting', 1, queue_len) = Waiting
<1>1. WaitingEntries /\ WaitingEntries'
  BY WaitingIsSequence, PTL
<1>2. queue_len \in Nat /\ queue_len' \in Nat
  BY SizeAssumption DEF IInv, TypeOK
<1>3. CASE Waiting' = Waiting
  <2>1. SubSeq(Waiting, 1, Len(Waiting)) = Waiting
    BY <1>1 DEF WaitingEntries
  <2> QED
    BY <1>1, <1>2, <1>3, <2>1 DEF WaitingEntries
<1>4. ASSUME NEW e \in Event, Waiting' = Append(Waiting, e)
      PROVE  queue_len' >= queue_len /\ SubSeq(Waiting', 1, queue_len) = Waiting
  <2>1. SubSeq(Append(Waiting, e), 1, Len(Waiting)) = Waiting
    BY <1>1 DEF WaitingEntries
  <2>2. queue_len' = queue_len + 1
    BY <1>1, <1>4 DEF WaitingEntries
  <2> QED
    BY <1>1, <1>2, <1>4, <2>1, <2>2 DEF WaitingEntries
<1> QED
  BY <1>3, <1>4

\* For every queue size: neither a post, from whichever context and however full
\* the queue is, nor a step of the loop changes or reorders an entry that waits,
\* and only queue_remove, after the call, takes one away.
THEOREM EntriesAreKept == Spec => EntriesKept
<1>1. ASSUME IInv, IInv', [Next]_vars, main # "boot"
      PROVE  \/ Service!Retire
             \/ /\ queue_len' >= queue_len
                /\ SubSeq(Waiting', 1, queue_len) = Waiting
  <2>1. CASE RemoveEvent
    BY <1>1, <2>1, RemoveRetires
  <2>2. CASE Waiting' = Waiting \/ \E e \in Event : Waiting' = Append(Waiting, e)
    BY <1>1, <2>2, GrownIsKept
  <2>3. CASE TestQueue \/ CallEvent \/ HandlerReturns \/ LPM0 \/ WakingInterrupt
    BY <2>2, <2>3
    DEF TestQueue, CallEvent, HandlerReturns, LPM0, WakingInterrupt, Waiting
  <2>4. ASSUME NEW e \in Event, HandlerPosts(e) \/ PostingInterrupt(e)
        PROVE  Waiting' = Waiting \/ Waiting' = Append(Waiting, e)
    BY <1>1, <2>4, PostAppends DEF HandlerPosts, PostingInterrupt
  <2>5. CASE UNCHANGED vars
    BY <2>2, <2>5 DEF vars, Waiting
  <2> QED
    BY <1>1, <2>1, <2>2, <2>3, <2>4, <2>5 DEF Next, MainStep, EventInit
<1> QED
  BY <1>1, InvariantHolds, PTL DEF Spec, EntriesKept

-----------------------------------------------------------------------------
(***************************************************************************)
(* The alarms of drivers/timer.c, for every number of slots,               *)
(* every counter and every set of delays, as long as no alarm is due       *)
(* before the call that sets it is over.                                   *)
(*                                                                         *)
(* The invariant says, for each slot, what the stores main has done so far *)
(* have made of it: a slot at rest counts what is owed and is as far ahead *)
(* of TAR as asked; a slot being set cannot raise an interrupt before its  *)
(* fields are complete; a slot being cancelled may, until its interrupt is *)
(* disabled.                                                               *)
(***************************************************************************)

On == TRUE
Off == FALSE

\* The last k stores of a call.
Left(k, at, on, count, p, fn) ==
  [j \in 1 .. k |-> Stores(at, on, on, count, p, fn)[6 - k + j]]

\* A count of n in a slot stands for that many calls.
Counted(n, left) ==
  \/ left = Forever /\ n = TIMER_COUNT_INFINITE
  \/ left \in 1 .. COUNT_RANGE - 1 /\ n = left - 1

\* Slot a calls what o says is owed, as often.
Asked(a, o) ==
  /\ a.function = o.function
  /\ Counted(a.period_count, o.left)
  /\ a.period_count # 0 => a.period \in Wait

\* With the counter at t, the compare value is as far ahead as o says, and the
\* flag is set once it has been reached.
Ahead(t, a, o) ==
  /\ o.until \in -MaxLag .. TAR_RANGE - 1
  /\ a.TACCR = (t + o.until) % TAR_RANGE
  /\ a.CCIFG <=> o.until <= 0

\* Of a slot main is not writing.
Rests(t, a, o) ==
  /\ a.active <=> o.left # 0
  /\ a.CCIE <=> o.left # 0
  /\ o.left # 0 => Asked(a, o) /\ Ahead(t, a, o)

\* Of a slot that is being set, with k stores to do, d ticks after TAR was read.
BeingSet(k, at, w, count, p, fn, t, a, o, d) ==
  /\ o.function = fn /\ Counted(count, o.left) /\ (count # 0 => p \in Wait)
  /\ o.until = w - d
  /\ at = (t + o.until) % TAR_RANGE
  /\ k <= 5 => a.TACCR = at
  /\ k >= 5 => ~a.CCIE
  /\ k <= 4 => a.CCIE /\ ~a.CCIFG
  /\ k <= 3 => a.active
  /\ k <= 2 => a.period_count = count
  /\ k <= 1 => a.period = p

\* Of a slot that is being cancelled, with k stores to do.
BeingCancelled(k, t, a, o) ==
  /\ k = 6 => Rests(t, a, o)
  /\ k = 5 => (a.CCIE <=> o.left # 0) /\ (o.left # 0 => Asked(a, o))
  /\ k <= 4 => ~a.CCIE /\ o.left = 0
  /\ k <= 3 => ~a.active

Sets ==
  \E k \in 1 .. 6, at \in 0 .. TAR_RANGE - 1, w \in Wait,
     count \in 0 .. COUNT_RANGE - 1, p \in Wait \cup {0}, fn \in Callback :
       /\ call.stores = Left(k, at, On, count, p, fn)
       /\ BeingSet(k, at, w, count, p, fn, TAR, alarm[call.id], owed[call.id], delay)

Cancels ==
  \E k \in 1 .. 6 :
    /\ call.stores = Left(k, 0, Off, 0, 0, NULL)
    /\ BeingCancelled(k, TAR, alarm[call.id], owed[call.id])

Owing == [left : {Forever} \cup 0 .. COUNT_RANGE, until : Int,
          function : Callback \cup {NULL}]

Typed ==
  /\ TAR \in 0 .. TAR_RANGE - 1
  /\ alarm \in [AlarmId -> Alarm]
  /\ call = [id |-> call.id, stores |-> call.stores] /\ call.id \in AlarmId
  /\ delay \in 0 .. MaxDelay
  /\ owed \in [AlarmId -> Owing]

Resting == \A i \in AlarmId : ~IsSet(i) => Rests(TAR, alarm[i], owed[i])
Writing == Calling => Sets \/ Cancels

AlarmIInv == Typed /\ Resting /\ Writing

-----------------------------------------------------------------------------
(***************************************************************************)
(* The constants, and distances on the counter.                            *)
(***************************************************************************)
LEMMA Constants ==
  /\ TAR_RANGE \in Nat \ {0} /\ COUNT_RANGE \in Nat \ {0, 1}
  /\ MaxDelay \in Nat /\ MaxLag \in 0 .. TAR_RANGE - 1
  /\ 0 \in AlarmId /\ AlarmId \subseteq Nat
  /\ \A w \in Wait : w \in Nat /\ MaxDelay < w /\ MaxLag < w /\ w + MaxLag < TAR_RANGE
BY RangeAssumption, WaitAssumption DEF AlarmId

\* A compare value ahead of the counter or passed by it, by less than a turn.
LEMMA SignedWrap ==
  ASSUME NEW n \in Nat \ {0}, NEW a \in 0 .. n - 1, NEW u \in -(n - 1) .. n - 1
  PROVE  /\ (a + u) % n = IF a + u < 0 THEN a + u + n
                          ELSE IF a + u < n THEN a + u ELSE a + u - n
         /\ (a + u) % n \in 0 .. n - 1
BY SMT

\* A tick brings every compare value one nearer.
LEMMA TickNears ==
  ASSUME NEW n \in Nat \ {0}, NEW a \in 0 .. n - 1,
         NEW u \in -(n - 1) .. n - 1, u - 1 \in -(n - 1) .. n - 1
  PROVE  /\ (a + 1) % n \in 0 .. n - 1
         /\ (((a + 1) % n) + (u - 1)) % n = (a + u) % n
         /\ u > 0 => (((a + u) % n = (a + 1) % n) <=> u - 1 = 0)
<1> DEFINE b == (a + 1) % n
<1>1. /\ b = IF a + 1 < n THEN a + 1 ELSE a + 1 - n
      /\ b \in 0 .. n - 1
  BY WrapOnce, 1 \in 0 .. n
<1> HIDE DEF b
<1>2. /\ (b + (u - 1)) % n = IF b + (u - 1) < 0 THEN b + (u - 1) + n
                             ELSE IF b + (u - 1) < n THEN b + (u - 1) ELSE b + (u - 1) - n
  BY <1>1, SignedWrap
<1>3. (a + u) % n = IF a + u < 0 THEN a + u + n
                    ELSE IF a + u < n THEN a + u ELSE a + u - n
  BY SignedWrap
<1>4. (b + (u - 1)) % n = (a + u) % n
  BY <1>1, <1>2, <1>3
<1>5. u > 0 => (((a + u) % n = b) <=> u - 1 = 0)
  BY <1>1, <1>3
<1> QED
  BY <1>1, <1>4, <1>5 DEF b

\* A period added to a compare value is added to its distance.
LEMMA PeriodAdds ==
  ASSUME NEW n \in Nat \ {0}, NEW a \in 0 .. n - 1,
         NEW u \in -(n - 1) .. 0, NEW w \in 1 .. n - 1
  PROVE  /\ (((a + u) % n) + w) % n = (a + (u + w)) % n
         /\ (((a + u) % n) + w) % n \in 0 .. n - 1
<1> DEFINE b == (a + u) % n
<1>1. /\ b = IF a + u < 0 THEN a + u + n
             ELSE IF a + u < n THEN a + u ELSE a + u - n
      /\ b \in 0 .. n - 1
  BY SignedWrap, u \in -(n - 1) .. n - 1
<1> HIDE DEF b
<1>2. /\ (b + w) % n = IF b + w < n THEN b + w ELSE b + w - n
      /\ (b + w) % n \in 0 .. n - 1
  BY <1>1, WrapOnce, w \in 0 .. n
<1>3. (a + (u + w)) % n = IF a + (u + w) < 0 THEN a + (u + w) + n
                    ELSE IF a + (u + w) < n THEN a + (u + w) ELSE a + (u + w) - n
  BY SignedWrap, u + w \in -(n - 1) .. n - 1
<1>4. (b + w) % n = (a + (u + w)) % n
  BY <1>1, <1>2, <1>3
<1> QED
  BY <1>2, <1>4 DEF b

-----------------------------------------------------------------------------
(***************************************************************************)
(* The stores of a call.                                                   *)
(***************************************************************************)
\* The last k stores go on with the k - 1 last ones.
Rest(s) == Tail(s)

LEMMA LeftTail ==
  ASSUME NEW k \in 1 .. 6, NEW at, NEW on, NEW count, NEW p, NEW fn
  PROVE  Rest(Left(k, at, on, count, p, fn)) = Left(k - 1, at, on, count, p, fn)
<1> DEFINE S == Stores(at, on, on, count, p, fn)
           l == [j \in 1 .. k |-> S[6 - k + j]]
<1> HIDE DEF S
<1>1. Len(l) = k /\ l # <<>>
  OBVIOUS
<1>2. Tail(l) = [j \in 1 .. Len(l) - 1 |-> l[j + 1]]
  BY <1>1
<1>3. ASSUME NEW j \in 1 .. k - 1  PROVE l[j + 1] = S[6 - (k - 1) + j]
  <2>1. j + 1 \in 1 .. k /\ 6 - k + (j + 1) = 6 - (k - 1) + j
    OBVIOUS
  <2> QED BY <2>1
<1>4. Tail(l) = [j \in 1 .. k - 1 |-> S[6 - (k - 1) + j]]
  BY <1>1, <1>2, <1>3
<1> QED BY <1>4 DEF Left, Rest, S

\* A call has at most six stores to do.
FewStores(s) == Len(s) <= 6

LEMMA LeftIsShort ==
  ASSUME NEW k \in 1 .. 6, NEW at, NEW on, NEW count, NEW p, NEW fn
  PROVE  FewStores(Left(k, at, on, count, p, fn))
BY DEF Left, FewStores

\* They begin with the one that is due.
LEMMA LeftStep ==
  ASSUME NEW k \in 1 .. 6, NEW at, NEW on, NEW count, NEW p, NEW fn
  PROVE  /\ Left(k, at, on, count, p, fn) # <<>>
         /\ Head(Left(k, at, on, count, p, fn)) = Stores(at, on, on, count, p, fn)[7 - k]
<1> DEFINE S == Stores(at, on, on, count, p, fn)
           l == [j \in 1 .. k |-> S[6 - k + j]]
<1> HIDE DEF S
<1>1. Len(l) = k /\ l # <<>>
  OBVIOUS
<1>2. Head(l) = l[1] /\ l[1] = S[7 - k]
  BY <1>1
<1> QED BY <1>1, <1>2 DEF Left, S

\* None is left after the last one, and all of them before the first.
LEMMA LeftEnds ==
  ASSUME NEW at, NEW on, NEW count, NEW p, NEW fn
  PROVE  /\ Left(0, at, on, count, p, fn) = <<>>
         /\ Left(6, at, on, count, p, fn) = Stores(at, on, on, count, p, fn)
<1> DEFINE S == Stores(at, on, on, count, p, fn)
<1>1. Left(0, at, on, count, p, fn) = <<>>
  BY DEF Left
<1>2. S = [j \in 1 .. 6 |-> S[j]]
  BY DEF Stores
<1>3. [j \in 1 .. 6 |-> S[6 - 6 + j]] = [j \in 1 .. 6 |-> S[j]]
  OBVIOUS
<1> QED BY <1>1, <1>2, <1>3 DEF Left

\* What a slot is after each of the stores.
StoresDo(a, at, on, count, p, fn) ==
  LET S == Stores(at, on, on, count, p, fn)
  IN  /\ Written(a, S[1]) = [a EXCEPT !.TACCR = at]
      /\ Written(a, S[2]) = [a EXCEPT !.CCIE = on, !.CCIFG = FALSE]
      /\ Written(a, S[3]) = [a EXCEPT !.active = on]
      /\ Written(a, S[4]) = [a EXCEPT !.period_count = count]
      /\ Written(a, S[5]) = [a EXCEPT !.period = p]
      /\ Written(a, S[6]) = [a EXCEPT !.function = fn]

LEMMA EachStore ==
  ASSUME NEW a, NEW at, NEW on, NEW count, NEW p, NEW fn
  PROVE  StoresDo(a, at, on, count, p, fn)
<1> DEFINE S == Stores(at, on, on, count, p, fn)
<1>1. /\ S[1] = <<"TACCR", at>> /\ S[2] = <<"TACCTL", on>> /\ S[3] = <<"active", on>>
      /\ S[4] = <<"period_count", count>> /\ S[5] = <<"period", p>>
      /\ S[6] = <<"function", fn>>
  BY DEF Stores
<1> HIDE DEF S
<1>2. /\ <<"TACCR", at>>[1] = "TACCR" /\ <<"TACCR", at>>[2] = at
      /\ <<"TACCTL", on>>[1] = "TACCTL" /\ <<"TACCTL", on>>[2] = on
      /\ <<"active", on>>[1] = "active" /\ <<"active", on>>[2] = on
      /\ <<"period_count", count>>[1] = "period_count" /\ <<"period_count", count>>[2] = count
      /\ <<"period", p>>[1] = "period" /\ <<"period", p>>[2] = p
      /\ <<"function", fn>>[1] = "function" /\ <<"function", fn>>[2] = fn
  OBVIOUS
<1>3. Written(a, S[1]) = [a EXCEPT !.TACCR = at]
  BY <1>1, <1>2 DEF Written
<1>4. Written(a, S[2]) = [a EXCEPT !.CCIE = on, !.CCIFG = FALSE]
  BY <1>1, <1>2 DEF Written
<1>5. Written(a, S[3]) = [a EXCEPT !.active = on]
  BY <1>1, <1>2 DEF Written
<1>6. Written(a, S[4]) = [a EXCEPT !.period_count = count]
  BY <1>1, <1>2 DEF Written
<1>7. Written(a, S[5]) = [a EXCEPT !.period = p]
  BY <1>1, <1>2 DEF Written
<1>8. Written(a, S[6]) = [a EXCEPT !.function = fn]
  BY <1>1, <1>2 DEF Written
<1> QED BY <1>3, <1>4, <1>5, <1>6, <1>7, <1>8 DEF StoresDo, S

\* Only the second store of a cancellation ends what is owed.
LEMMA EndsOwed ==
  ASSUME NEW k \in 1 .. 6, NEW at, NEW on \in BOOLEAN, NEW count, NEW p, NEW fn
  PROVE  Head(Left(k, at, on, count, p, fn)) = <<"TACCTL", FALSE>> <=> k = 5 /\ ~on
<1> DEFINE S == Stores(at, on, on, count, p, fn)
<1>1. Head(Left(k, at, on, count, p, fn)) = S[7 - k]
  BY LeftStep
<1>2. /\ S[1] = <<"TACCR", at>> /\ S[2] = <<"TACCTL", on>> /\ S[3] = <<"active", on>>
      /\ S[4] = <<"period_count", count>> /\ S[5] = <<"period", p>>
      /\ S[6] = <<"function", fn>>
  BY DEF Stores
<1> HIDE DEF S
<1>3. S[2] = <<"TACCTL", FALSE>> <=> ~on
  <2>1. CASE on = TRUE
    <3>1. <<"TACCTL", TRUE>>[2] # <<"TACCTL", FALSE>>[2]
      OBVIOUS
    <3> QED BY <2>1, <3>1, <1>2
  <2>2. CASE on = FALSE
    BY <2>2, <1>2
  <2> QED BY <2>1, <2>2
<1>4. /\ S[1] # <<"TACCTL", FALSE>> /\ S[3] # <<"TACCTL", FALSE>>
      /\ S[4] # <<"TACCTL", FALSE>> /\ S[5] # <<"TACCTL", FALSE>>
      /\ S[6] # <<"TACCTL", FALSE>>
  BY <1>2
<1>5. CASE k = 5
  <2>1. 7 - k = 2
    BY <1>5
  <2> QED BY <2>1, <1>1, <1>3, <1>5
<1>6. CASE k # 5
  <2>1. 7 - k \in {1, 3, 4, 5, 6}
    BY <1>6
  <2>2. S[7 - k] # <<"TACCTL", FALSE>>
    BY <2>1, <1>4
  <2> QED BY <2>2, <1>1, <1>6
<1> QED BY <1>5, <1>6

\* A store keeps a slot well typed.
LEMMA StoreTyped ==
  ASSUME NEW a \in Alarm, NEW k \in 1 .. 6, NEW at \in 0 .. TAR_RANGE - 1,
         NEW on \in BOOLEAN, NEW count \in 0 .. COUNT_RANGE - 1,
         NEW p \in Wait \cup {0}, NEW fn \in Callback \cup {NULL}
  PROVE  Written(a, Head(Left(k, at, on, count, p, fn))) \in Alarm
<1> DEFINE S == Stores(at, on, on, count, p, fn)
<1>1. Head(Left(k, at, on, count, p, fn)) = S[7 - k]
  BY LeftStep
<1>2. StoresDo(a, at, on, count, p, fn)
  BY EachStore
<1> HIDE DEF S
<1>3. /\ Written(a, S[1]) \in Alarm /\ Written(a, S[2]) \in Alarm
      /\ Written(a, S[3]) \in Alarm /\ Written(a, S[4]) \in Alarm
      /\ Written(a, S[5]) \in Alarm /\ Written(a, S[6]) \in Alarm
  <2>1. [a EXCEPT !.TACCR = at] \in Alarm
    BY DEF Alarm
  <2>2. [a EXCEPT !.CCIE = on, !.CCIFG = FALSE] \in Alarm
    BY DEF Alarm
  <2>3. [a EXCEPT !.active = on] \in Alarm
    BY DEF Alarm
  <2>4. [a EXCEPT !.period_count = count] \in Alarm
    BY DEF Alarm
  <2>5. [a EXCEPT !.period = p] \in Alarm
    BY DEF Alarm
  <2>6. [a EXCEPT !.function = fn] \in Alarm
    BY DEF Alarm
  <2> QED BY <1>2, <2>1, <2>2, <2>3, <2>4, <2>5, <2>6 DEF StoresDo, S
<1>4. 7 - k \in 1 .. 6
  OBVIOUS
<1>5. \A j \in 1 .. 6 : Written(a, S[j]) \in Alarm
  BY <1>3
<1> QED BY <1>1, <1>4, <1>5

-----------------------------------------------------------------------------
(***************************************************************************)
(* One slot: what the stores make of it.                                   *)
(***************************************************************************)
\* What is owed is at least one call.
LEMMA CountedIsOwed ==
  ASSUME NEW n, NEW left, Counted(n, left)
  PROVE  left # 0
BY Constants DEF Counted, Forever

\* Each store of a setting brings the slot nearer to what was asked for; the last
\* one makes it a slot at rest that is owed a call.
LEMMA SettingProceeds ==
  ASSUME NEW k \in 1 .. 6, NEW at \in 0 .. TAR_RANGE - 1, NEW w \in Wait,
         NEW count \in 0 .. COUNT_RANGE - 1, NEW p \in Wait \cup {0},
         NEW fn \in Callback, NEW t \in 0 .. TAR_RANGE - 1,
         NEW a \in Alarm, NEW o \in Owing, NEW d \in 0 .. MaxDelay,
         BeingSet(k, at, w, count, p, fn, t, a, o, d),
         NEW b, b = Written(a, Head(Left(k, at, On, count, p, fn)))
  PROVE  /\ k > 1 => BeingSet(k - 1, at, w, count, p, fn, t, b, o, d)
         /\ k = 1 => Rests(t, b, o)
<1> DEFINE S == Stores(at, On, On, count, p, fn)
<1>0. Head(Left(k, at, On, count, p, fn)) = S[7 - k]
  BY LeftStep
<1>1. b = Written(a, S[7 - k])
  BY <1>0
<1>2. StoresDo(a, at, On, count, p, fn)
  BY EachStore
<1>3. o.left # 0
  BY CountedIsOwed DEF BeingSet
<1> HIDE DEF S
<1>6. CASE k = 6
  <2>1. b = [a EXCEPT !.TACCR = at]
    BY <1>1, <1>2, <1>6, 7 - 6 = 1 DEF StoresDo, S
  <2>2. b.TACCR = at /\ b.CCIE = a.CCIE
    BY <2>1 DEF Alarm
  <2>3. BeingSet(5, at, w, count, p, fn, t, b, o, d)
    BY <2>2, <1>6 DEF BeingSet
  <2> QED BY <2>3, <1>6
<1>7. CASE k = 5
  <2>1. b = [a EXCEPT !.CCIE = On, !.CCIFG = FALSE]
    BY <1>1, <1>2, <1>7, 7 - 5 = 2 DEF StoresDo, S
  <2>2. b.TACCR = a.TACCR /\ b.CCIE /\ ~b.CCIFG
    BY <2>1 DEF Alarm, On
  <2> QED BY <2>2, <1>7 DEF BeingSet
<1>8. CASE k = 4
  <2>1. b = [a EXCEPT !.active = On]
    BY <1>1, <1>2, <1>8, 7 - 4 = 3 DEF StoresDo, S
  <2>2. b.TACCR = a.TACCR /\ b.CCIE = a.CCIE /\ b.CCIFG = a.CCIFG /\ b.active
    BY <2>1 DEF Alarm, On
  <2> QED BY <2>2, <1>8 DEF BeingSet
<1>9. CASE k = 3
  <2>1. b = [a EXCEPT !.period_count = count]
    BY <1>1, <1>2, <1>9, 7 - 3 = 4 DEF StoresDo, S
  <2>2. /\ b.TACCR = a.TACCR /\ b.CCIE = a.CCIE /\ b.CCIFG = a.CCIFG
        /\ b.active = a.active /\ b.period_count = count
    BY <2>1 DEF Alarm
  <2> QED BY <2>2, <1>9 DEF BeingSet
<1>10. CASE k = 2
  <2>1. b = [a EXCEPT !.period = p]
    BY <1>1, <1>2, <1>10, 7 - 2 = 5 DEF StoresDo, S
  <2>2. /\ b.TACCR = a.TACCR /\ b.CCIE = a.CCIE /\ b.CCIFG = a.CCIFG
        /\ b.active = a.active /\ b.period_count = a.period_count /\ b.period = p
    BY <2>1 DEF Alarm
  <2> QED BY <2>2, <1>10 DEF BeingSet
<1>11. CASE k = 1
  <2>1. b = [a EXCEPT !.function = fn]
    BY <1>1, <1>2, <1>11, 7 - 1 = 6 DEF StoresDo, S
  <2>2. /\ b.TACCR = a.TACCR /\ b.CCIE = a.CCIE /\ b.CCIFG = a.CCIFG
        /\ b.active = a.active /\ b.period_count = a.period_count
        /\ b.period = a.period /\ b.function = fn
    BY <2>1 DEF Alarm
  <2>3. /\ a.TACCR = at /\ a.CCIE /\ ~a.CCIFG /\ a.active
        /\ a.period_count = count /\ a.period = p
    BY <1>11 DEF BeingSet
  <2>4. Asked(b, o)
    BY <2>2, <2>3 DEF BeingSet, Asked
  <2>5. o.until \in -MaxLag .. TAR_RANGE - 1 /\ ~(o.until <= 0)
    BY Constants DEF BeingSet
  <2>6. Ahead(t, b, o)
    BY <2>2, <2>3, <2>5 DEF Ahead, BeingSet
  <2>7. b.active /\ b.CCIE
    BY <2>2, <2>3
  <2> QED BY <1>3, <1>11, <2>4, <2>6, <2>7 DEF Rests
<1> QED BY <1>6, <1>7, <1>8, <1>9, <1>10, <1>11

\* The second store of a cancellation ends what is owed; the last one makes it
\* a free slot at rest.
LEMMA CancellingProceeds ==
  ASSUME NEW k \in 1 .. 6, NEW t \in 0 .. TAR_RANGE - 1,
         NEW a \in Alarm, NEW o \in Owing,
         BeingCancelled(k, t, a, o),
         NEW b, b = Written(a, Head(Left(k, 0, Off, 0, 0, NULL))),
         NEW e, e = IF k = 5 THEN [o EXCEPT !.left = 0] ELSE o
  PROVE  /\ k > 1 => BeingCancelled(k - 1, t, b, e)
         /\ k = 1 => Rests(t, b, e)
<1> DEFINE S == Stores(0, Off, Off, 0, 0, NULL)
<1>1. b = Written(a, S[7 - k])
  BY LeftStep DEF S
<1>2. StoresDo(a, 0, Off, 0, 0, NULL)
  BY EachStore
<1> HIDE DEF S
<1>6. CASE k = 6
  <2>1. b = [a EXCEPT !.TACCR = 0]
    BY <1>1, <1>2, <1>6, 7 - 6 = 1 DEF StoresDo, S
  <2>2. /\ b.CCIE = a.CCIE /\ b.function = a.function
        /\ b.period_count = a.period_count /\ b.period = a.period
    BY <2>1 DEF Alarm
  <2>3. Rests(t, a, o) /\ e = o
    BY <1>6 DEF BeingCancelled
  <2>4. (b.CCIE <=> e.left # 0) /\ (e.left # 0 => Asked(b, e))
    BY <2>2, <2>3 DEF Rests, Asked
  <2> QED BY <2>4, <1>6 DEF BeingCancelled
<1>7. CASE k = 5
  <2>1. b = [a EXCEPT !.CCIE = Off, !.CCIFG = FALSE]
    BY <1>1, <1>2, <1>7, 7 - 5 = 2 DEF StoresDo, S
  <2>2. ~b.CCIE
    BY <2>1 DEF Alarm, Off
  <2>3. e.left = 0
    BY <1>7 DEF Owing
  <2> QED BY <2>2, <2>3, <1>7 DEF BeingCancelled
<1>8. CASE k = 4
  <2>1. b = [a EXCEPT !.active = Off]
    BY <1>1, <1>2, <1>8, 7 - 4 = 3 DEF StoresDo, S
  <2>2. b.CCIE = a.CCIE /\ ~b.active
    BY <2>1 DEF Alarm, Off
  <2> QED BY <2>2, <1>8 DEF BeingCancelled
<1>9. CASE k = 3
  <2>1. b = [a EXCEPT !.period_count = 0]
    BY <1>1, <1>2, <1>9, 7 - 3 = 4 DEF StoresDo, S
  <2>2. b.CCIE = a.CCIE /\ b.active = a.active
    BY <2>1 DEF Alarm
  <2> QED BY <2>2, <1>9 DEF BeingCancelled
<1>10. CASE k = 2
  <2>1. b = [a EXCEPT !.period = 0]
    BY <1>1, <1>2, <1>10, 7 - 2 = 5 DEF StoresDo, S
  <2>2. b.CCIE = a.CCIE /\ b.active = a.active
    BY <2>1 DEF Alarm
  <2> QED BY <2>2, <1>10 DEF BeingCancelled
<1>11. CASE k = 1
  <2>1. b = [a EXCEPT !.function = NULL]
    BY <1>1, <1>2, <1>11, 7 - 1 = 6 DEF StoresDo, S
  <2>2. b.CCIE = a.CCIE /\ b.active = a.active
    BY <2>1 DEF Alarm
  <2> QED BY <2>2, <1>11 DEF BeingCancelled, Rests
<1> QED BY <1>6, <1>7, <1>8, <1>9, <1>10, <1>11

-----------------------------------------------------------------------------
(***************************************************************************)
(* One slot: what a tick makes of it.                                      *)
(***************************************************************************)
\* The slot and what it owes after a tick that takes the counter to u.
Ticked(a, u) == [a EXCEPT !.CCIFG = @ \/ a.TACCR = u]
Waited(o) == [o EXCEPT !.until = IF o.left # 0 THEN @ - 1 ELSE 0]

\* A tick touches the flag and the distance only.
LEMMA TickTouches ==
  ASSUME NEW a \in Alarm, NEW o \in Owing, NEW u \in 0 .. TAR_RANGE - 1
  PROVE  /\ Ticked(a, u) \in Alarm /\ Waited(o) \in Owing
         /\ Ticked(a, u).TACCR = a.TACCR /\ Ticked(a, u).CCIE = a.CCIE
         /\ Ticked(a, u).active = a.active /\ Ticked(a, u).period = a.period
         /\ Ticked(a, u).period_count = a.period_count
         /\ Ticked(a, u).function = a.function
         /\ Ticked(a, u).CCIFG <=> a.CCIFG \/ a.TACCR = u
         /\ Waited(o).left = o.left /\ Waited(o).function = o.function
         /\ o.left # 0 => Waited(o).until = o.until - 1
<1> DEFINE flag == a.CCIFG \/ a.TACCR = u
           wait == IF o.left # 0 THEN o.until - 1 ELSE 0
<1>1. flag \in BOOLEAN /\ wait \in Int
  BY DEF Owing
<1>2. Ticked(a, u) = [a EXCEPT !.CCIFG = flag] /\ Waited(o) = [o EXCEPT !.until = wait]
  BY DEF Ticked, Waited
<1> HIDE DEF flag, wait
<1>3. [a EXCEPT !.CCIFG = flag] \in Alarm /\ [o EXCEPT !.until = wait] \in Owing
  BY <1>1 DEF Alarm, Owing
<1>4. /\ Ticked(a, u).TACCR = a.TACCR /\ Ticked(a, u).CCIE = a.CCIE
      /\ Ticked(a, u).active = a.active /\ Ticked(a, u).period = a.period
      /\ Ticked(a, u).period_count = a.period_count
      /\ Ticked(a, u).function = a.function
      /\ Ticked(a, u).CCIFG = flag
  BY <1>2 DEF Alarm
<1>5. /\ Waited(o).left = o.left /\ Waited(o).function = o.function
      /\ Waited(o).until = wait
  BY <1>2 DEF Owing
<1> QED BY <1>2, <1>3, <1>4, <1>5 DEF flag, wait

\* A slot at rest whose handler is not overdue stays on time.
LEMMA RestsOverTick ==
  ASSUME NEW t \in 0 .. TAR_RANGE - 1, NEW a \in Alarm, NEW o \in Owing,
         Rests(t, a, o),
         a.CCIE /\ a.CCIFG /\ o.left # 0 => o.until > -MaxLag
  PROVE  Rests((t + 1) % TAR_RANGE, Ticked(a, (t + 1) % TAR_RANGE), Waited(o))
<1> DEFINE u == (t + 1) % TAR_RANGE
           b == Ticked(a, u)
           e == Waited(o)
<1>1. u \in 0 .. TAR_RANGE - 1
  BY Constants, WrapOnce, 1 \in 0 .. TAR_RANGE
<1> HIDE DEF u
<1>2. /\ b.TACCR = a.TACCR /\ b.CCIE = a.CCIE /\ b.active = a.active
      /\ b.period = a.period /\ b.period_count = a.period_count
      /\ b.function = a.function /\ (b.CCIFG <=> a.CCIFG \/ a.TACCR = u)
      /\ e.left = o.left /\ e.function = o.function
      /\ o.left # 0 => e.until = o.until - 1
  BY <1>1, TickTouches
<1> HIDE DEF b, e
<1>3. CASE o.left # 0
  <2>1. Asked(a, o) /\ Ahead(t, a, o) /\ a.CCIE
    BY <1>3 DEF Rests
  <2>2. Asked(b, e)
    BY <1>2, <2>1 DEF Asked
  <2>3. o.until \in -MaxLag .. TAR_RANGE - 1 /\ (a.CCIFG <=> o.until <= 0)
    BY <2>1 DEF Ahead
  <2>4. o.until - 1 \in -MaxLag .. TAR_RANGE - 1
    <3>1. CASE o.until <= 0
      BY <2>1, <2>3, <3>1, <1>3, Constants
    <3>2. CASE ~(o.until <= 0)
      BY <2>3, <3>2, Constants
    <3> QED BY <3>1, <3>2
  <2>5. /\ o.until \in -(TAR_RANGE - 1) .. TAR_RANGE - 1
        /\ o.until - 1 \in -(TAR_RANGE - 1) .. TAR_RANGE - 1
    BY <2>3, <2>4, Constants
  <2>6. /\ (u + (o.until - 1)) % TAR_RANGE = (t + o.until) % TAR_RANGE
        /\ o.until > 0 =>
             (((t + o.until) % TAR_RANGE = u) <=> o.until - 1 = 0)
    BY <2>5, Constants, TickNears DEF u
  <2>7. a.TACCR = (t + o.until) % TAR_RANGE
    BY <2>1 DEF Ahead
  <2>8. b.CCIFG <=> e.until <= 0
    <3>1. CASE o.until <= 0
      <4>1. e.until <= 0
        BY <1>2, <1>3, <2>3, <3>1
      <4> QED BY <4>1, <1>2, <2>3, <3>1
    <3>2. CASE ~(o.until <= 0)
      <4>1. (a.TACCR = u) <=> o.until - 1 = 0
        BY <2>3, <2>6, <2>7, <3>2
      <4>2. e.until <= 0 <=> o.until - 1 = 0
        BY <1>2, <1>3, <2>3, <3>2
      <4>3. ~a.CCIFG
        BY <2>3, <3>2
      <4> QED BY <1>2, <4>1, <4>2, <4>3
    <3> QED BY <3>1, <3>2
  <2>9. Ahead(u, b, e)
    BY <1>2, <1>3, <2>4, <2>6, <2>7, <2>8 DEF Ahead
  <2> QED BY <1>2, <1>3, <2>1, <2>2, <2>9 DEF Rests, b, e, u
<1>4. CASE o.left = 0
  BY <1>2, <1>4 DEF Rests, b, e, u
<1> QED BY <1>3, <1>4

\* A slot that is being set is not reached before the call is over.
LEMMA SettingOverTick ==
  ASSUME NEW k \in 1 .. 6, NEW at \in 0 .. TAR_RANGE - 1, NEW w \in Wait,
         NEW count \in 0 .. COUNT_RANGE - 1, NEW p \in Wait \cup {0},
         NEW fn \in Callback, NEW t \in 0 .. TAR_RANGE - 1,
         NEW a \in Alarm, NEW o \in Owing, NEW d \in 0 .. MaxDelay,
         BeingSet(k, at, w, count, p, fn, t, a, o, d), d < MaxDelay
  PROVE  BeingSet(k, at, w, count, p, fn, (t + 1) % TAR_RANGE,
                  Ticked(a, (t + 1) % TAR_RANGE), Waited(o), d + 1)
<1> DEFINE u == (t + 1) % TAR_RANGE
           b == Ticked(a, u)
           e == Waited(o)
<1>1. u \in 0 .. TAR_RANGE - 1
  BY Constants, WrapOnce, 1 \in 0 .. TAR_RANGE
<1> HIDE DEF u
<1>2. /\ b.TACCR = a.TACCR /\ b.CCIE = a.CCIE /\ b.active = a.active
      /\ b.period = a.period /\ b.period_count = a.period_count
      /\ b.function = a.function /\ (b.CCIFG <=> a.CCIFG \/ a.TACCR = u)
      /\ e.left = o.left /\ e.function = o.function
      /\ o.left # 0 => e.until = o.until - 1
  BY <1>1, TickTouches
<1>3. o.left # 0
  BY CountedIsOwed DEF BeingSet
<1> HIDE DEF b, e
<1>4. o.until = w - d /\ at = (t + o.until) % TAR_RANGE
  BY DEF BeingSet
<1>5. o.until \in 2 .. TAR_RANGE - 1
  BY <1>4, Constants
<1>6. /\ (u + (o.until - 1)) % TAR_RANGE = (t + o.until) % TAR_RANGE
      /\ (t + o.until) % TAR_RANGE # u
  <2>1. /\ o.until \in -(TAR_RANGE - 1) .. TAR_RANGE - 1
        /\ o.until - 1 \in -(TAR_RANGE - 1) .. TAR_RANGE - 1
        /\ o.until > 0 /\ o.until - 1 # 0
    BY <1>5, Constants
  <2> QED BY <2>1, Constants, TickNears DEF u
<1>7. at = (u + e.until) % TAR_RANGE
  BY <1>2, <1>3, <1>4, <1>6
<1>8. e.until = w - (d + 1)
  BY <1>2, <1>3, <1>4, Constants
<1>9. k <= 4 => b.CCIE /\ ~b.CCIFG
  BY <1>2, <1>4, <1>6 DEF BeingSet
<1>10. k <= 5 => b.TACCR = at
  BY <1>2 DEF BeingSet
<1>11. /\ e.function = fn /\ Counted(count, e.left) /\ (count # 0 => p \in Wait)
       /\ k >= 5 => ~b.CCIE
       /\ k <= 3 => b.active
       /\ k <= 2 => b.period_count = count
       /\ k <= 1 => b.period = p
  BY <1>2 DEF BeingSet
<1> QED BY <1>7, <1>8, <1>9, <1>10, <1>11 DEF BeingSet, b, e, u

\* A tick leaves a cancellation where it is.
LEMMA CancellingOverTick ==
  ASSUME NEW k \in 1 .. 6, NEW t \in 0 .. TAR_RANGE - 1,
         NEW a \in Alarm, NEW o \in Owing,
         BeingCancelled(k, t, a, o),
         a.CCIE /\ a.CCIFG /\ o.left # 0 => o.until > -MaxLag
  PROVE  BeingCancelled(k, (t + 1) % TAR_RANGE,
                        Ticked(a, (t + 1) % TAR_RANGE), Waited(o))
<1> DEFINE u == (t + 1) % TAR_RANGE
           b == Ticked(a, u)
           e == Waited(o)
<1>1. u \in 0 .. TAR_RANGE - 1
  BY Constants, WrapOnce, 1 \in 0 .. TAR_RANGE
<1>2. Rests(t, a, o) => Rests(u, b, e)
  BY RestsOverTick
<1> HIDE DEF u
<1>3. /\ b.CCIE = a.CCIE /\ b.active = a.active
      /\ b.period = a.period /\ b.period_count = a.period_count
      /\ b.function = a.function
      /\ e.left = o.left /\ e.function = o.function
  BY <1>1, TickTouches
<1> HIDE DEF b, e
<1>4. Asked(a, o) => Asked(b, e)
  BY <1>3 DEF Asked
<1>5. /\ k = 6 => Rests(u, b, e)
      /\ k = 5 => (b.CCIE <=> e.left # 0) /\ (e.left # 0 => Asked(b, e))
  BY <1>2, <1>3, <1>4 DEF BeingCancelled
<1>6. /\ k <= 4 => ~b.CCIE /\ e.left = 0
      /\ k <= 3 => ~b.active
  BY <1>3 DEF BeingCancelled
<1> QED BY <1>5, <1>6 DEF BeingCancelled, b, e, u

-----------------------------------------------------------------------------
(***************************************************************************)
(* One slot: what its handler makes of it.                                 *)
(***************************************************************************)
\* The slot and what it owes after its handler.
Handled(a) ==
  [a EXCEPT !.CCIFG = FALSE,
            !.TACCR = IF a.period_count # 0 THEN (a.TACCR + a.period) % TAR_RANGE ELSE 0,
            !.CCIE = a.period_count # 0,
            !.active = @ /\ a.period_count # 0,
            !.period_count = CountDown(@)]
Called(a, o) ==
  [o EXCEPT !.left = IF @ = Forever THEN @ ELSE @ - 1,
            !.until = IF o.left = 1 THEN 0 ELSE @ + a.period]

\* The handler of a slot with calls left to be made keeps the rest in step.

\* The count goes down by one, or stays infinite, or wraps in a slot that is freed.
LEMMA CountGoesDown ==
  ASSUME NEW n \in 0 .. COUNT_RANGE - 1
  PROVE  /\ CountDown(n) \in 0 .. COUNT_RANGE - 1
         /\ n # 0 /\ n # TIMER_COUNT_INFINITE => CountDown(n) = n - 1
         /\ n = TIMER_COUNT_INFINITE => CountDown(n) = n
<1>1. /\ (n - 1) % COUNT_RANGE = IF n >= 1 THEN n - 1 ELSE n - 1 + COUNT_RANGE
      /\ (n - 1) % COUNT_RANGE \in 0 .. COUNT_RANGE - 1
  BY Constants, DistanceWraps, 1 \in 0 .. COUNT_RANGE - 1
<1> QED BY <1>1, Constants DEF CountDown

\* The handler of a slot with calls left to be made keeps the two counts in step.
HandlerDone(a, o, b, e) ==
  /\ b \in Alarm /\ e \in Owing
  /\ ~b.CCIFG
  /\ b.CCIE <=> e.left # 0
  /\ b.active <=> a.active /\ e.left # 0
  /\ e.left # 0 =>
       /\ Asked(b, e)
       /\ a.period \in Wait
       /\ b.TACCR = (a.TACCR + a.period) % TAR_RANGE
       /\ e.until = o.until + a.period

LEMMA HandlerCounts ==
  ASSUME NEW a \in Alarm, NEW o \in Owing, Asked(a, o)
  PROVE  HandlerDone(a, o, Handled(a), Called(a, o))
<1> DEFINE again == a.period_count # 0
           next == IF again THEN (a.TACCR + a.period) % TAR_RANGE ELSE 0
           busy == a.active /\ again
           n == CountDown(a.period_count)
           left == IF o.left = Forever THEN Forever ELSE o.left - 1
           until == IF o.left = 1 THEN 0 ELSE o.until + a.period
<1>1. /\ a.period_count \in 0 .. COUNT_RANGE - 1 /\ a.TACCR \in 0 .. TAR_RANGE - 1
      /\ a.period \in Nat /\ o.until \in Int /\ a.function = o.function
      /\ a.active \in BOOLEAN
  BY Constants DEF Alarm, Owing, Asked
<1>2. /\ again \in BOOLEAN /\ busy \in BOOLEAN
      /\ next \in 0 .. TAR_RANGE - 1 /\ until \in Int
  BY <1>1, Constants
<1>3. /\ n \in 0 .. COUNT_RANGE - 1
      /\ a.period_count # 0 /\ a.period_count # TIMER_COUNT_INFINITE =>
           n = a.period_count - 1
      /\ a.period_count = TIMER_COUNT_INFINITE => n = a.period_count
  BY <1>1, CountGoesDown
<1>4. Counted(a.period_count, o.left)
  BY DEF Asked
<1> HIDE DEF n
<1>5. /\ again <=> left # 0
      /\ left \in {Forever} \cup 0 .. COUNT_RANGE
      /\ again => Counted(n, left)
  BY <1>1, <1>3, <1>4, Constants DEF Counted, Forever, TIMER_COUNT_INFINITE
<1>6. again => a.period \in Wait
  BY DEF Asked
<1>7. again => o.left # 1
  BY <1>4, Constants DEF Counted, Forever, TIMER_COUNT_INFINITE
<1>8. again /\ n # 0 => a.period \in Wait
  BY <1>6
<1>9. /\ again => next = (a.TACCR + a.period) % TAR_RANGE
      /\ again => until = o.until + a.period
  BY <1>7
<1>10. busy <=> a.active /\ again
  OBVIOUS
<1>11. /\ Handled(a) = [a EXCEPT !.CCIFG = Off, !.TACCR = next, !.CCIE = again,
                                 !.active = busy, !.period_count = n]
       /\ Called(a, o) = [o EXCEPT !.left = left, !.until = until]
  BY DEF Handled, Called, n, Off
<1> HIDE DEF again, next, busy, left, until
<1>12. Off \in BOOLEAN /\ ~Off
  BY DEF Off
<1>13. /\ Handled(a) \in Alarm
       /\ Handled(a).CCIFG = Off /\ Handled(a).TACCR = next
       /\ Handled(a).CCIE = again /\ Handled(a).active = busy
       /\ Handled(a).period_count = n
       /\ Handled(a).period = a.period /\ Handled(a).function = a.function
  BY <1>2, <1>3, <1>11, <1>12 DEF Alarm
<1>14. /\ Called(a, o) \in Owing
       /\ Called(a, o).left = left /\ Called(a, o).until = until
       /\ Called(a, o).function = o.function
  BY <1>2, <1>5, <1>11 DEF Owing
<1>15. left # 0 => Asked(Handled(a), Called(a, o))
  BY <1>1, <1>5, <1>8, <1>13, <1>14 DEF Asked
<1> QED BY <1>5, <1>6, <1>9, <1>10, <1>12, <1>13, <1>14, <1>15 DEF HandlerDone

\* A handler leaves its slot a period away from the compare value it had.
LEMMA RestsOverHandler ==
  ASSUME NEW t \in 0 .. TAR_RANGE - 1, NEW a \in Alarm, NEW o \in Owing,
         Rests(t, a, o), a.CCIE, a.CCIFG
  PROVE  Rests(t, Handled(a), Called(a, o))
<1> DEFINE b == Handled(a)
           e == Called(a, o)
<1>1. a.active /\ Asked(a, o) /\ Ahead(t, a, o)
  BY DEF Rests
<1>2. HandlerDone(a, o, b, e)
  BY <1>1, HandlerCounts
<1> HIDE DEF b, e
<1>3. ASSUME e.left # 0  PROVE Ahead(t, b, e)
  <2>1. /\ a.period \in Wait /\ e.until = o.until + a.period /\ ~b.CCIFG
        /\ b.TACCR = (a.TACCR + a.period) % TAR_RANGE
    BY <1>2, <1>3 DEF HandlerDone
  <2>2. o.until <= 0 /\ o.until \in -MaxLag .. TAR_RANGE - 1
    BY <1>1 DEF Ahead
  <2>3. /\ o.until \in -(TAR_RANGE - 1) .. 0 /\ a.period \in 1 .. TAR_RANGE - 1
        /\ o.until + a.period \in 1 .. TAR_RANGE - 1
    BY <2>1, <2>2, Constants
  <2>4. (((t + o.until) % TAR_RANGE) + a.period) % TAR_RANGE
          = (t + (o.until + a.period)) % TAR_RANGE
    BY <2>3, Constants, PeriodAdds
  <2>5. a.TACCR = (t + o.until) % TAR_RANGE
    BY <1>1 DEF Ahead
  <2>6. b.TACCR = (t + e.until) % TAR_RANGE
    BY <2>1, <2>4, <2>5
  <2>7. e.until \in -MaxLag .. TAR_RANGE - 1 /\ ~(e.until <= 0)
    BY <2>1, <2>3, Constants
  <2> QED BY <2>1, <2>6, <2>7 DEF Ahead
<1>4. /\ b.active <=> e.left # 0
      /\ b.CCIE <=> e.left # 0
      /\ e.left # 0 => Asked(b, e)
  BY <1>1, <1>2 DEF HandlerDone
<1> QED BY <1>3, <1>4 DEF Rests, b, e

\* A handler that strikes a cancellation takes its call from what is owed.
LEMMA CancellingOverHandler ==
  ASSUME NEW k \in 1 .. 6, NEW t \in 0 .. TAR_RANGE - 1,
         NEW a \in Alarm, NEW o \in Owing,
         BeingCancelled(k, t, a, o), a.CCIE, a.CCIFG
  PROVE  /\ BeingCancelled(k, t, Handled(a), Called(a, o))
         /\ Asked(a, o) /\ o.left # 0
         /\ k = 6 => o.until <= 0
         /\ k >= 5
<1>1. k >= 5
  BY DEF BeingCancelled
<1>2. Asked(a, o) /\ o.left # 0
  BY <1>1 DEF BeingCancelled, Rests
<1>3. HandlerDone(a, o, Handled(a), Called(a, o))
  BY <1>2, HandlerCounts
<1>4. k = 6 => o.until <= 0 /\ Rests(t, Handled(a), Called(a, o))
  <2>1. Rests(t, a, o) => Rests(t, Handled(a), Called(a, o))
    BY RestsOverHandler
  <2> QED BY <2>1 DEF BeingCancelled, Rests, Ahead
<1>5. k = 5 => /\ Handled(a).CCIE <=> Called(a, o).left # 0
               /\ Called(a, o).left # 0 => Asked(Handled(a), Called(a, o))
  BY <1>3 DEF HandlerDone
<1> QED BY <1>1, <1>2, <1>4, <1>5 DEF BeingCancelled

-----------------------------------------------------------------------------
(***************************************************************************)
(* The invariant.                                                          *)
(***************************************************************************)
LEMMA InitEstablishes == timer_init => AlarmIInv
<1> SUFFICES ASSUME timer_init PROVE AlarmIInv
  OBVIOUS
<1>1. call = [id |-> 0, stores |-> <<>>] /\ ~Calling
  BY DEF timer_init, Calling
<1>2. Off \in BOOLEAN /\ 0 \in 0 .. TAR_RANGE - 1 /\ 0 \in 0 .. COUNT_RANGE - 1
      /\ 0 \in 0 .. MaxDelay /\ 0 \in 0 .. COUNT_RANGE /\ 0 \in Int
  BY Constants DEF Off
<1>3. alarm = [i \in AlarmId |->
        [TACCR |-> 0, CCIE |-> Off, CCIFG |-> Off, active |-> Off,
         period_count |-> 0, period |-> 0, function |-> NULL]]
  BY DEF timer_init, Off
<1>4. owed = [i \in AlarmId |-> [left |-> 0, until |-> 0, function |-> NULL]]
  BY DEF timer_init
<1>5. alarm \in [AlarmId -> Alarm] /\ owed \in [AlarmId -> Owing]
  BY <1>2, <1>3, <1>4 DEF Alarm, Owing
<1>6. Typed
  BY <1>1, <1>2, <1>5, Constants DEF timer_init, Typed
<1>7. \A i \in AlarmId : Rests(TAR, alarm[i], owed[i])
  BY <1>3, <1>4 DEF Rests, Off
<1> QED BY <1>1, <1>6, <1>7 DEF AlarmIInv, Resting, Writing

LEMMA TickKeeps == AlarmIInv /\ Tick => AlarmIInv'
<1> SUFFICES ASSUME AlarmIInv, Tick PROVE AlarmIInv'
  OBVIOUS
<1> DEFINE u == (TAR + 1) % TAR_RANGE
<1>1. Typed /\ Resting /\ Writing
  BY DEF AlarmIInv
<1>2. TAR' = u /\ u \in 0 .. TAR_RANGE - 1
  BY <1>1, Constants, WrapOnce, 1 \in 0 .. TAR_RANGE DEF Tick, Typed
<1>3. call' = call /\ Calling' = Calling /\ \A i \in AlarmId : IsSet(i)' = IsSet(i)
  BY DEF Tick, Calling, IsSet
<1>4. \A i \in AlarmId :
        /\ alarm[i] \in Alarm /\ owed[i] \in Owing
        /\ alarm'[i] = Ticked(alarm[i], u) /\ owed'[i] = Waited(owed[i])
        /\ alarm[i].CCIE /\ alarm[i].CCIFG /\ owed[i].left # 0 => owed[i].until > -MaxLag
  BY <1>1, <1>2 DEF Tick, Typed, Ticked, Waited, Owed, Interrupts
<1>5. alarm' \in [AlarmId -> Alarm] /\ owed' \in [AlarmId -> Owing]
  <2>1. alarm' = [i \in AlarmId |-> alarm'[i]] /\ owed' = [i \in AlarmId |-> owed'[i]]
    BY DEF Tick
  <2> HIDE DEF u
  <2>2. \A i \in AlarmId : alarm'[i] \in Alarm /\ owed'[i] \in Owing
    BY <1>2, <1>4, TickTouches
  <2> QED BY <2>1, <2>2
<1>6. /\ delay' \in 0 .. MaxDelay
      /\ Calling => delay < MaxDelay /\ delay' = delay + 1
  BY <1>1, Constants DEF Tick, Typed
<1>7. Typed'
  BY <1>1, <1>2, <1>3, <1>5, <1>6 DEF Typed
<1>8. Resting'
  <2>1. \A i \in AlarmId : Rests(TAR, alarm[i], owed[i]) =>
                          Rests(u, Ticked(alarm[i], u), Waited(owed[i]))
    BY <1>1, <1>4, RestsOverTick DEF Typed
  <2> HIDE DEF u
  <2> QED BY <1>1, <1>2, <1>3, <1>4, <2>1 DEF Resting
<1>9. ASSUME Calling  PROVE (Sets \/ Cancels)'
  <2> DEFINE i == call.id
  <2>1. i \in AlarmId /\ delay \in 0 .. MaxDelay /\ TAR \in 0 .. TAR_RANGE - 1
    BY <1>1 DEF Typed
  <2>2. CASE Sets
    <3>1. PICK k \in 1 .. 6, at \in 0 .. TAR_RANGE - 1, w \in Wait,
               count \in 0 .. COUNT_RANGE - 1, p \in Wait \cup {0}, fn \in Callback :
            /\ call.stores = Left(k, at, On, count, p, fn)
            /\ BeingSet(k, at, w, count, p, fn, TAR, alarm[i], owed[i], delay)
      BY <2>2 DEF Sets
    <3>2. BeingSet(k, at, w, count, p, fn, u, Ticked(alarm[i], u), Waited(owed[i]), delay + 1)
      BY <1>4, <1>6, <1>9, <2>1, <3>1, SettingOverTick
    <3> HIDE DEF u
    <3>3. BeingSet(k, at, w, count, p, fn, TAR', alarm'[i], owed'[i], delay')
      BY <1>2, <1>4, <1>6, <1>9, <2>1, <3>2
    <3> QED BY <1>3, <3>1, <3>3 DEF Sets
  <2>3. CASE Cancels
    <3>1. PICK k \in 1 .. 6 :
            /\ call.stores = Left(k, 0, Off, 0, 0, NULL)
            /\ BeingCancelled(k, TAR, alarm[i], owed[i])
      BY <2>3 DEF Cancels
    <3>2. BeingCancelled(k, u, Ticked(alarm[i], u), Waited(owed[i]))
      BY <1>4, <2>1, <3>1, CancellingOverTick
    <3> HIDE DEF u
    <3>3. BeingCancelled(k, TAR', alarm'[i], owed'[i])
      BY <1>2, <1>4, <2>1, <3>2
    <3> QED BY <1>3, <3>1, <3>3 DEF Cancels
  <2> QED BY <1>1, <1>9, <2>2, <2>3 DEF Writing
<1> QED BY <1>3, <1>7, <1>8, <1>9 DEF AlarmIInv, Writing

\* get_available_slot gives the first free slot.
LEMMA SlotIsFree ==
  ASSUME \E i \in AlarmId : ~alarm[i].active
  PROVE  get_available_slot \in AlarmId /\ ~alarm[get_available_slot].active
<1> DEFINE Free == {i \in AlarmId : ~alarm[i].active}
<1>1. Free \in SUBSET Nat /\ Free # {}
  BY Constants
<1>2. PICK m \in Free : \A k \in Free : m <= k
  BY <1>1, LeastElement
<1>3. m \in AlarmId /\ ~alarm[m].active /\ \A j \in AlarmId : j < m => alarm[j].active
  <2>1. ASSUME NEW j \in AlarmId, j < m  PROVE alarm[j].active
    <3>1. ~ (m <= j)
      BY <2>1, Constants, <1>1
    <3> QED BY <3>1, <1>2
  <2> QED BY <2>1
<1> QED BY <1>3 DEF get_available_slot

LEMMA ExecuteKeeps ==
  ASSUME NEW fn \in Callback, NEW w \in Wait, NEW p \in Wait \cup {0},
         NEW count \in 0 .. COUNT_RANGE - 1, count # 0 => p \in Wait,
         AlarmIInv, Execute(fn, w, p, count)
  PROVE  AlarmIInv'
<1> DEFINE i == get_available_slot
           at == (TAR + w) % TAR_RANGE
           left == IF count = TIMER_COUNT_INFINITE THEN Forever ELSE count + 1
           o == [left |-> left, until |-> w, function |-> fn]
<1>1. Typed /\ Resting /\ ~Calling
  BY DEF AlarmIInv, Execute
<1>2. i \in AlarmId /\ ~alarm[i].active
  BY SlotIsFree DEF Execute
<1>3. TAR' = TAR /\ alarm' = alarm /\ delay' = 0
  BY DEF Execute
<1>4. at \in 0 .. TAR_RANGE - 1 /\ w \in Nat /\ w < TAR_RANGE
  <2>1. w \in 0 .. TAR_RANGE
    BY Constants
  <2> QED BY <1>1, <2>1, Constants, WrapOnce DEF Typed
<1>5. call' = [id |-> i, stores |-> Left(6, at, On, count, p, fn)]
  <2>1. Stores(at, On, On, count, p, fn) = Left(6, at, On, count, p, fn)
    BY LeftEnds
  <2>2. call' = [id |-> i, stores |-> Stores(at, On, On, count, p, fn)]
    BY DEF Execute, On
  <2> QED BY <2>1, <2>2
<1>6. left \in {Forever} \cup 0 .. COUNT_RANGE /\ Counted(count, left)
  BY Constants DEF Counted, TIMER_COUNT_INFINITE
<1>7. owed' = [owed EXCEPT ![i] = o]
  BY DEF Execute
<1> HIDE DEF i, at, left
<1>8. o \in Owing /\ o.left = left /\ o.until = w /\ o.function = fn
  BY <1>4, <1>6 DEF Owing
<1> HIDE DEF o
<1>9. Typed'
  <2>1. owed' \in [AlarmId -> Owing]
    BY <1>1, <1>7, <1>8 DEF Typed
  <2>2. 0 \in 0 .. MaxDelay
    BY Constants
  <2>3. (call = [id |-> call.id, stores |-> call.stores] /\ call.id \in AlarmId)'
    BY <1>5, <1>2
  <2> QED BY <1>1, <1>3, <2>1, <2>2, <2>3 DEF Typed
<1>10. call'.id = i /\ call'.stores = Left(6, at, On, count, p, fn)
  BY <1>5
<1>11. call'.stores # <<>>
  BY <1>10, LeftStep, 6 \in 1 .. 6
<1>12. Resting'
  <2>1. \A j \in AlarmId : Rests(TAR, alarm[j], owed[j])
    BY <1>1 DEF Resting, IsSet
  <2>2. \A j \in AlarmId : ~IsSet(j)' => j # i
    BY <1>10, <1>11 DEF IsSet, Calling
  <2>3. \A j \in AlarmId : j # i => owed'[j] = owed[j]
    BY <1>1, <1>7 DEF Typed
  <2> QED BY <1>3, <2>1, <2>2, <2>3 DEF Resting
<1>13. Sets'
  <2>1. owed'[i] = o
    BY <1>1, <1>2, <1>7 DEF Typed
  <2>2. ~alarm[i].CCIE
    BY <1>1, <1>2 DEF Resting, IsSet, Rests
  <2>3. at = (TAR + w) % TAR_RANGE /\ w = w - 0
    BY <1>4 DEF at
  <2>4. BeingSet(6, at, w, count, p, fn, TAR, alarm[i], o, 0)
    BY <1>6, <1>8, <2>2, <2>3 DEF BeingSet
  <2>5. BeingSet(6, at, w, count, p, fn, TAR', alarm'[i], owed'[i], delay')
    BY <1>3, <2>1, <2>4
  <2> QED BY <1>4, <1>10, <2>5, 6 \in 1 .. 6 DEF Sets
<1> QED BY <1>9, <1>12, <1>13 DEF AlarmIInv, Writing

LEMMA CancelKeeps ==
  ASSUME NEW i \in AlarmId, AlarmIInv, timer_cancel_execute(i)
  PROVE  AlarmIInv'
<1>1. Typed /\ Resting /\ ~Calling
  BY DEF AlarmIInv, timer_cancel_execute
<1>2. TAR' = TAR /\ alarm' = alarm /\ delay' = 0 /\ owed' = owed
  BY DEF timer_cancel_execute
<1>3. call' = [id |-> i, stores |-> Left(6, 0, Off, 0, 0, NULL)]
  <2>1. Stores(0, Off, Off, 0, 0, NULL) = Left(6, 0, Off, 0, 0, NULL)
    BY LeftEnds
  <2>2. call' = [id |-> i, stores |-> Stores(0, Off, Off, 0, 0, NULL)]
    BY DEF timer_cancel_execute, Off
  <2> QED BY <2>1, <2>2
<1>4. Typed'
  <2>1. 0 \in 0 .. MaxDelay
    BY Constants
  <2> QED BY <1>1, <1>2, <1>3, <2>1 DEF Typed
<1>5. \A j \in AlarmId : Rests(TAR, alarm[j], owed[j])
  BY <1>1 DEF Resting, IsSet
<1>6. Resting'
  BY <1>2, <1>5 DEF Resting
<1>7. BeingCancelled(6, TAR, alarm[i], owed[i])
  BY <1>5 DEF BeingCancelled
<1>8. Cancels'
  <2>1. call'.id = i /\ call'.stores = Left(6, 0, Off, 0, 0, NULL)
    BY <1>3
  <2> QED BY <1>2, <1>7, <2>1, 6 \in 1 .. 6 DEF Cancels
<1> QED BY <1>4, <1>6, <1>8 DEF AlarmIInv, Writing

LEMMA StoreKeeps == AlarmIInv /\ Store => AlarmIInv'
<1> SUFFICES ASSUME AlarmIInv, Store PROVE AlarmIInv'
  OBVIOUS
<1> DEFINE i == call.id
           b == Written(alarm[i], Head(call.stores))
<1>1. Typed /\ Resting /\ Calling /\ (Sets \/ Cancels)
  BY DEF AlarmIInv, Store, Writing
<1>2. i \in AlarmId /\ alarm[i] \in Alarm /\ owed[i] \in Owing
      /\ TAR \in 0 .. TAR_RANGE - 1 /\ delay \in 0 .. MaxDelay
  BY <1>1 DEF Typed
<1>3. /\ TAR' = TAR /\ delay' = delay
      /\ alarm' = [alarm EXCEPT ![i] = b]
      /\ call' = [id |-> i, stores |-> Rest(call.stores)]
  <2>1. call' = [id |-> i, stores |-> Rest(call.stores)]
    BY <1>1 DEF Store, Typed, Rest
  <2> QED BY <2>1 DEF Store
<1>4. call'.id = i /\ call'.stores = Rest(call.stores)
  BY <1>3
<1>5. \A j \in AlarmId : ~IsSet(j)' /\ j # i => Rests(TAR, alarm[j], owed[j])
  BY <1>1 DEF Resting, IsSet
<1> HIDE DEF i, b
\* The slot written, typed and one store on, is all there is to show.
<1>6. ASSUME NEW o \in Owing, owed' = [owed EXCEPT ![i] = o], b \in Alarm,
             \/ call'.stores = <<>> /\ Rests(TAR, b, o)
             \/ /\ call'.stores # <<>>
                /\ Sets' \/ Cancels'
      PROVE  AlarmIInv'
  <2>1. Typed'
    <3>1. alarm' \in [AlarmId -> Alarm] /\ owed' \in [AlarmId -> Owing]
      BY <1>1, <1>3, <1>6 DEF Typed
    <3>2. (call = [id |-> call.id, stores |-> call.stores] /\ call.id \in AlarmId)'
      BY <1>2, <1>3
    <3> QED BY <1>2, <1>3, <3>1, <3>2 DEF Typed
  <2>2. /\ alarm'[i] = b /\ owed'[i] = o
        /\ \A j \in AlarmId : j # i => alarm'[j] = alarm[j] /\ owed'[j] = owed[j]
    BY <1>1, <1>2, <1>3, <1>6 DEF Typed
  <2>3. ASSUME NEW j \in AlarmId, ~IsSet(j)'  PROVE Rests(TAR', alarm'[j], owed'[j])
    <3>1. CASE j # i
      BY <1>3, <1>5, <2>2, <2>3, <3>1
    <3>2. CASE j = i
      <4>1. call'.stores = <<>>
        BY <1>4, <2>3, <3>2 DEF IsSet, Calling
      <4> QED BY <1>3, <1>6, <2>2, <3>2, <4>1
    <3> QED BY <3>1, <3>2
  <2>4. Resting'
    BY <2>3 DEF Resting
  <2>5. Writing'
    BY <1>6 DEF Writing, Calling
  <2> QED BY <2>1, <2>4, <2>5 DEF AlarmIInv
<1>7. CASE Sets
  <2>1. PICK k \in 1 .. 6, at \in 0 .. TAR_RANGE - 1, w \in Wait,
             count \in 0 .. COUNT_RANGE - 1, p \in Wait \cup {0}, fn \in Callback :
          /\ call.stores = Left(k, at, On, count, p, fn)
          /\ BeingSet(k, at, w, count, p, fn, TAR, alarm[i], owed[i], delay)
    BY <1>7 DEF Sets, i
  <2>2. /\ b = Written(alarm[i], Head(Left(k, at, On, count, p, fn)))
        /\ call'.stores = Left(k - 1, at, On, count, p, fn)
    <3>1. Rest(Left(k, at, On, count, p, fn)) = Left(k - 1, at, On, count, p, fn)
      BY LeftTail
    <3> QED BY <1>4, <2>1, <3>1 DEF b
  <2>3. b \in Alarm
    BY <1>2, <2>2, StoreTyped, On \in BOOLEAN DEF On
  <2>4. owed' = [owed EXCEPT ![i] = owed[i]]
    <3>1. Head(call.stores) # <<"TACCTL", FALSE>>
      BY <2>1, EndsOwed, On \in BOOLEAN DEF On
    <3>2. owed' = owed
      BY <3>1 DEF Store
    <3> QED BY <1>1, <3>2 DEF Typed
  <2>5. /\ k > 1 => BeingSet(k - 1, at, w, count, p, fn, TAR, b, owed[i], delay)
        /\ k = 1 => Rests(TAR, b, owed[i])
    BY <1>2, <2>1, <2>2, SettingProceeds
  <2>6. CASE k = 1
    <3>1. call'.stores = <<>>
      BY <2>2, <2>6, LeftEnds, 1 - 1 = 0
    <3> QED BY <1>2, <1>6, <2>3, <2>4, <2>5, <2>6, <3>1
  <2>7. CASE k > 1
    <3>1. k - 1 \in 1 .. 6
      BY <2>7
    <3>2. call'.stores # <<>>
      BY <2>2, <3>1, LeftStep
    <3>3. alarm'[i] = b /\ owed'[i] = owed[i]
      BY <1>1, <1>2, <1>3, <2>4 DEF Typed
    <3>4. BeingSet(k - 1, at, w, count, p, fn, TAR', alarm'[i], owed'[i], delay')
      BY <1>3, <2>5, <2>7, <3>3
    <3>5. Sets'
      BY <1>4, <2>2, <3>1, <3>4 DEF Sets
    <3> QED BY <1>2, <1>6, <2>3, <2>4, <3>2, <3>5
  <2> QED BY <2>6, <2>7
<1>8. CASE Cancels
  <2>1. PICK k \in 1 .. 6 :
          /\ call.stores = Left(k, 0, Off, 0, 0, NULL)
          /\ BeingCancelled(k, TAR, alarm[i], owed[i])
    BY <1>8 DEF Cancels, i
  <2> DEFINE e == IF k = 5 THEN [owed[i] EXCEPT !.left = 0] ELSE owed[i]
  <2>2. /\ b = Written(alarm[i], Head(Left(k, 0, Off, 0, 0, NULL)))
        /\ call'.stores = Left(k - 1, 0, Off, 0, 0, NULL)
    <3>1. Rest(Left(k, 0, Off, 0, 0, NULL)) = Left(k - 1, 0, Off, 0, 0, NULL)
      BY LeftTail
    <3> QED BY <1>4, <2>1, <3>1 DEF b
  <2>3. b \in Alarm
    <3>1. /\ 0 \in 0 .. TAR_RANGE - 1 /\ 0 \in 0 .. COUNT_RANGE - 1
          /\ 0 \in Wait \cup {0} /\ NULL \in Callback \cup {NULL}
      BY Constants
    <3> QED BY <1>2, <2>2, <3>1, StoreTyped, Off \in BOOLEAN DEF Off
  <2>4. owed' = [owed EXCEPT ![i] = e]
    <3>1. Head(call.stores) = <<"TACCTL", FALSE>> <=> k = 5
      BY <2>1, EndsOwed, Off \in BOOLEAN DEF Off
    <3>2. CASE k = 5
      BY <3>1, <3>2, <1>1, <1>2 DEF Store, Typed, i
    <3>3. CASE k # 5
      BY <3>1, <3>3, <1>1, <1>2 DEF Store, Typed, i
    <3> QED BY <3>2, <3>3
  <2>5. e \in Owing
    <3>1. 0 \in {Forever} \cup 0 .. COUNT_RANGE
      BY Constants
    <3>2. [owed[i] EXCEPT !.left = 0] \in Owing
      BY <1>2, <3>1 DEF Owing
    <3> QED BY <1>2, <3>2
  <2>6. /\ k > 1 => BeingCancelled(k - 1, TAR, b, e)
        /\ k = 1 => Rests(TAR, b, e)
    BY <1>2, <2>1, <2>2, CancellingProceeds
  <2> HIDE DEF e
  <2>7. CASE k = 1
    <3>1. call'.stores = <<>>
      BY <2>2, <2>7, LeftEnds, 1 - 1 = 0
    <3> QED BY <1>6, <2>3, <2>4, <2>5, <2>6, <2>7, <3>1
  <2>8. CASE k > 1
    <3>1. k - 1 \in 1 .. 6
      BY <2>8
    <3>2. call'.stores # <<>>
      BY <2>2, <3>1, LeftStep
    <3>3. alarm'[i] = b /\ owed'[i] = e
      BY <1>1, <1>2, <1>3, <2>4 DEF Typed
    <3>4. BeingCancelled(k - 1, TAR', alarm'[i], owed'[i])
      BY <1>3, <2>6, <2>8, <3>3
    <3>5. Cancels'
      BY <1>4, <2>2, <3>1, <3>4 DEF Cancels
    <3> QED BY <1>6, <2>3, <2>4, <2>5, <3>2, <3>5
  <2> QED BY <2>7, <2>8
<1> QED BY <1>1, <1>7, <1>8


\* A handler strikes only a slot at rest that is due, or one that is being
\* cancelled and not disabled yet: never one that is being set.
Struck(i, k) ==
  /\ IsSet(i)
  /\ call.stores = Left(k, 0, Off, 0, 0, NULL)
  /\ BeingCancelled(k, TAR, alarm[i], owed[i])

LEMMA HandlerStrikes ==
  ASSUME NEW i \in AlarmId, AlarmIInv, irq(i)
  PROVE  \/ ~IsSet(i) /\ Rests(TAR, alarm[i], owed[i])
         \/ \E k \in 1 .. 6 : Struck(i, k)
<1>1. Typed /\ Resting /\ Writing /\ alarm[i].CCIE /\ alarm[i].CCIFG
  BY DEF AlarmIInv, irq, Interrupts
<1>2. CASE ~IsSet(i)
  BY <1>1, <1>2 DEF Resting
<1>3. CASE IsSet(i)
  <2>1. call.id = i /\ (Sets \/ Cancels)
    BY <1>1, <1>3 DEF IsSet, Writing
  <2>2. ~Sets
    BY <1>1, <2>1 DEF Sets, BeingSet
  <2>3. Cancels
    BY <2>1, <2>2
  <2> QED BY <1>3, <2>1, <2>3 DEF Cancels, Struck
<1> QED BY <1>2, <1>3

LEMMA HandlerKeeps ==
  ASSUME NEW i \in AlarmId, AlarmIInv, irq(i)
  PROVE  AlarmIInv'
<1> DEFINE b == Handled(alarm[i])
           e == Called(alarm[i], owed[i])
<1>1. Typed /\ Resting /\ Writing /\ alarm[i].CCIE /\ alarm[i].CCIFG
  BY DEF AlarmIInv, irq, Interrupts
<1>2. /\ alarm[i] \in Alarm /\ owed[i] \in Owing
      /\ TAR \in 0 .. TAR_RANGE - 1 /\ delay \in 0 .. MaxDelay
  BY <1>1 DEF Typed
<1>3. alarm' = [alarm EXCEPT ![i] = b] /\ owed' = [owed EXCEPT ![i] = e]
  <2>1. alarm' = [alarm EXCEPT ![i] = b]
    BY DEF irq, Repeats, NextCompare, Handled
  <2>2. owed' = [owed EXCEPT ![i] = e]
    BY DEF irq, Called
  <2> QED BY <2>1, <2>2
<1>4. /\ TAR' = TAR /\ call' = call /\ delay' = delay
      /\ Calling' = Calling /\ \A j \in AlarmId : IsSet(j)' = IsSet(j)
  BY DEF irq, Calling, IsSet
<1>5. Asked(alarm[i], owed[i])
  <2>1. CASE ~IsSet(i) /\ Rests(TAR, alarm[i], owed[i])
    BY <1>1, <2>1 DEF Rests
  <2>2. ASSUME NEW k \in 1 .. 6, Struck(i, k)  PROVE Asked(alarm[i], owed[i])
    BY <1>1, <1>2, <2>2, CancellingOverHandler DEF Struck
  <2> QED BY <2>1, <2>2, HandlerStrikes
<1>6. b \in Alarm /\ e \in Owing
  BY <1>2, <1>5, HandlerCounts DEF HandlerDone
<1>7. Rests(TAR, alarm[i], owed[i]) => Rests(TAR, b, e)
  BY <1>1, <1>2, RestsOverHandler
<1>8. ASSUME NEW k \in 1 .. 6, Struck(i, k)  PROVE BeingCancelled(k, TAR, b, e)
  BY <1>1, <1>2, <1>8, CancellingOverHandler DEF Struck
<1> HIDE DEF b, e
<1>9. /\ alarm'[i] = b /\ owed'[i] = e
      /\ \A j \in AlarmId : j # i => alarm'[j] = alarm[j] /\ owed'[j] = owed[j]
  BY <1>1, <1>3 DEF Typed
<1>10. Typed'
  <2>1. alarm' \in [AlarmId -> Alarm] /\ owed' \in [AlarmId -> Owing]
    BY <1>1, <1>3, <1>6 DEF Typed
  <2> QED BY <1>1, <1>4, <2>1 DEF Typed
<1>11. ASSUME NEW j \in AlarmId, ~IsSet(j)  PROVE Rests(TAR', alarm'[j], owed'[j])
  <2>1. Rests(TAR, alarm[j], owed[j])
    BY <1>1, <1>11 DEF Resting
  <2>2. CASE j = i
    BY <1>4, <1>7, <1>9, <2>1, <2>2
  <2>3. CASE j # i
    BY <1>4, <1>9, <2>1, <2>3
  <2> QED BY <2>2, <2>3
<1>12. Resting'
  BY <1>4, <1>11 DEF Resting
<1>13. ASSUME Calling  PROVE (Sets \/ Cancels)'
  <2>1. CASE IsSet(i)
    <3>1. PICK k \in 1 .. 6 : Struck(i, k)
      BY <2>1, HandlerStrikes
    <3>2. call.id = i /\ call.stores = Left(k, 0, Off, 0, 0, NULL)
      BY <3>1 DEF Struck, IsSet
    <3>3. BeingCancelled(k, TAR', alarm'[i], owed'[i])
      BY <1>4, <1>8, <1>9, <3>1
    <3> QED BY <1>4, <3>2, <3>3 DEF Cancels
  <2>2. CASE ~IsSet(i)
    <3>1. call.id # i /\ call.id \in AlarmId
      BY <1>1, <1>13, <2>2 DEF IsSet, Typed
    <3>2. alarm'[call.id] = alarm[call.id] /\ owed'[call.id] = owed[call.id]
      BY <1>9, <3>1
    <3>3. Sets => Sets'
      BY <1>4, <3>2 DEF Sets
    <3>4. Cancels => Cancels'
      BY <1>4, <3>2 DEF Cancels
    <3> QED BY <1>1, <1>13, <3>3, <3>4 DEF Writing
  <2> QED BY <2>1, <2>2
<1> QED BY <1>4, <1>10, <1>12, <1>13 DEF AlarmIInv, Writing

LEMMA NextKeeps == AlarmIInv /\ [TimerNext]_timerVars => AlarmIInv'
<1> SUFFICES ASSUME AlarmIInv, [TimerNext]_timerVars PROVE AlarmIInv'
  OBVIOUS
<1>1. CASE Tick
  BY <1>1, TickKeeps
<1>2. CASE Store
  BY <1>2, StoreKeeps
<1>3. ASSUME NEW fn \in Callback, NEW w \in Wait, timer_execute_once(fn, w)
      PROVE  AlarmIInv'
  <2>1. 0 \in Wait \cup {0} /\ 0 \in 0 .. COUNT_RANGE - 1
    BY Constants
  <2> QED BY <1>3, <2>1, ExecuteKeeps DEF timer_execute_once
<1>4. ASSUME NEW fn \in Callback, NEW w \in Wait, NEW n \in Count,
             timer_execute_several(fn, w, n)
      PROVE  AlarmIInv'
  <2>1. n \in 0 .. COUNT_RANGE - 1 /\ w \in Wait \cup {0}
    BY CountAssumption
  <2> QED BY <1>4, <2>1, ExecuteKeeps DEF timer_execute_several
<1>5. ASSUME NEW i \in AlarmId, timer_cancel_execute(i)  PROVE AlarmIInv'
  BY <1>5, CancelKeeps
<1>6. ASSUME NEW i \in AlarmId, irq(i)  PROVE AlarmIInv'
  BY <1>6, HandlerKeeps
<1>7. CASE UNCHANGED timerVars
  BY <1>7 DEF timerVars, AlarmIInv, Typed, Resting, Writing, Sets, Cancels, Calling, IsSet
<1> QED BY <1>1, <1>2, <1>3, <1>4, <1>5, <1>6, <1>7 DEF TimerNext, Main

LEMMA AlarmInvariantHolds == TimerSpec => []AlarmIInv
BY InitEstablishes, NextKeeps, PTL DEF TimerSpec

-----------------------------------------------------------------------------
(***************************************************************************)
(* What follows.                                                           *)
(***************************************************************************)
\* The slots in use are those whose alarms are still owed, and each compare value
\* is exactly as far ahead of TAR as asked, whatever handlers strike between the
\* stores of timer_execute_once, timer_execute_several and timer_cancel_execute.
THEOREM AlarmsStayOnTime == TimerSpec => []AlarmsOnTime
<1>1. AlarmIInv => AlarmsOnTime
  <2> SUFFICES ASSUME AlarmIInv PROVE AlarmsOnTime
    OBVIOUS
  <2>1. Typed /\ Resting /\ Writing
    BY DEF AlarmIInv
  <2>2. Len(call.stores) <= 6
    <3>1. CASE ~Calling
      <4>1. Len(<<>>) = 0
        OBVIOUS
      <4> QED BY <3>1, <4>1 DEF Calling
    <3>2. CASE Calling
      <4>1. Sets => FewStores(call.stores)
        BY LeftIsShort DEF Sets
      <4>2. Cancels => FewStores(call.stores)
        BY LeftIsShort DEF Cancels
      <4> QED BY <2>1, <3>2, <4>1, <4>2 DEF Writing, FewStores
    <3> QED BY <3>1, <3>2
  <2>3. TimerTypeOK
    BY <2>1, <2>2 DEF TimerTypeOK, Typed, Owing
  <2>4. SlotsAccounted
    BY <2>1 DEF SlotsAccounted, Resting, Rests, Owed
  <2>5. OnTime
    BY <2>1, Constants DEF OnTime, Resting, Rests, Owed, Ahead
  <2> QED BY <2>3, <2>4, <2>5 DEF AlarmsOnTime
<1> QED BY <1>1, AlarmInvariantHolds, PTL

\* A handler finds a call that is owed, of the function asked for, and not before
\* its time; only the call that is being cancelled may come early.
THEOREM AlarmsAreCalledAsAsked == TimerSpec => CalledAsAsked
<1>1. ASSUME AlarmIInv, NEW i \in AlarmId, irq(i)
      PROVE  /\ Owed(i)
             /\ alarm[i].function = owed[i].function
             /\ \/ owed[i].until <= 0
                \/ IsSet(i) /\ Head(call.stores) = <<"TACCTL", FALSE>>
  <2>1. /\ alarm[i] \in Alarm /\ owed[i] \in Owing /\ TAR \in 0 .. TAR_RANGE - 1
        /\ alarm[i].CCIE /\ alarm[i].CCIFG
    BY <1>1 DEF AlarmIInv, Typed, irq, Interrupts
  <2>2. CASE ~IsSet(i) /\ Rests(TAR, alarm[i], owed[i])
    BY <2>1, <2>2 DEF Rests, Asked, Ahead, Owed
  <2>3. ASSUME NEW k \in 1 .. 6, Struck(i, k)
        PROVE  /\ Asked(alarm[i], owed[i]) /\ owed[i].left # 0
               /\ \/ owed[i].until <= 0
                  \/ IsSet(i) /\ Head(call.stores) = <<"TACCTL", FALSE>>
    <3>1. /\ Asked(alarm[i], owed[i]) /\ owed[i].left # 0
          /\ k = 6 => owed[i].until <= 0
          /\ k >= 5
      BY <2>1, <2>3, CancellingOverHandler DEF Struck
    <3>2. k = 5 => Head(call.stores) = <<"TACCTL", FALSE>>
      BY <2>3, EndsOwed, Off \in BOOLEAN DEF Off, Struck
    <3>3. IsSet(i)
      BY <2>3 DEF Struck
    <3>4. k = 5 \/ k = 6
      BY <3>1
    <3> QED BY <3>1, <3>2, <3>3, <3>4
  <2> QED BY <1>1, <2>2, <2>3, HandlerStrikes DEF Asked, Owed
<1>2. AlarmIInv /\ [TimerNext]_timerVars =>
        [\A i \in AlarmId : irq(i) =>
           /\ Owed(i)
           /\ alarm[i].function = owed[i].function
           /\ \/ owed[i].until <= 0
              \/ IsSet(i) /\ Head(call.stores) = <<"TACCTL", FALSE>>]_timerVars
  BY <1>1
<1> QED BY <1>2, AlarmInvariantHolds, PTL DEF TimerSpec, CalledAsAsked
=============================================================================
