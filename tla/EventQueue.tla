----------------------------- MODULE EventQueue -----------------------------
(***************************************************************************)
(* The deferred-event queue of the native firmware, sys/event.c, together  *)
(* with the main loop that drains it: `while (1) { event_process(); LPM0; }'*)
(* in appli/sensorssend and appli/radioprint, the same without LPM0 in     *)
(* tests/state.                                                            *)
(*                                                                         *)
(* Two contexts touch the queue.  Interrupt handlers run to completion     *)
(* between two steps of the main program (the MSP430 does not nest         *)
(* interrupts), and call event_post.  The main program runs event_process, *)
(* whose reads and calls are separate steps here because only event_post   *)
(* and queue_remove are declared `critical'.                               *)
(***************************************************************************)
EXTENDS Integers, Sequences

CONSTANTS
  EVENT_QUEUE_SIZE,  \* number of slots of event_queue
  UsesLPM0,          \* whether the main loop sleeps between two drains
  Event,             \* the (func, data) pairs that get posted
  NoEvent            \* the content of a slot that was never written

ASSUME SizeAssumption == EVENT_QUEUE_SIZE \in Nat \ {0}
ASSUME UsesLPM0Assumption == UsesLPM0 \in BOOLEAN
ASSUME NoEventAssumption == NoEvent \notin Event

VARIABLES
  event_queue,  \* the ring of posted events
  queue_start,  \* index of the oldest one
  queue_len,    \* how many there are
  main,         \* where the main program is
  current       \* the event whose func main is executing, or NoEvent

vars == <<event_queue, queue_start, queue_len, main, current>>

Slot == 0 .. EVENT_QUEUE_SIZE - 1

(***************************************************************************)
(* The points of the main program between which an interrupt is visible.   *)
(*   boot     interrupts are enabled, event_init has not run yet           *)
(*   test     about to evaluate `while (queue_len)'                        *)
(*   call     inside the loop, about to load and call the oldest event     *)
(*   handler  executing the event's func                                   *)
(*   remove   func has returned, queue_remove not yet called               *)
(*   sleep    event_process has returned, LPM0 (if any) not yet executed   *)
(*   asleep   the CPU is off until an interrupt clears the LPM bits        *)
(***************************************************************************)
MainPoint ==
  {"boot", "test", "call", "handler", "remove", "sleep", "asleep"}

\* Inside the body of the while loop of event_process.
InLoop == main \in {"call", "handler", "remove"}

TypeOK ==
  /\ event_queue \in [Slot -> Event \cup {NoEvent}]
  /\ queue_start \in Slot
  /\ queue_len \in 0 .. EVENT_QUEUE_SIZE
  /\ main \in MainPoint
  /\ current \in Event \cup {NoEvent}

-----------------------------------------------------------------------------
(***************************************************************************)
(* The state functions of event.c.                                         *)
(***************************************************************************)

\* Static storage is zeroed before main starts.
Init ==
  /\ event_queue = [i \in Slot |-> NoEvent]
  /\ queue_start = 0
  /\ queue_len = 0
  /\ main = "boot"
  /\ current = NoEvent

\* Mutant: `<=' for `<' in event_post, one event more than there are slots.
PostOneTooMany(e) ==
  /\ IF queue_len <= EVENT_QUEUE_SIZE
     THEN LET queue_pt == (queue_start + queue_len) % EVENT_QUEUE_SIZE
          IN  /\ event_queue' = [event_queue EXCEPT ![queue_pt] = e]
              /\ queue_len' = queue_len + 1
     ELSE UNCHANGED <<event_queue, queue_len>>
  /\ UNCHANGED queue_start

\* event_post: a full queue drops the event without telling anyone.
event_post(e) ==
  /\ IF queue_len < EVENT_QUEUE_SIZE
     THEN LET queue_pt == (queue_start + queue_len) % EVENT_QUEUE_SIZE
          IN  /\ event_queue' = [event_queue EXCEPT ![queue_pt] = e]
              /\ queue_len' = queue_len + 1
     ELSE UNCHANGED <<event_queue, queue_len>>
  /\ UNCHANGED queue_start

\* Mutant: queue_remove gives back the newest slot, not the oldest.
RemoveNewest ==
  /\ queue_len' = queue_len - 1
  /\ UNCHANGED <<event_queue, queue_start>>

\* queue_remove: the slot keeps its stale content.
queue_remove ==
  /\ queue_len' = queue_len - 1
  /\ queue_start' = (queue_start + 1) % EVENT_QUEUE_SIZE
  /\ UNCHANGED event_queue

-----------------------------------------------------------------------------
(***************************************************************************)
(* The main program.                                                       *)
(***************************************************************************)

EventInit ==
  /\ main = "boot"
  /\ queue_start' = 0
  /\ queue_len' = 0
  /\ main' = "test"
  /\ UNCHANGED <<event_queue, current>>

TestQueue ==
  /\ main = "test"
  /\ main' = IF queue_len # 0 THEN "call" ELSE "sleep"
  /\ UNCHANGED <<event_queue, queue_start, queue_len, current>>

CallEvent ==
  /\ main = "call"
  /\ current' = event_queue[queue_start]
  /\ main' = "handler"
  /\ UNCHANGED <<event_queue, queue_start, queue_len>>

\* A func may post follow-up events before it returns.
HandlerPosts(e) ==
  /\ main = "handler"
  /\ event_post(e)
  /\ UNCHANGED <<main, current>>

HandlerReturns ==
  /\ main = "handler"
  /\ current' = NoEvent
  /\ main' = "remove"
  /\ UNCHANGED <<event_queue, queue_start, queue_len>>

RemoveEvent ==
  /\ main = "remove"
  /\ queue_remove
  /\ main' = "test"
  /\ UNCHANGED current

\* Back to event_process: at once in tests/state, after LPM0 elsewhere.
LPM0 ==
  /\ main = "sleep"
  /\ main' = IF UsesLPM0 THEN "asleep" ELSE "test"
  /\ UNCHANGED <<event_queue, queue_start, queue_len, current>>

-----------------------------------------------------------------------------
(***************************************************************************)
(* Interrupts.  A callback that returns non-zero makes its handler execute *)
(* LPM4_EXIT, which clears the sleep bits of the interrupted context: it   *)
(* resumes a main program that sleeps and changes nothing in one that does *)
(* not, even when that one is about to sleep.                              *)
(***************************************************************************)
\* Mutant: the handler returns without LPM4_EXIT.
StayAsleep == main' = main

LPM4_EXIT == main' = IF main = "asleep" THEN "test" ELSE main

\* sample_irq and rx: post one event, return 1.
PostingInterrupt(e) ==
  /\ event_post(e)
  /\ LPM4_EXIT
  /\ UNCHANGED current

\* Any other callback that returns 1, such as the timer tick of a test.
WakingInterrupt ==
  /\ LPM4_EXIT
  /\ UNCHANGED <<event_queue, queue_start, queue_len, current>>

-----------------------------------------------------------------------------
MainStep ==
  \/ EventInit
  \/ TestQueue
  \/ CallEvent
  \/ HandlerReturns
  \/ RemoveEvent
  \/ LPM0

Next ==
  \/ MainStep
  \/ WakingInterrupt
  \/ \E e \in Event : HandlerPosts(e) \/ PostingInterrupt(e)

Spec == Init /\ [][Next]_vars

(***************************************************************************)
(* The CPU keeps executing main while it is awake, handlers return, and a  *)
(* periodic timer alarm whose callback returns 1 keeps interrupting it     *)
(* (sensorssend arms one for its whole life).                              *)
(***************************************************************************)
Fairness == WF_vars(MainStep) /\ WF_vars(WakingInterrupt)

-----------------------------------------------------------------------------
(***************************************************************************)
(* Properties.                                                             *)
(***************************************************************************)

\* The event main executes is still the oldest one of the queue: no post, from
\* an interrupt or from the handler itself, has reused its slot (event_process
\* removes the entry only after the call).
RunningEntryStable ==
  /\ main = "handler" <=> current # NoEvent
  /\ main = "handler" => queue_len > 0 /\ event_queue[queue_start] = current

\* event_process never calls a slot nobody filled, and queue_remove never
\* takes an entry out of an empty queue.
LoopHasEntry == InLoop => queue_len > 0

\* Every index event_post can choose is outside the live part of the ring.
LiveEntriesAreEvents ==
  \A i \in 0 .. queue_len - 1 :
    event_queue[(queue_start + i) % EVENT_QUEUE_SIZE] \in Event

IInv == TypeOK /\ LoopHasEntry /\ RunningEntryStable /\ LiveEntriesAreEvents

\* The ring read from its oldest entry.
Waiting ==
  [i \in 1 .. queue_len |->
     event_queue[(queue_start + (i - 1)) % EVENT_QUEUE_SIZE]]

Service == INSTANCE EventService WITH
  Capacity <- EVENT_QUEUE_SIZE,
  Idle <- NoEvent,
  queue <- Waiting,
  running <- current,
  executed <- main = "remove",
  started <- main # "boot"

\* The ring, its two counters and the call-then-remove loop, interrupted at any
\* point by event_post, execute every accepted event once and in order.
ImplementsService == Service!Spec

\* A full queue drops only the new event: the entries that wait, and the one
\* that runs, stay what they were until queue_remove takes the oldest.
EntriesKept ==
  [][main # "boot" =>
       \/ Service!Retire
       \/ /\ queue_len' >= queue_len
          /\ SubSeq(Waiting', 1, queue_len) = Waiting]_vars

\* Once the loop runs, an event that waits is eventually executed: sleeping
\* with a non-empty queue (an interrupt between the test of queue_len and
\* LPM0) lasts only until the next interrupt.
IsWaiting(e) ==
  /\ main # "boot"
  /\ \E i \in 1 .. queue_len :
       Waiting[i] = e /\ (i = 1 => main # "remove")

WaitingEventRuns == \A e \in Event : IsWaiting(e) ~> current = e
=============================================================================
