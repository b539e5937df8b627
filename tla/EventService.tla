---------------------------- MODULE EventService ----------------------------
(***************************************************************************)
(* What sys/event.h promises: posted events are executed one at a time, in *)
(* the order they were posted and each exactly once.  The event being      *)
(* executed still counts against the capacity until it is retired; a post  *)
(* beyond the capacity is lost.  event_init starts the service and forgets *)
(* what was posted before.                                                 *)
(***************************************************************************)
EXTENDS Naturals, Sequences

CONSTANTS
  Capacity,  \* number of events held, the running one included
  Event,     \* what can be posted
  Idle       \* the value of running while no event executes

VARIABLES
  queue,     \* the events held, oldest first
  running,   \* the event being executed, or Idle
  executed,  \* the oldest event has run and only awaits its retirement
  started    \* event_init has run

vars == <<queue, running, executed, started>>

Init ==
  /\ queue = <<>>
  /\ running = Idle
  /\ executed = FALSE
  /\ started = FALSE

Start ==
  /\ ~started
  /\ started' = TRUE
  /\ queue' = <<>>
  /\ UNCHANGED <<running, executed>>

Post(e) ==
  /\ Len(queue) < Capacity
  /\ queue' = Append(queue, e)
  /\ UNCHANGED <<running, executed, started>>

\* Only an event that has not run yet, and only the oldest.
Execute ==
  /\ started
  /\ queue # <<>>
  /\ running = Idle
  /\ ~executed
  /\ running' = Head(queue)
  /\ UNCHANGED <<queue, executed, started>>

Return ==
  /\ running # Idle
  /\ running' = Idle
  /\ executed' = TRUE
  /\ UNCHANGED <<queue, started>>

\* Only an event that has run.
Retire ==
  /\ executed
  /\ queue' = Tail(queue)
  /\ executed' = FALSE
  /\ UNCHANGED <<running, started>>

Next == Start \/ Execute \/ Return \/ Retire \/ \E e \in Event : Post(e)

Spec == Init /\ [][Next]_vars
=============================================================================
