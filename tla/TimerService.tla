---------------------------- MODULE TimerService ----------------------------
(***************************************************************************)
(* What core/sys/etimer.h promises: a timer that was set for an interval   *)
(* is pending until that has elapsed; then one TIMER event is queued for   *)
(* it, as soon as the event queue has room.  A timer can be set again or   *)
(* stopped at any time; that does not take back an event already queued.   *)
(***************************************************************************)
EXTENDS Naturals, Sequences

CONSTANTS
  Timer,
  MaxInterval,  \* the longest interval a timer is set for
  NumEvents     \* room for events

VARIABLES
  pending,    \* the timers that run or are due
  remaining,  \* the ticks each of them has still to run
  events      \* the timers whose TIMER event is queued, oldest first

vars == <<pending, remaining, events>>

Init ==
  /\ pending = {}
  /\ remaining = [t \in Timer |-> 0]
  /\ events = <<>>

Elapse(n) ==
  /\ remaining' = [t \in Timer |->
                     IF remaining[t] > n THEN remaining[t] - n ELSE 0]
  /\ UNCHANGED <<pending, events>>

Start(t, n) ==
  /\ pending' = pending \cup {t}
  /\ remaining' = [remaining EXCEPT ![t] = n]
  /\ UNCHANGED events

Stop(stopped) ==
  /\ pending' = pending \ stopped
  /\ remaining' = [t \in Timer |-> IF t \in stopped THEN 0 ELSE remaining[t]]

Expire(t) ==
  /\ t \in pending /\ remaining[t] = 0
  /\ Len(events) < NumEvents
  /\ pending' = pending \ {t}
  /\ events' = Append(events, t)
  /\ UNCHANGED remaining

Deliver ==
  /\ events # <<>>
  /\ events' = Tail(events)
  /\ UNCHANGED <<pending, remaining>>

Next ==
  \/ \E n \in 1 .. MaxInterval : Elapse(n)
  \/ \E t \in Timer :
       \/ \E n \in 0 .. MaxInterval : Start(t, n)
       \/ Expire(t)
  \/ \E stopped \in SUBSET Timer : Stop(stopped) /\ UNCHANGED events
  \/ Deliver

Spec == Init /\ [][Next]_vars
=============================================================================
