---------------------------- MODULE CallbackTimer ----------------------------
(***************************************************************************)
(* Callback timers of the Contiki port, core/net/rime/ctimer.c: a list of  *)
(* the timers that are set, each with an event timer that belongs to       *)
(* ctimer_process.  When the TIMER event of one of them arrives, the       *)
(* process takes the timer off the list and calls its callback.            *)
(*                                                                         *)
(* The event timers are those of TimerService, which Etimer implements.    *)
(* All calls are made by processes, so each is one step.  ctimer_process   *)
(* runs from ctimer_init on, which the system calls before any timer is    *)
(* set: `initialized' is 1.                                                *)
(***************************************************************************)
EXTENDS Naturals, SequencesExt

CONSTANTS
  Ctimer,       \* the callback timers
  MaxInterval,  \* the longest interval one is set for
  NumEvents     \* free slots of the kernel's event queue

ASSUME MaxIntervalAssumption == MaxInterval \in Nat \ {0}
ASSUME CtimerAssumption == IsFiniteSet(Ctimer)
ASSUME NumEventsAssumption == NumEvents \in Nat \ {0}

VARIABLES
  pending, remaining, events,  \* the event timers of the callback timers
  interval,                    \* etimer.timer.interval of each
  ctimer_list                  \* the list, first element first

Etimers == INSTANCE TimerService WITH Timer <- Ctimer

etimerVars == <<pending, remaining, events>>
ctimerVars == <<etimerVars, interval, ctimer_list>>

Members(list) == {list[i] : i \in DOMAIN list}

CtimerTypeOK ==
  /\ pending \subseteq Ctimer
  /\ remaining \in [Ctimer -> 0 .. MaxInterval]
  /\ events \in Seq(Ctimer) /\ Len(events) <= NumEvents
  /\ interval \in [Ctimer -> 0 .. MaxInterval]
  /\ ctimer_list \in Seq(Ctimer) /\ Len(ctimer_list) <= Cardinality(Ctimer)

CtimerInit ==
  /\ Etimers!Init
  /\ interval = [c \in Ctimer |-> 0]
  /\ ctimer_list = <<>>

-----------------------------------------------------------------------------
\* list.c.
list_remove(list, item) == RemoveFirst(list, item)

\* Mutant: list_push, the new item first.
list_push(list, item) == <<item>> \o list

list_add(list, item) == Append(list, item)

-----------------------------------------------------------------------------
\* How ctimer_set, _reset and _restart end.
ToEndOfList(c) ==
  ctimer_list' = list_add(list_remove(ctimer_list, c), c)

\* A TIMER event of c that is queued already stays queued.
ctimer_set(c, t) ==
  /\ Etimers!Start(c, t)
  /\ interval' = [interval EXCEPT ![c] = t]
  /\ ToEndOfList(c)

\* From the instant the timer expired: what is left of the interval depends
\* on when that was.
ctimer_reset(c) ==
  /\ interval[c] # 0 /\ c \notin pending
  /\ \E left \in 0 .. interval[c] : Etimers!Start(c, left)
  /\ ToEndOfList(c)
  /\ UNCHANGED interval

ctimer_restart(c) ==
  /\ interval[c] # 0
  /\ Etimers!Start(c, interval[c])
  /\ ToEndOfList(c)
  /\ UNCHANGED interval

\* Nor does ctimer_stop take back a TIMER event: that finds c off the list.
ctimer_stop(c) ==
  /\ Etimers!Stop({c})
  /\ ctimer_list' = list_remove(ctimer_list, c)

-----------------------------------------------------------------------------
\* Mutant: ctimer_process looks at the first timer of the list only.
FirstIsCalled(c) == ctimer_list # <<>> /\ Head(ctimer_list) = c

\* ctimer_process finds the timer of an event on its list.
IsCalled(c) == c \in Members(ctimer_list)

\* The event of c is delivered and ctimer_process takes c off the list to call
\* its callback, which does the rest of the step.
Called(c) ==
  /\ events # <<>> /\ Head(events) = c
  /\ IsCalled(c)
  /\ events' = Tail(events)

\* The event of a timer that is not on the list does nothing.
EventIgnored ==
  /\ events # <<>> /\ ~IsCalled(Head(events))
  /\ Etimers!Deliver
  /\ UNCHANGED <<interval, ctimer_list>>

\* The clock and etimer_process.
Clock ==
  /\ \E n \in 1 .. MaxInterval : Etimers!Elapse(n)
  /\ UNCHANGED <<interval, ctimer_list>>

Expire(c) ==
  /\ Etimers!Expire(c)
  /\ UNCHANGED <<interval, ctimer_list>>

-----------------------------------------------------------------------------
\* A timer on the list will be called: its event timer runs, or the TIMER event
\* is queued.  And it is listed once, or its next pointer would lead back to it.
ListedWillBeCalled ==
  /\ \A c \in Members(ctimer_list) : c \in pending \/ c \in Members(events)
  /\ \A i, j \in DOMAIN ctimer_list : ctimer_list[i] = ctimer_list[j] => i = j
=============================================================================
