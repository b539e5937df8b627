------------------------------- MODULE Rtimer -------------------------------
(***************************************************************************)
(* The real-time tasks of core/sys/rtimer.c over cpu/ez430/rtimer-arch.c:  *)
(* at most one task is pending, next_rtimer, and the compare register      *)
(* TACCR0 of Timer A interrupts once in each round of the counter, whether *)
(* a task is pending or not.  rtimer_set runs in the main program, where   *)
(* the interrupt may come between two of its stores, or in the callback of *)
(* a task, within the interrupt.                                           *)
(***************************************************************************)
EXTENDS Integers

CONSTANTS
  CLOCK_RANGE,  \* number of values of TAR (65536)
  Task,
  NoTask,
  Ahead,        \* how far ahead tasks are set
  MaxDelay      \* bound: ticks that pass during a rtimer_set of main

\* A time that has gone by when rtimer_set returns is met a round later.
ASSUME AheadAssumption ==
  /\ CLOCK_RANGE \in Nat \ {0} /\ MaxDelay \in Nat
  /\ \A a \in Ahead : a \in MaxDelay + 1 .. CLOCK_RANGE - 1
ASSUME NoTaskAssumption == NoTask \notin Task

VARIABLES
  TAR, TACCR0, CCIFG,
  next_rtimer,
  time,      \* of each struct rtimer
  call,      \* main's rtimer_set: where it is, its task and time, and `first'
  delay,     \* ticks since that call began
  asked,     \* history: the task set last that has not been executed
  waited,    \* history: the ticks since it was set
  clean      \* history: it was set with none pending, and no task was
             \* executed in the middle of rtimer_set

rtimerVars ==
  <<TAR, TACCR0, CCIFG, next_rtimer, time, call, delay, asked, waited, clean>>

NoCall == [at |-> "idle", task |-> NoTask, time |-> 0, first |-> FALSE, struck |-> FALSE]

\* rtimer_init: the compare interrupt is enabled once and for all.
RtimerInit ==
  /\ TAR = 0 /\ TACCR0 = 0 /\ CCIFG = FALSE
  /\ next_rtimer = NoTask
  /\ time = [t \in Task |-> 0]
  /\ call = NoCall /\ delay = 0
  /\ asked = NoTask /\ waited = 0 /\ clean = FALSE

\* Timer A.  The handler comes before the next tick and before main's next step.
RtimerTick ==
  /\ ~CCIFG
  /\ call.at # "idle" => delay < MaxDelay
  /\ TAR' = (TAR + 1) % CLOCK_RANGE
  /\ CCIFG' = (TAR' = TACCR0)
  /\ delay' = IF call.at = "idle" THEN 0 ELSE delay + 1
  /\ waited' = IF asked = NoTask THEN 0 ELSE waited + 1
  /\ UNCHANGED <<TACCR0, next_rtimer, time, call, asked, clean>>

(***************************************************************************)
(* rtimer_set in main: the test, the store into next_rtimer, and           *)
(* rtimer_arch_schedule.                                                   *)
(***************************************************************************)
SetTest(t, ahead) ==
  /\ call.at = "idle" /\ ~CCIFG
  /\ call' = [at |-> "store", task |-> t, time |-> (TAR + ahead) % CLOCK_RANGE,
              first |-> next_rtimer = NoTask, struck |-> FALSE]
  /\ delay' = 0
  /\ UNCHANGED <<TAR, TACCR0, CCIFG, next_rtimer, time, asked, waited, clean>>

SetStore ==
  /\ call.at = "store" /\ ~CCIFG
  /\ time' = [time EXCEPT ![call.task] = call.time]
  /\ next_rtimer' = call.task
  /\ call' = IF call.first THEN [call EXCEPT !.at = "schedule"] ELSE NoCall
  /\ asked' = call.task /\ waited' = 0 /\ clean' = FALSE
  /\ UNCHANGED <<TAR, TACCR0, CCIFG, delay>>

SetSchedule ==
  /\ call.at = "schedule" /\ ~CCIFG
  /\ TACCR0' = call.time
  /\ clean' = ~call.struck
  /\ call' = NoCall
  /\ UNCHANGED <<TAR, CCIFG, next_rtimer, time, delay, asked, waited>>

(***************************************************************************)
(* timera0.                                                                *)
(***************************************************************************)

\* Mutant: next_rtimer is cleared behind the call.
ClearedLast(set) == NoTask

\* next_rtimer is cleared before the call, which may set it.
AfterCall(set) == set

\* rtimer_run_next with a callback that sets the task again, or not.
timera0 ==
  /\ CCIFG
  /\ CCIFG' = FALSE
  /\ IF next_rtimer = NoTask
     THEN UNCHANGED <<TACCR0, next_rtimer, time, call, asked, waited, clean>>
     ELSE /\ waited' = 0
          /\ call' = IF call.at = "schedule" THEN [call EXCEPT !.struck = TRUE] ELSE call
          /\ \/ /\ next_rtimer' = AfterCall(NoTask)
                /\ asked' = NoTask /\ clean' = FALSE
                /\ UNCHANGED <<TACCR0, time>>
             \/ \E ahead \in Ahead :
                  /\ time' = [time EXCEPT ![next_rtimer] = (TAR + ahead) % CLOCK_RANGE]
                  /\ next_rtimer' = AfterCall(next_rtimer)
                  /\ TACCR0' = time'[next_rtimer]
                  /\ asked' = next_rtimer
                  /\ clean' = (call.at # "schedule")
  /\ UNCHANGED <<TAR, delay>>

RtimerNext ==
  \/ RtimerTick
  \/ \E t \in Task, ahead \in Ahead : SetTest(t, ahead)
  \/ SetStore
  \/ SetSchedule
  \/ timera0

-----------------------------------------------------------------------------
(***************************************************************************)
(* Properties.                                                             *)
(***************************************************************************)

\* A task is executed at its time if it was set with no other pending and no
\* compare with the last time struck rtimer_set halfway; if not, at some time,
\* but within one round of the counter: no task that was set last is ever
\* forgotten.
TaskExecuted ==
  [][/\ timera0 /\ next_rtimer # NoTask /\ clean => TAR = time[next_rtimer]
     /\ waited' <= CLOCK_RANGE]_rtimerVars
=============================================================================
