------------------------------- MODULE TimerA -------------------------------
(***************************************************************************)
(* The alarms of the native firmware, drivers/timer.c: each slot of        *)
(* timer_alarms drives one compare register of Timer A.                    *)
(*                                                                         *)
(* The main program sets and cancels alarms with one store after another   *)
(* and without disabling interrupts; timer0irq and timer1irq, which run to *)
(* completion, read and write the same slots at any point between two of   *)
(* these stores.  The counter is 16 bits and never stops.                  *)
(***************************************************************************)
EXTENDS Integers, Sequences

CONSTANTS
  TAR_RANGE,           \* number of values of TAR (65536)
  TIMER_ALARM_NUMBER,  \* slots (3)
  COUNT_RANGE,         \* number of values of period_count (65536)
  Callback,            \* the functions alarms call
  NULL,
  Wait,                \* the delays and periods asked for
  Count,               \* the counts given to timer_execute_several
  MaxDelay,            \* bound: ticks that pass during one call by main
  MaxLag               \* bound: ticks an interrupt waits for its handler

TIMER_COUNT_INFINITE == COUNT_RANGE - 1

ASSUME RangeAssumption ==
  /\ TAR_RANGE \in Nat \ {0} /\ TIMER_ALARM_NUMBER \in Nat \ {0}
  /\ COUNT_RANGE \in Nat \ {0, 1}  \* a count of 0 is not TIMER_COUNT_INFINITE
  /\ MaxDelay \in Nat /\ MaxLag \in 0 .. TAR_RANGE - 1
ASSUME CountAssumption == Count \subseteq 0 .. COUNT_RANGE - 1
ASSUME NullAssumption == NULL \notin Callback
\* An alarm due before the call that sets it has returned meets a slot that is
\* half written; a handler later than a period finds TAR beyond the next compare
\* value.  Both then wait for TAR to come round again.
ASSUME WaitAssumption ==
  \A w \in Wait : w \in Nat /\ MaxDelay < w /\ MaxLag < w /\ w + MaxLag < TAR_RANGE

AlarmId == 0 .. TIMER_ALARM_NUMBER - 1

VARIABLES
  TAR,
  alarm,   \* of each slot, its timer_alarms entry and its channel of Timer A:
           \* TACCR, and the bits CCIE and CCIFG of TACCTL
  call,    \* the slot main writes to, and the stores it has still to do
  delay,   \* ticks since that call began
  owed     \* history: per slot, how many calls of which function are left to
           \* be made, and the ticks until the next one, negative when late

timerVars == <<TAR, alarm, call, delay, owed>>

Forever == -1
Calling == call.stores # <<>>
IsSet(i) == Calling /\ call.id = i
Owed(i) == owed[i].left # 0

Alarm == [TACCR : 0 .. TAR_RANGE - 1, CCIE : BOOLEAN, CCIFG : BOOLEAN,
          active : BOOLEAN, period_count : 0 .. COUNT_RANGE - 1,
          period : Wait \cup {0}, function : Callback \cup {NULL}]

TimerTypeOK ==
  /\ TAR \in 0 .. TAR_RANGE - 1
  /\ alarm \in [AlarmId -> Alarm]
  /\ call.id \in AlarmId /\ Len(call.stores) <= 6
  /\ delay \in 0 .. MaxDelay
  /\ owed \in [AlarmId -> [left : {Forever} \cup 0 .. COUNT_RANGE, until : Int,
                        function : Callback \cup {NULL}]]

\* timer_init and timer_start
timer_init ==
  /\ TAR = 0
  /\ alarm = [i \in AlarmId |->
       [TACCR |-> 0, CCIE |-> FALSE, CCIFG |-> FALSE, active |-> FALSE,
        period_count |-> 0, period |-> 0, function |-> NULL]]
  /\ call = [id |-> 0, stores |-> <<>>]
  /\ delay = 0
  /\ owed = [i \in AlarmId |-> [left |-> 0, until |-> 0, function |-> NULL]]

-----------------------------------------------------------------------------
(***************************************************************************)
(* Timer A.                                                                *)
(***************************************************************************)
Interrupts(i) == alarm[i].CCIE /\ alarm[i].CCIFG

\* The compare flag is set whether or not its interrupt is enabled.
Tick ==
  /\ \A i \in AlarmId : Interrupts(i) /\ Owed(i) => owed[i].until > -MaxLag
  /\ Calling => delay < MaxDelay
  /\ TAR' = (TAR + 1) % TAR_RANGE
  /\ alarm' = [i \in AlarmId |->
       [alarm[i] EXCEPT !.CCIFG = @ \/ alarm[i].TACCR = TAR']]
  /\ delay' = IF Calling THEN delay + 1 ELSE 0
  /\ owed' = [i \in AlarmId |->
       [owed[i] EXCEPT !.until = IF Owed(i) THEN @ - 1 ELSE 0]]
  /\ UNCHANGED call

-----------------------------------------------------------------------------
(***************************************************************************)
(* The main program.                                                       *)
(***************************************************************************)
get_available_slot ==
  CHOOSE i \in AlarmId : /\ ~alarm[i].active
                      /\ \A j \in AlarmId : j < i => alarm[j].active

\* The stores that write a slot, in their order.
Stores(at, enable, act, count, p, fn) ==
  << <<"TACCR", at>>, <<"TACCTL", enable>>, <<"active", act>>,
     <<"period_count", count>>, <<"period", p>>, <<"function", fn>> >>

\* The part before the first store: read TAR, find a slot.
Execute(fn, wait, p, count) ==
  /\ ~Calling
  /\ \E i \in AlarmId : ~alarm[i].active
  /\ call' = [id |-> get_available_slot,
              stores |-> Stores((TAR + wait) % TAR_RANGE, TRUE, TRUE, count, p, fn)]
  /\ owed' = [owed EXCEPT ![get_available_slot] =
       [left |-> IF count = TIMER_COUNT_INFINITE THEN Forever ELSE count + 1,
        until |-> wait, function |-> fn]]
  /\ delay' = 0
  /\ UNCHANGED <<TAR, alarm>>

timer_execute_once(fn, wait) == Execute(fn, wait, 0, 0)
timer_execute_several(fn, p, count) == Execute(fn, p, p, count)

timer_cancel_execute(id) ==
  /\ ~Calling
  /\ call' = [id |-> id, stores |-> Stores(0, FALSE, FALSE, 0, 0, NULL)]
  /\ delay' = 0
  /\ UNCHANGED <<TAR, alarm, owed>>

\* Mutant: the store into TACCTL leaves the flag alone.
EnableOnly(a, store) ==
  IF store[1] = "TACCTL" THEN [a EXCEPT !.CCIE = store[2]]
                         ELSE [a EXCEPT ![store[1]] = store[2]]

\* `TACCTL = CCIE' and `TACCTL = 0' also clear the flag.
Written(a, store) ==
  IF store[1] = "TACCTL" THEN [a EXCEPT !.CCIE = store[2], !.CCIFG = FALSE]
                         ELSE [a EXCEPT ![store[1]] = store[2]]

\* With `TACCTL = 0' an alarm is cancelled: its handler cannot run any more.
Store ==
  /\ Calling
  /\ alarm' = [alarm EXCEPT ![call.id] = Written(@, Head(call.stores))]
  /\ call' = [call EXCEPT !.stores = Tail(@)]
  /\ owed' = IF Head(call.stores) = <<"TACCTL", FALSE>>
             THEN [owed EXCEPT ![call.id].left = 0] ELSE owed
  /\ UNCHANGED <<TAR, delay>>

-----------------------------------------------------------------------------
(***************************************************************************)
(* timer0irq and timer1irq.                                                *)
(***************************************************************************)
Repeats(i) == alarm[i].period_count # 0

\* Mutant: the next period counts from TAR, not from the last compare value.
CompareFromNow(i) == (TAR + alarm[i].period) % TAR_RANGE

NextCompare(i) == (alarm[i].TACCR + alarm[i].period) % TAR_RANGE

\* The count of a slot that is freed wraps to TIMER_COUNT_INFINITE.
CountDown(n) ==
  IF n = TIMER_COUNT_INFINITE THEN n ELSE (n - 1) % COUNT_RANGE

\* With a count of n, the function is called at n + 1 compares.
irq(i) ==
  /\ Interrupts(i)
  /\ alarm' = [alarm EXCEPT ![i] =
       [alarm[i] EXCEPT !.CCIFG = FALSE,
                        !.TACCR = IF Repeats(i) THEN NextCompare(i) ELSE 0,
                        !.CCIE = Repeats(i),
                        !.active = @ /\ Repeats(i),
                        !.period_count = CountDown(@)]]
  /\ owed' = [owed EXCEPT ![i] =
       [owed[i] EXCEPT !.left = IF @ = Forever THEN @ ELSE @ - 1,
                       !.until = IF owed[i].left = 1 THEN 0 ELSE @ + alarm[i].period]]
  /\ UNCHANGED <<TAR, call, delay>>

-----------------------------------------------------------------------------
Main ==
  \/ \E fn \in Callback, w \in Wait :
       \/ timer_execute_once(fn, w)
       \/ \E n \in Count : timer_execute_several(fn, w, n)
  \/ \E i \in AlarmId : timer_cancel_execute(i)
  \/ Store

TimerNext == Tick \/ Main \/ \E i \in AlarmId : irq(i)

TimerSpec == timer_init /\ [][TimerNext]_timerVars

-----------------------------------------------------------------------------
(***************************************************************************)
(* Properties.                                                             *)
(***************************************************************************)

\* The compare value of an alarm that is owed is exactly as far ahead of TAR as
\* the alarm was asked for, across wraps, periods, late handlers and reused
\* slots, and is never passed by more than a handler may be late; but for the slot
\* main is writing, whose compare value timer_cancel_execute clears first.
OnTime ==
  \A i \in AlarmId : Owed(i) /\ ~IsSet(i) =>
    /\ owed[i].until >= -MaxLag
    /\ alarm[i].TACCR = (TAR + owed[i].until) % TAR_RANGE

\* get_available_slot never gives away a slot whose alarm is still to be called,
\* and a slot whose alarm is over comes back.
SlotsAccounted ==
  \A i \in AlarmId : ~IsSet(i) =>
    /\ alarm[i].active <=> Owed(i)
    /\ alarm[i].active <=> alarm[i].CCIE

\* The slots in use are those of the alarms still owed, with their compare values.
AlarmsOnTime == TimerTypeOK /\ SlotsAccounted /\ OnTime

\* A handler calls what was asked for, when and as often as it was asked for: not
\* before, not the function of the slot's former alarm, not once more after the
\* last time, not after timer_cancel_execute has returned.  Only the call that
\* is being cancelled may come early: its compare value is 0 before its
\* interrupt is disabled.
CalledAsAsked ==
  [][\A i \in AlarmId : irq(i) =>
       /\ Owed(i)
       /\ alarm[i].function = owed[i].function
       /\ \/ owed[i].until <= 0
          \/ IsSet(i) /\ Head(call.stores) = <<"TACCTL", FALSE>>]_timerVars
=============================================================================
