-------------------------------- MODULE Rtc --------------------------------
(***************************************************************************)
(* The real-time clock of the native firmware, drivers/rtc.c: a counter of *)
(* seconds and a list of alarms, driven by Timer B.  The program of        *)
(* tests/rtc sets an alarm from main; an alarm's callback, in interrupt    *)
(* context, may set the same alarm again.  timerb0irq can strike between   *)
(* any two steps of a call by main, but a call takes less than two ticks   *)
(* of ACLK; main calls the handler itself, too.                            *)
(***************************************************************************)
EXTENDS Integers, FiniteSets

CONSTANTS
  Alarm,              \* the rtc_alarm objects
  NoAlarm,            \* the null pointer, not in Alarm
  Delay,              \* how far ahead of rtc_time() alarms are set: natural numbers
  DEFAULT_FREQUENCY,  \* ticks of ACLK in a second, less one
  Frequency,          \* those given to rtc_set_aclk_frequency
  Time,               \* the seconds given to rtc_set_time
  MaxElapsed,         \* bound: the seconds given to rtc_resume
  MaxTime             \* bound: the last second looked at

ASSUME FrequencyAssumption == Frequency \cup {DEFAULT_FREQUENCY} \subseteq Nat \ {0}
ASSUME AlarmAssumption ==
  /\ NoAlarm \notin Alarm
  /\ Delay \cup Time \subseteq Nat /\ {MaxElapsed, MaxTime} \subseteq Nat

VARIABLES
  tbr, TBCCR0, MC_UPTO_CCR0, \* Timer B: TBR, its last value, whether it counts
  TBIFG,                     \* CCIFG of TBCCTL0
  frequency,
  time_seconds,
  next_alarm, alarm_next,    \* the list
  date,                      \* of each alarm
  setting,                   \* the alarm main is setting, or NoAlarm
  tested,                    \* main has seen that its date is in the future
  doing,                     \* how far another call by main has got
  elapsed_left,              \* calls of the handler that rtc_resume has still to make
  ticked,                    \* a tick has passed since main's call began
  hung,                      \* the search for the right position does not end
  pending,                   \* history: set for the future and not called back yet
  skipped,                   \* history: of those, the ones whose date was passed over
  untold,                    \* history: seconds that are over and not in time_seconds
  spoilt                     \* history: the frequency was changed where it cannot be told
                             \* from TBR whether the second has been counted

timerVars == <<tbr, TBCCR0, MC_UPTO_CCR0, TBIFG, frequency, untold, spoilt>>
alarmVars == <<next_alarm, alarm_next, date, hung, pending, skipped>>
callVars == <<setting, tested, doing, elapsed_left, ticked>>
rtcVars == <<timerVars, time_seconds, alarmVars, callVars>>

\* rtc_init
RtcInit ==
  /\ tbr = 0 /\ TBCCR0 = DEFAULT_FREQUENCY /\ MC_UPTO_CCR0 = TRUE /\ TBIFG = FALSE
  /\ frequency = DEFAULT_FREQUENCY
  /\ untold = 0 /\ spoilt = FALSE
  /\ time_seconds = 0
  /\ next_alarm = NoAlarm /\ alarm_next = [a \in Alarm |-> NoAlarm]
  /\ date = [a \in Alarm |-> 0]
  /\ hung = FALSE /\ pending = {} /\ skipped = {}
  /\ setting = NoAlarm /\ tested = FALSE
  /\ doing = "nothing" /\ elapsed_left = 0 /\ ticked = FALSE

InCall == setting # NoAlarm \/ doing # "nothing"

\* An interrupt comes before main's next step.
MayBegin == ~TBIFG /\ ~InCall /\ ~hung

-----------------------------------------------------------------------------
\* Where the search of rtc_set_alarm is after i steps, and where it stops.
Search(a, dates, links) ==
  LET at[i \in 0 .. Cardinality(Alarm)] ==
        IF i = 0 THEN next_alarm
        ELSE IF links[at[i - 1]] # NoAlarm /\ dates[at[i - 1]] < dates[a]
             THEN links[at[i - 1]]
             ELSE at[i - 1]
  IN  at[Cardinality(Alarm)]
StopsAt(t, a, dates, links) == ~ (links[t] # NoAlarm /\ dates[t] < dates[a])

\* rtc_set_alarm once the date is known to be in the future, its `next' being
\* null in `links'.  A new first alarm becomes its own successor.
Insert(a, dates, links) ==
  IF next_alarm = NoAlarm \/ dates[next_alarm] > dates[a]
  THEN /\ next_alarm' = a
       /\ alarm_next' = [links EXCEPT ![a] = a]
       /\ UNCHANGED hung
  ELSE LET t == Search(a, dates, links)
           after == [links EXCEPT ![a] = links[t]]
       IN  /\ hung' = ~ StopsAt(t, a, dates, links)
           /\ alarm_next' = IF hung' THEN links ELSE [after EXCEPT ![t] = a]
           /\ UNCHANGED next_alarm

Unlinked(a) == [alarm_next EXCEPT ![a] = NoAlarm]

\* main: alarm.date = rtc_time() + d; rtc_set_alarm(&alarm).
SetAlarm(a, d) ==
  /\ MayBegin /\ a \notin pending
  /\ setting' = a
  /\ ticked' = FALSE
  /\ date' = [date EXCEPT ![a] = time_seconds + d]
  /\ alarm_next' = Unlinked(a)
  /\ UNCHANGED <<timerVars, time_seconds, next_alarm, hung, pending, skipped,
                 tested, doing, elapsed_left>>

\* `if date in the past, call now'
TestDate ==
  /\ setting # NoAlarm /\ ~tested /\ ~TBIFG
  /\ IF date[setting] <= time_seconds
     THEN setting' = NoAlarm /\ UNCHANGED tested
     ELSE tested' = TRUE /\ UNCHANGED setting
  /\ UNCHANGED <<timerVars, time_seconds, alarmVars, doing, elapsed_left, ticked>>

\* The second may have come meanwhile: the alarm is placed all the same.
PlaceAlarm ==
  /\ setting # NoAlarm /\ tested /\ ~TBIFG
  /\ Insert(setting, date, alarm_next)
  /\ setting' = NoAlarm
  /\ tested' = FALSE
  /\ pending' = pending \cup {setting}
  /\ skipped' = IF date[setting] <= time_seconds THEN skipped \cup {setting} ELSE skipped
  /\ UNCHANGED <<timerVars, time_seconds, date, doing, elapsed_left, ticked>>

-----------------------------------------------------------------------------
(***************************************************************************)
(* timerb0irq, as an interrupt and called by main.                         *)
(***************************************************************************)
DueAlarm == next_alarm # NoAlarm /\ date[next_alarm] = time_seconds + 1

\* It calls back an alarm that is not set again.
Rings ==
  /\ pending' = pending \ {next_alarm} /\ skipped' = skipped \ {next_alarm}
  /\ next_alarm' = alarm_next[next_alarm]
  /\ UNCHANGED <<alarm_next, date, hung>>

\* It calls back an alarm that sets itself again before it is taken off the
\* list.  next_alarm does not move: `next_alarm->date > alarm->date' compares
\* the alarm with itself.
RingsAgain(d) ==
  LET a == next_alarm
  IN  /\ d > 0
      /\ date' = [date EXCEPT ![a] = time_seconds + 1 + d]
      /\ alarm_next' = [Unlinked(a) EXCEPT ![a] = a]
      /\ next_alarm' = a
      /\ pending' = pending \cup {a} /\ skipped' = skipped \ {a}
      /\ UNCHANGED hung

timerb0irq ==
  /\ ~hung /\ time_seconds < MaxTime
  /\ time_seconds' = time_seconds + 1
  /\ \/ ~DueAlarm /\ UNCHANGED alarmVars
     \/ DueAlarm /\ Rings
     \/ DueAlarm /\ \E d \in Delay : RingsAgain(d)

\* Counted once; in a second that is spoilt it is not looked at.
Told == untold' = IF spoilt THEN 0 ELSE untold - 1

Interrupt ==
  /\ TBIFG /\ TBIFG' = FALSE
  /\ timerb0irq /\ Told
  /\ UNCHANGED <<tbr, TBCCR0, MC_UPTO_CCR0, frequency, spoilt, callVars>>

\* Timer B counts up to TBCCR0; a TBR that is beyond it rolls over without a flag,
\* perhaps after one count more.  The handler is done before the next second is.
Tick ==
  /\ MC_UPTO_CCR0 /\ ~hung
  /\ InCall => ~ticked
  /\ \/ tbr < TBCCR0 /\ tbr' = tbr + 1
     \/ tbr >= TBCCR0 /\ tbr' = 0
     \/ tbr > TBCCR0 /\ tbr' = tbr + 1
  /\ LET over == tbr' = TBCCR0 /\ tbr < TBCCR0
     IN /\ over => ~TBIFG
        /\ TBIFG' = (TBIFG \/ over)
        /\ spoilt' = (spoilt \/ tbr > TBCCR0)
        /\ untold' = IF spoilt' THEN 0 ELSE IF over THEN untold + 1 ELSE untold
  /\ ticked' = InCall
  /\ UNCHANGED <<TBCCR0, MC_UPTO_CCR0, frequency, time_seconds, alarmVars, setting, tested,
                 doing, elapsed_left>>

-----------------------------------------------------------------------------
\* rtc_set_aclk_frequency, store by store.  At TBR = TBCCR0 the second has been
\* counted, and the next begins only with the next tick; whether a new TBCCR0 that
\* equals TBR is taken for reached is up to the timer.
rtc_set_aclk_frequency(freq) ==
  /\ MayBegin
  /\ TBCCR0' = freq
  /\ doing' = "compare" /\ ticked' = FALSE
  /\ spoilt' = (spoilt \/ tbr = TBCCR0 \/ tbr = freq)
  /\ untold' = IF spoilt' THEN 0 ELSE IF tbr > freq THEN untold + 1 ELSE untold
  /\ UNCHANGED <<tbr, MC_UPTO_CCR0, TBIFG, frequency, time_seconds, alarmVars, setting,
                 tested, elapsed_left>>

\* A mutant: the second that is over is not counted.
ResetOnly ==
  /\ doing = "compare" /\ ~TBIFG
  /\ tbr' = IF tbr > TBCCR0 THEN 0 ELSE tbr
  /\ doing' = "frequency"
  /\ UNCHANGED <<TBCCR0, MC_UPTO_CCR0, TBIFG, frequency, untold, spoilt, time_seconds,
                 alarmVars, setting, tested, elapsed_left, ticked>>

\* `reset and increment seconds'
ComparePeriod ==
  /\ doing = "compare" /\ ~TBIFG
  /\ IF tbr > TBCCR0
     THEN tbr' = 0 /\ timerb0irq /\ Told
     ELSE UNCHANGED <<tbr, untold, time_seconds, alarmVars>>
  /\ doing' = "frequency"
  /\ UNCHANGED <<TBCCR0, MC_UPTO_CCR0, TBIFG, frequency, spoilt, setting, tested,
                 elapsed_left, ticked>>

StoreFrequency ==
  /\ doing = "frequency" /\ ~TBIFG
  /\ frequency' = TBCCR0 /\ doing' = "nothing"
  /\ UNCHANGED <<tbr, TBCCR0, MC_UPTO_CCR0, TBIFG, untold, spoilt, time_seconds, alarmVars,
                 setting, tested, elapsed_left, ticked>>

\* Alarms whose date is jumped over are not called any more.
rtc_set_time(seconds) ==
  /\ MayBegin
  /\ time_seconds' = seconds
  /\ skipped' = skipped \cup {a \in pending : date[a] <= seconds}
  /\ spoilt' = FALSE
  /\ UNCHANGED <<tbr, TBCCR0, MC_UPTO_CCR0, TBIFG, frequency, untold, next_alarm,
                 alarm_next, date, hung, pending, callVars>>

rtc_halt ==
  /\ MayBegin
  /\ MC_UPTO_CCR0' = FALSE /\ tbr' = 0
  /\ UNCHANGED <<TBCCR0, TBIFG, frequency, untold, spoilt, time_seconds, alarmVars, callVars>>

\* After a halt, which lasted `elapsed' seconds.
rtc_resume(elapsed) ==
  /\ MayBegin /\ ~MC_UPTO_CCR0
  /\ doing' = "resume" /\ elapsed_left' = elapsed
  /\ untold' = IF spoilt THEN 0 ELSE untold + elapsed
  /\ UNCHANGED <<tbr, TBCCR0, MC_UPTO_CCR0, TBIFG, frequency, spoilt, time_seconds,
                 alarmVars, setting, tested, ticked>>

ResumeLoop ==
  /\ doing = "resume" /\ elapsed_left > 0
  /\ timerb0irq /\ Told
  /\ elapsed_left' = elapsed_left - 1
  /\ UNCHANGED <<tbr, TBCCR0, MC_UPTO_CCR0, TBIFG, frequency, spoilt, setting, tested,
                 doing, ticked>>

StartTimer ==
  /\ doing = "resume" /\ elapsed_left = 0
  /\ tbr' = 0 /\ TBCCR0' = frequency /\ MC_UPTO_CCR0' = TRUE /\ TBIFG' = FALSE
  /\ doing' = "nothing"
  /\ UNCHANGED <<frequency, untold, spoilt, time_seconds, alarmVars, setting, tested,
                 elapsed_left, ticked>>

-----------------------------------------------------------------------------
RtcNext ==
  \/ \E a \in Alarm, d \in Delay : SetAlarm(a, d)
  \/ TestDate \/ PlaceAlarm
  \/ Tick \/ Interrupt
  \/ \E freq \in Frequency : rtc_set_aclk_frequency(freq)
  \/ ComparePeriod \/ StoreFrequency
  \/ \E seconds \in Time : rtc_set_time(seconds)
  \/ rtc_halt
  \/ \E elapsed \in 0 .. MaxElapsed : rtc_resume(elapsed)
  \/ ResumeLoop \/ StartTimer

RtcSpec == RtcInit /\ [][RtcNext]_rtcVars

-----------------------------------------------------------------------------
(***************************************************************************)
(* Properties.                                                             *)
(***************************************************************************)

\* The alarms on the list.
Reachable ==
  LET at[i \in 0 .. Cardinality(Alarm)] ==
        IF i = 0 THEN next_alarm
        ELSE IF at[i - 1] = NoAlarm THEN NoAlarm ELSE alarm_next[at[i - 1]]
  IN  {at[i] : i \in 0 .. Cardinality(Alarm)}

\* `if alarm is the next, place it' and `find the right position' in
\* rtc_set_alarm: setting an alarm puts it on the list and keeps the others there.
SetAlarmsAreListed == ~hung /\ pending \subseteq Reachable

\* Each second is counted once, by the interrupt, by a change of the frequency in the
\* middle of it or by rtc_resume; no alarm's date goes by without a call, unless the
\* second came while main was setting it or main set the clock past it.
RtcKeepsTime ==
  /\ ~spoilt /\ ~TBIFG /\ ~InCall => untold = 0
  /\ \A a \in pending \ skipped : date[a] > time_seconds
=============================================================================
