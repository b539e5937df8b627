-------------------------------- MODULE Clock --------------------------------
(***************************************************************************)
(* The clock of the Contiki port, cpu/ez430/clock.c: timera1 counts        *)
(* intervals of Timer A, however late it comes, and the main program reads *)
(* the clock while it may come at any point.  The etimer poll the handler  *)
(* ends with is in Etimer.  Then the passive timers that read the clock.   *)
(***************************************************************************)
EXTENDS Integers, Sequences

CONSTANTS
  TAR_RANGE,     \* number of values of TAR (65536)
  INTERVAL,      \* ticks of TAR in one of the clock (RTIMER_ARCH_SECOND / CLOCK_SECOND)
  COUNT_RANGE,   \* number of values of clock_time_t (65536)
  CLOCK_SECOND,  \* clock ticks in a second (128)
  WORD,          \* number of values of a machine word (65536)
  MaxLag,        \* bound: ticks of TAR an interrupt waits for its handler
  MaxReading       \* bound: ticks of TAR between two readings of `seconds'

ASSUME ClockAssumption ==
  /\ {TAR_RANGE, INTERVAL, COUNT_RANGE, CLOCK_SECOND, WORD, MaxLag, MaxReading} \subseteq Nat \ {0}
  /\ COUNT_RANGE % CLOCK_SECOND = 0
  /\ INTERVAL + MaxLag < TAR_RANGE
  /\ MaxReading + MaxLag < CLOCK_SECOND * INTERVAL

VARIABLES
  tar, TACCR1, CCIFG1,   \* TAR, and CCIFG of TACCTL1
  matched,   \* this TACCR1 has had its compare event
  count, seconds, last_tar,
  reader,    \* main's call: its function, the words it has read
  lag,       \* ticks since the interrupt was raised
  sub,       \* history: ticks of TAR since the last full interval
  behind,    \* history: full intervals that count does not count yet
  missed     \* history: TACCR1 was given the value TAR had just reached

clockVars == <<tar, TACCR1, CCIFG1, matched, count, seconds, last_tar, reader,
               lag, sub, behind, missed>>

NoReader == [f |-> "none", words |-> <<>>, from |-> 0, age |-> 0]

FromTar(x) == (x - tar) % TAR_RANGE

clock_init ==
  /\ tar = 0 /\ TACCR1 = INTERVAL /\ CCIFG1 = FALSE /\ matched = FALSE
  /\ count = 0 /\ seconds = 0 /\ last_tar = 0
  /\ reader = NoReader /\ lag = 0 /\ sub = 0 /\ behind = 0 /\ missed = FALSE

\* Timer A: the compare event comes when TAR reaches TACCR1 or, "HW timer bug", one
\* tick before.
ClockTick ==
  /\ CCIFG1 => lag < MaxLag
  /\ reader.f # "none" => reader.age < MaxReading
  /\ ~missed
  /\ tar' = (tar + 1) % TAR_RANGE
  /\ \/ tar' = TACCR1 /\ ~matched /\ CCIFG1' = TRUE /\ matched' = TRUE
     \/ (tar' + 1) % TAR_RANGE = TACCR1 /\ ~matched /\ CCIFG1' = TRUE /\ matched' = TRUE
     \/ (tar' = TACCR1 => matched) /\ UNCHANGED <<CCIFG1, matched>>
  /\ lag' = IF CCIFG1 THEN lag + 1 ELSE 0
  /\ sub' = (sub + 1) % INTERVAL
  /\ behind' = IF sub + 1 = INTERVAL THEN behind + 1 ELSE behind
  /\ reader' = IF reader.f = "none" THEN reader ELSE [reader EXCEPT !.age = @ + 1]
  /\ UNCHANGED <<TACCR1, count, seconds, last_tar, missed>>

\* Mutant: the handler does not wait for TAR to reach TACCR1.
Enters == TRUE

\* The handler waits while TACCR1 is one tick ahead.
Waited == FromTar(TACCR1) # 1

\* How often the loop adds INTERVAL: until TACCR1 is at most INTERVAL ahead.
Additions ==
  CHOOSE k \in 1 .. TAR_RANGE :
    /\ FromTar(TACCR1 + k * INTERVAL) <= INTERVAL
    /\ \A j \in 1 .. k - 1 : FromTar(TACCR1 + j * INTERVAL) > INTERVAL

\* The seconds that end while count goes through k values.
SecondsIn(k) == ((count % CLOCK_SECOND) + k) \div CLOCK_SECOND

\* A compare value equal to TAR is met when TAR has come round.
timera1 ==
  /\ CCIFG1 /\ Waited
  /\ LET k == Additions IN
       /\ TACCR1' = (TACCR1 + k * INTERVAL) % TAR_RANGE
       /\ count' = (count + k) % COUNT_RANGE
       /\ seconds' = (seconds + SecondsIn(k)) % (WORD * WORD)
       /\ behind' = behind - k
  /\ missed' = (TACCR1' = tar)
  /\ last_tar' = tar
  /\ CCIFG1' = FALSE /\ matched' = FALSE /\ lag' = 0
  /\ UNCHANGED <<tar, reader, sub>>

\* An interrupt comes before main's next step.
ClockMain == ~CCIFG1

Begin(f) ==
  /\ ClockMain /\ reader = NoReader
  /\ reader' = [f |-> f, words |-> <<>>, from |-> seconds, age |-> 0]
  /\ UNCHANGED <<tar, TACCR1, CCIFG1, matched, count, seconds, last_tar, lag, sub, behind, missed>>

Reads(w) == reader' = [reader EXCEPT !.words = Append(@, w)]

Half(i) == IF i % 2 = 0 THEN seconds % WORD ELSE seconds \div WORD

\* t1 and t2, word by word; clock_fine loads last_tar.
ReadWord ==
  /\ ClockMain
  /\ \/ reader.f = "clock_seconds" /\ Len(reader.words) < 4 /\ Reads(Half(Len(reader.words)))
     \/ reader.f = "clock_fine" /\ reader.words = <<>> /\ Reads(last_tar)
  /\ UNCHANGED <<tar, TACCR1, CCIFG1, matched, count, seconds, last_tar, lag, sub, behind, missed>>

FirstReading == reader.words[1] + WORD * reader.words[2]
SecondReading == reader.words[3] + WORD * reader.words[4]

\* Mutant: the value is returned after one reading, as rtc_time does.
ReadOnce == TRUE

ReadingsAgree == FirstReading = SecondReading

\* The loop of clock_seconds: the two readings agree, or are made again.
clock_seconds ==
  /\ ClockMain /\ reader.f = "clock_seconds" /\ Len(reader.words) = 4
  /\ reader' = IF ReadingsAgree THEN NoReader ELSE [reader EXCEPT !.words = <<>>, !.age = 0]
  /\ UNCHANGED <<tar, TACCR1, CCIFG1, matched, count, seconds, last_tar, lag, sub, behind, missed>>

clock_fine ==
  /\ ClockMain /\ reader.f = "clock_fine" /\ reader.words # <<>>
  /\ reader' = NoReader
  /\ UNCHANGED <<tar, TACCR1, CCIFG1, matched, count, seconds, last_tar, lag, sub, behind, missed>>

ClockNext ==
  \/ ClockTick \/ timera1
  \/ \E f \in {"clock_seconds", "clock_fine"} : Begin(f)
  \/ ReadWord \/ clock_seconds \/ clock_fine

-----------------------------------------------------------------------------
(***************************************************************************)
(* Properties.                                                             *)
(***************************************************************************)

\* Between two interrupts the clock is exact: every full interval is counted, and
\* the next interrupt comes at the end of the running one, however late the last
\* handlers came, unless one came exactly a multiple of INTERVAL late.
Exact == ~missed /\ ~CCIFG1 => behind = 0 /\ FromTar(TACCR1) = INTERVAL - sub

\* What clock_seconds returns was the value of seconds during the call, and what
\* clock_fine returns is less than one late interval, or an interval more when the
\* handler came between its two loads.
ReadsTrue ==
  /\ reader.f = "clock_seconds" /\ Len(reader.words) = 4 /\ ReadingsAgree
       => (FirstReading - reader.from) % (WORD * WORD) <= (seconds - reader.from) % (WORD * WORD)
  /\ reader.f = "clock_fine" /\ reader.words # <<>>
       => (tar - reader.words[1]) % TAR_RANGE <= INTERVAL + MaxLag + MaxReading

\* The clock neither loses nor invents time, and is read whole.
ClockKeepsTime == Exact /\ ReadsTrue

-----------------------------------------------------------------------------
(***************************************************************************)
(* The passive timers of core/sys/timer.c, over clock_time(), and of       *)
(* core/sys/stimer.c, over clock_seconds(): a start and an interval, which *)
(* their user compares with a clock that wraps.  Both have the same        *)
(* operations; they tell what has expired in different ways, and that      *)
(* decides how their user may use them.                                    *)
(***************************************************************************)
CONSTANTS
  TIME_RANGE,  \* number of values of the clock (65536 for timer, 2^32 for stimer)
  Interval     \* the intervals asked for

ASSUME IntervalAssumption ==
  /\ TIME_RANGE \in Nat /\ TIME_RANGE >= 4
  /\ \A i \in Interval : i \in Nat \ {0} /\ 2 * i < TIME_RANGE

VARIABLES
  now,    \* the clock
  timer,  \* of each kind, its start and interval
  left    \* history: of each kind, ticks until it expires, negative from then on

timersVars == <<now, timer, left>>

Kind == {"timer", "stimer"}

\* Both are set at the start: their storage means nothing before.
TimersInit ==
  /\ now = 0
  /\ \E i \in Interval :
       /\ timer = [k \in Kind |-> [start |-> 0, interval |-> i]]
       /\ left = [k \in Kind |-> i]

Since(t) == (now - t.start) % TIME_RANGE

\* Mutant: the two times themselves are compared.
HasCome(t) == now >= (t.start + t.interval) % TIME_RANGE

timer_expired(t) == Since(t) >= t.interval

\* SCLOCK_GEQ.
stimer_expired(t) == (now - (t.start + t.interval)) % TIME_RANGE < (TIME_RANGE - 1) \div 2

timer_remaining(t) == ((t.start + t.interval) - now) % TIME_RANGE

Expired(k) == IF k = "timer" THEN timer_expired(timer[k]) ELSE stimer_expired(timer[k])

\* How long a user may leave a timer alone: until the clock has come round to its
\* start, or by half the range, and then it looks unexpired again.
MayPass(k) ==
  IF k = "timer" THEN timer[k].interval - left[k] < TIME_RANGE - 1
  ELSE -left[k] < (TIME_RANGE - 1) \div 2 - 1

TimersTick ==
  /\ \A k \in Kind : MayPass(k)
  /\ now' = (now + 1) % TIME_RANGE
  /\ left' = [k \in Kind |-> left[k] - 1]
  /\ UNCHANGED timer

timer_set(k, i) ==
  /\ timer' = [timer EXCEPT ![k] = [start |-> now, interval |-> i]]
  /\ left' = [left EXCEPT ![k] = i]
  /\ UNCHANGED now

\* A timer that has not expired would start in the future, where timer_expired sees
\* a time long past; a stimer may be reset as far ahead as half the range.
MayReset(k) ==
  IF k = "timer" THEN left[k] <= 0
  ELSE left[k] + timer[k].interval < TIME_RANGE \div 2

timer_reset(k) ==
  /\ MayReset(k)
  /\ timer' = [timer EXCEPT ![k].start = (@ + timer[k].interval) % TIME_RANGE]
  /\ left' = [left EXCEPT ![k] = @ + timer[k].interval]
  /\ UNCHANGED now

timer_restart(k) ==
  /\ timer' = [timer EXCEPT ![k].start = now]
  /\ left' = [left EXCEPT ![k] = timer[k].interval]
  /\ UNCHANGED now

TimersNext ==
  \/ TimersTick
  \/ \E k \in Kind :
       \/ \E i \in Interval : timer_set(k, i)
       \/ timer_reset(k) \/ timer_restart(k)

-----------------------------------------------------------------------------
(***************************************************************************)
(* Properties.                                                             *)
(***************************************************************************)

\* Across wraps of the clock and any sequence of sets, resets that keep the phase
\* and restarts, a timer has expired exactly from the tick it should, and until
\* then tells the time that remains.
TimersTell ==
  \A k \in Kind :
    /\ Expired(k) <=> left[k] <= 0
    /\ left[k] >= 0 => timer_remaining(timer[k]) = left[k]
=============================================================================
