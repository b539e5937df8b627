------------------------------- MODULE Etimer -------------------------------
(***************************************************************************)
(* Event timers of the Contiki port: core/sys/etimer.c and core/sys/timer.c*)
(* over the tick interrupt of cpu/ez430/clock.c.                           *)
(*                                                                         *)
(* The tick interrupt compares the cached next_expiration with the clock   *)
(* and polls etimer_process; etimer_process, when polled, scans the list   *)
(* and posts PROCESS_EVENT_TIMER for what has expired, one post per step   *)
(* because ticks keep arriving meanwhile.  The clock is CLOCK_RANGE ticks  *)
(* wide and wraps (clock_time_t is 16 bits), so every comparison is one of *)
(* distances modulo CLOCK_RANGE.                                           *)
(*                                                                         *)
(* Of the kernel this module keeps the poll request of etimer_process and  *)
(* the queue of TIMER events (see ProcessKernel for both).                 *)
(***************************************************************************)
EXTENDS Integers, Sequences, FiniteSets

CONSTANTS
  CLOCK_RANGE,     \* number of values of clock_time_t (65536)
  Timer,           \* the etimer structures
  Process,         \* the processes that use them
  User,            \* which process uses which timer
  Interval,        \* the intervals they are set to
  PROCESS_NONE,    \* no process
  NumEvents,       \* free slots of the kernel's event queue
  MaxCatchUp,      \* bound: ticks one interrupt accounts for
  MaxLag,          \* bound: ticks within which main serves a poll
  Mortal           \* the processes that exit while they have timers

MAX_TICKS == (CLOCK_RANGE - 1) \div 2

ASSUME ClockAssumption == CLOCK_RANGE \in Nat /\ CLOCK_RANGE >= 4
ASSUME TimerAssumption == IsFiniteSet(Timer)
ASSUME UserAssumption == User \in [Timer -> Process] /\ PROCESS_NONE \notin Process
\* A timer whose interval, plus the time main may take to look at it, exceeds
\* the range of the clock looks unexpired again.
ASSUME IntervalAssumption ==
  \A i \in Interval \cup {0} : i \in Nat /\ i + MaxLag + MaxCatchUp < CLOCK_RANGE
ASSUME BoundAssumption ==
  MaxCatchUp \in Nat \ {0} /\ MaxLag \in Nat /\ NumEvents \in Nat \ {0}
ASSUME MortalAssumption == Mortal \subseteq Process

VARIABLES
  count,            \* the clock
  start, interval,  \* timer.start and timer.interval of each etimer
  p,                \* its p
  timerlist,        \* the list, first element first
  next_expiration,
  polled,           \* etimer_process has been asked to poll
  scan,             \* how far its scan of the list is, or Idle
  events,           \* TIMER events queued, oldest first
  alive,            \* the processes that run
  age               \* history: true ticks since start, up to MaxAge

timerVars == <<start, interval, p, timerlist, next_expiration>>
vars == <<count, timerVars, polled, scan, events, alive, age>>

Idle == 0
MaxAge == 2 * CLOCK_RANGE

Clock == 0 .. CLOCK_RANGE - 1
Listed == {timerlist[i] : i \in DOMAIN timerlist}

TypeOK ==
  /\ count \in Clock
  /\ start \in [Timer -> Clock]
  /\ interval \in [Timer -> Interval \cup {0}]
  /\ p \in [Timer -> Process \cup {PROCESS_NONE}]
  /\ timerlist \in Seq(Timer)
  /\ Len(timerlist) <= Cardinality(Timer)
  /\ next_expiration \in Clock
  /\ polled \in BOOLEAN
  /\ scan \in 0 .. Cardinality(Timer) + 1
  /\ Len(events) <= NumEvents
  /\ alive \subseteq Process
  /\ age \in [Timer -> 0 .. MaxAge]

\* etimer_process has run its first PROCESS_YIELD.
Init ==
  /\ count \in {0, CLOCK_RANGE - 2}
  /\ start = [t \in Timer |-> 0]
  /\ interval = [t \in Timer |-> 0]
  /\ p = [t \in Timer |-> PROCESS_NONE]
  /\ timerlist = <<>>
  /\ next_expiration = 0
  /\ polled = FALSE
  /\ scan = Idle
  /\ events = <<>>
  /\ alive = Process
  /\ age = [t \in Timer |-> 0]

-----------------------------------------------------------------------------
(***************************************************************************)
(* timer.c and the helpers of etimer.c.                                    *)
(***************************************************************************)
Wrap(n) == n % CLOCK_RANGE

\* Mutant: the expiration time compared with the clock, which ignores the wrap.
ExpiredAbsolute(t) == count >= Wrap(start[t] + interval[t])

timer_expired(t) == Wrap(count - start[t]) >= interval[t]

\* update_time: the expiration nearest in the future.
update_time(list, st, iv) ==
  IF list = <<>> THEN 0
  ELSE LET away == {Wrap(st[list[i]] + iv[list[i]] - count) :
                      i \in DOMAIN list}
       IN  Wrap(count + CHOOSE d \in away : \A e \in away : d <= e)

\* What is left of the list without the timers of a set, in the same order.
Without(list, set) ==
  LET kept == {i \in DOMAIN list : list[i] \notin set}
  IN  [k \in 1 .. Cardinality(kept) |->
         list[CHOOSE i \in kept : Cardinality({j \in kept : j <= i}) = k]]

\* add_timer, called by process q after start and interval were changed: a
\* timer already on the list keeps its place and its p.
add_timer(t, q) ==
  /\ polled' = TRUE
  /\ IF p[t] # PROCESS_NONE /\ t \in Listed
     THEN UNCHANGED <<p, timerlist>>
     ELSE p' = [p EXCEPT ![t] = q] /\ timerlist' = <<t>> \o timerlist
  /\ next_expiration' = update_time(timerlist', start', interval')

-----------------------------------------------------------------------------
(***************************************************************************)
(* The tick interrupt.                                                     *)
(***************************************************************************)
Overdue(t) == t \in Listed /\ age[t] >= interval[t]

\* Main serves a poll before MaxLag ticks have passed; without a poll nothing
\* makes it look.
InTime ==
  polled \/ scan # Idle =>
    \A t \in Timer : Overdue(t) => age[t] < interval[t] + MaxLag

\* Mutant: the expiration compared with `==', missed when ticks are caught up.
PollAtExactly(now) ==
  polled' = (polled \/ (timerlist # <<>> /\ next_expiration = now))

\* `etimer_next_expiration_time() - count - 1 > MAX_TICKS'
PollIfExpired(now) ==
  polled' = (polled \/ /\ timerlist # <<>>
                       /\ Wrap(next_expiration - now - 1) > MAX_TICKS)

\* Off the list an age matters only to etimer_reset.
Older(t, n) ==
  LET most == IF t \in Listed THEN MaxAge ELSE interval[t] + MaxLag + 1
  IN  IF age[t] + n > most THEN most ELSE age[t] + n

timera1(n) ==
  /\ InTime
  /\ count' = Wrap(count + n)
  /\ PollIfExpired(count')
  /\ age' = [t \in Timer |-> Older(t, n)]
  /\ UNCHANGED <<timerVars, scan, events, alive>>

-----------------------------------------------------------------------------
(***************************************************************************)
(* etimer_process.                                                         *)
(***************************************************************************)

\* do_poll calls etimer_process; `again:'.
BeginScan ==
  /\ scan = Idle /\ polled
  /\ polled' = FALSE
  /\ scan' = 1
  /\ UNCHANGED <<count, timerVars, events, alive, age>>

\* Mutant: the loop ends at a timer that has not expired, as if the list were
\* sorted.
StopAtUnexpired ==
  /\ scan \in DOMAIN timerlist
  /\ LET t == timerlist[scan] IN
     IF timer_expired(t) /\ Len(events) < NumEvents
     THEN /\ events' = Append(events, [to |-> p[t], et |-> t])
          /\ p' = [p EXCEPT ![t] = PROCESS_NONE]
          /\ timerlist' = Without(timerlist, {t})
          /\ next_expiration' = update_time(timerlist', start, interval)
          /\ scan' = 1
          /\ UNCHANGED polled
     ELSE /\ polled' = (polled \/ timer_expired(t))
          /\ scan' = IF timer_expired(t) THEN scan + 1 ELSE Len(timerlist) + 1
          /\ UNCHANGED <<events, p, timerlist, next_expiration>>
  /\ UNCHANGED <<count, start, interval, alive, age>>

\* One iteration of the loop over timerlist.  A post that fails asks for
\* another poll; one that succeeds starts the loop again.
ScanTimer ==
  /\ scan \in DOMAIN timerlist
  /\ LET t == timerlist[scan] IN
     IF timer_expired(t) /\ Len(events) < NumEvents
     THEN /\ events' = Append(events, [to |-> p[t], et |-> t])
          /\ p' = [p EXCEPT ![t] = PROCESS_NONE]
          /\ timerlist' = Without(timerlist, {t})
          /\ next_expiration' = update_time(timerlist', start, interval)
          /\ scan' = 1
          /\ UNCHANGED polled
     ELSE /\ polled' = (polled \/ timer_expired(t))
          /\ scan' = scan + 1
          /\ UNCHANGED <<events, p, timerlist, next_expiration>>
  /\ UNCHANGED <<count, start, interval, alive, age>>

EndScan ==
  /\ scan = Len(timerlist) + 1
  /\ scan' = Idle
  /\ UNCHANGED <<count, timerVars, polled, events, alive, age>>

\* do_event: an event for a process that has ended is dropped.
DeliverEvent ==
  /\ scan = Idle
  /\ events # <<>>
  /\ events' = Tail(events)
  /\ UNCHANGED <<count, timerVars, polled, scan, alive, age>>

-----------------------------------------------------------------------------
(***************************************************************************)
(* What processes do with their timers, between two calls by the kernel.   *)
(***************************************************************************)
MayUse(t) == scan = Idle /\ User[t] \in alive

etimer_set(t, i) ==
  /\ MayUse(t)
  /\ interval' = [interval EXCEPT ![t] = i]
  /\ start' = [start EXCEPT ![t] = count]
  /\ age' = [age EXCEPT ![t] = 0]
  /\ UNCHANGED <<count, scan, events, alive>>
  /\ add_timer(t, User[t])

\* From the instant the timer last expired, so only after it did, and within
\* MaxLag ticks.
etimer_reset(t) ==
  /\ MayUse(t)
  /\ t \notin Listed /\ interval[t] # 0
  /\ age[t] \in interval[t] .. interval[t] + MaxLag
  /\ start' = [start EXCEPT ![t] = Wrap(start[t] + interval[t])]
  /\ age' = [age EXCEPT ![t] = age[t] - interval[t]]
  /\ UNCHANGED <<count, interval, scan, events, alive>>
  /\ add_timer(t, User[t])

etimer_restart(t) ==
  /\ MayUse(t)
  /\ interval[t] # 0
  /\ start' = [start EXCEPT ![t] = count]
  /\ age' = [age EXCEPT ![t] = 0]
  /\ UNCHANGED <<count, interval, scan, events, alive>>
  /\ add_timer(t, User[t])

etimer_stop(t) ==
  /\ MayUse(t)
  /\ timerlist' = Without(timerlist, {t})
  /\ next_expiration' = IF t \in Listed
                        THEN update_time(timerlist', start, interval)
                        ELSE next_expiration
  /\ p' = [p EXCEPT ![t] = PROCESS_NONE]
  /\ UNCHANGED <<count, start, interval, polled, scan, events, alive, age>>

\* exit_process calls etimer_process with PROCESS_EVENT_EXITED: the timers of
\* the process are unlinked, next_expiration is left alone.
ProcessExits(q) ==
  /\ scan = Idle
  /\ q \in alive
  /\ alive' = alive \ {q}
  /\ timerlist' = Without(timerlist, {t \in Timer : p[t] = q})
  /\ UNCHANGED <<count, start, interval, p, next_expiration, polled, scan,
                 events, age>>

ProcessStarts(q) ==
  /\ scan = Idle
  /\ q \notin alive
  /\ alive' = alive \cup {q}
  /\ UNCHANGED <<count, timerVars, polled, scan, events, age>>

-----------------------------------------------------------------------------
Tick == \E n \in 1 .. MaxCatchUp : timera1(n)

MainStep ==
  \/ BeginScan
  \/ ScanTimer
  \/ EndScan
  \/ DeliverEvent

UserStep ==
  \/ \E t \in Timer :
       \/ \E i \in Interval : etimer_set(t, i)
       \/ etimer_reset(t)
       \/ etimer_restart(t)
       \/ etimer_stop(t)
  \/ \E q \in Mortal : ProcessExits(q) \/ ProcessStarts(q)

Next == Tick \/ MainStep \/ UserStep

Spec == Init /\ [][Next]_vars

(***************************************************************************)
(* The clock runs and main keeps running the kernel.  Each process_run is  *)
(* a do_poll followed by a do_event, so scans cannot keep events from      *)
(* being delivered: strong fairness.                                       *)
(***************************************************************************)
FairSpec ==
  /\ Spec
  /\ WF_vars(Tick)
  /\ WF_vars(BeginScan \/ ScanTimer \/ EndScan)
  /\ SF_vars(DeliverEvent)

-----------------------------------------------------------------------------
(***************************************************************************)
(* Properties.                                                             *)
(***************************************************************************)

Longest == CHOOSE i \in Interval : \A j \in Interval : j <= i

Service == INSTANCE TimerService WITH
  MaxInterval <- Longest,
  pending <- Listed,
  remaining <- [t \in Timer |-> IF t \in Listed /\ age[t] < interval[t]
                                THEN interval[t] - age[t] ELSE 0],
  events <- [i \in DOMAIN events |-> events[i].et]

\* The list, the cached expiration and the comparisons modulo the clock's range do
\* what a counter of the ticks left would do: a TIMER event is posted only for a
\* timer that has run for its whole interval, wraps of the clock included, and
\* at most once each time the timer is set.
ImplementsTimerService == Service!Spec

\* A timer that is due is noticed: a poll of etimer_process is requested or its
\* scan has still to come to the timer.  In particular next_expiration, cached
\* when the list changes, never lies behind the first timer due.
DueTimerNoticed ==
  \A t \in Timer : Overdue(t) =>
    polled \/ (scan # Idle /\ \E i \in scan .. Len(timerlist) : timerlist[i] = t)

\* The list holds each timer once and only timers of processes that run, p naming
\* the process that set it.  etimer_expired tells from p alone: a timer that has
\* an owner is on the list, unless its owner exited (which leaves p behind).
ListedIsPending ==
  /\ \A t \in Listed : p[t] = User[t] /\ User[t] \in alive
  /\ \A t \in Timer \ Listed : p[t] \in Mortal \cup {PROCESS_NONE}
  /\ \A i, j \in DOMAIN timerlist : timerlist[i] = timerlist[j] => i = j

\* List, owners and cached expiration agree, so that no timer is overlooked.
TimersWatched == TypeOK /\ ListedIsPending /\ DueTimerNoticed

\* A due timer is posted, unless it is set again or stopped first: neither a full
\* event queue nor other timers keep it out.
DueTimerPosted == \A t \in Timer : Overdue(t) ~> ~Overdue(t)

\* etimer.h:78, `when the event timer expires, the event PROCESS_EVENT_TIMER
\* will be posted': no timer stays on the list for longer after it is due than
\* main takes to serve a poll.
PostedInTime == \A t \in Timer :
  Overdue(t) => age[t] <= interval[t] + MaxLag + MaxCatchUp
=============================================================================
