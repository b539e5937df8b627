-------------------------------- MODULE Board --------------------------------
(***************************************************************************)
(* What the board of either system is set to: its clocks, drivers/clock.c  *)
(* of the native firmware and msp430_init_dco of the Contiki port; and     *)
(* there the watchdog and the interrupt mask, cpu/ez430/watchdog.c and     *)
(* msp430.c, round the scheduler loop of contiki-ez-main.c (what the loop  *)
(* runs is ProcessKernel).                                                 *)
(***************************************************************************)
EXTENDS Integers

CONSTANTS
  Frequency_MHz,  \* what clock_dco_set is called with
  Division,       \* what the clocks are asked to be divided by
  WDT_LIMIT       \* ticks of ACLK until the watchdog resets (32768)

ASSUME BoardAssumption ==
  /\ Frequency_MHz \subseteq Nat /\ Division \subseteq Nat
  /\ WDT_LIMIT \in Nat \ {0}

VARIABLES
  board,       \* whose firmware: "native" or "contiki"
  mainAt,      \* where its main program is
  DCO,         \* MHz, by DCOCTL and BCSCTL1
  DIVA,        \* of BCSCTL1
  BCSCTL2,
  LFXT1S,      \* of BCSCTL3: the source behind LFXTCLK and ACLK
  WDTCTL, WDTCNT,
  stopped,     \* of watchdog.c
  GIE,         \* interrupts are enabled
  nevents,     \* process_nevents() # 0
  told,        \* history: of each clock, source and division asked for last
  undone,      \* history: the clocks another call has set back since
  busy         \* history: ticks since main was last known to be alive

clocksVars == <<DCO, DIVA, BCSCTL2, LFXT1S, told, undone>>
watchdogVars == <<WDTCTL, WDTCNT, stopped>>
boardVars == <<board, mainAt, clocksVars, watchdogVars, GIE, nevents, busy>>

PowerUpSelect == [SELM |-> "DCO", DIVM |-> 1, SELS |-> FALSE, DIVS |-> 1]
AsReset == [MCLK |-> <<"DCO", 1>>, SMCLK |-> <<"DCO", 1>>, ACLK |-> <<"XTAL", 1>>]

\* Power up, or a reset: the watchdog counts.
BoardInit ==
  /\ board \in {"native", "contiki"} /\ mainAt = "reset"
  /\ DCO = 1 /\ DIVA = 1 /\ BCSCTL2 = PowerUpSelect /\ LFXT1S = "XTAL"
  /\ WDTCTL = "counts" /\ WDTCNT = 0 /\ stopped = 0
  /\ GIE = FALSE /\ nevents = FALSE
  /\ told = AsReset /\ undone = {} /\ busy = 0

-----------------------------------------------------------------------------
(***************************************************************************)
(* drivers/clock.c                                                         *)
(***************************************************************************)
\* A frequency that is not calibrated is 1 MHz.
Calibrated(freq) == IF freq \in {1, 8, 12, 16} THEN freq ELSE 1
\* The field is cleared first: a division that cannot be is 1.
Divider(div) == IF div \in {1, 2, 4, 8} THEN div ELSE 1

\* The calibration of BCSCTL1 has no DIVA.
clock_dco_set(freq) ==
  /\ DCO' = Calibrated(freq) /\ DIVA' = 1
  /\ LFXT1S' = "VLO"
  /\ told' = [told EXCEPT !.ACLK = <<"VLO", told.ACLK[2]>>]
  /\ undone' = undone \cup {"ACLK"}
  /\ UNCHANGED BCSCTL2

\* Mutant: the register is assigned, and SMCLK's fields with it.
AssignMclk(source, div) == [PowerUpSelect EXCEPT !.SELM = source, !.DIVM = Divider(div)]

MclkFields(source, div) == [BCSCTL2 EXCEPT !.SELM = source, !.DIVM = Divider(div)]

clock_mclk_set(source, div) ==
  /\ BCSCTL2' = MclkFields(source, div)
  /\ told' = [told EXCEPT !.MCLK = <<source, Divider(div)>>]
  /\ undone' = undone \ {"MCLK"}
  /\ UNCHANGED <<DCO, DIVA, LFXT1S>>

\* `BCSCTL2 &= SELS' keeps SELS, and clears what MCLK was set to.
KeepSource == [BCSCTL2 EXCEPT !.SELM = "DCO", !.DIVM = 1]

clock_smclk_set(source, div) ==
  /\ BCSCTL2' = IF source = "VLO" THEN [BCSCTL2 EXCEPT !.SELS = TRUE, !.DIVS = Divider(div)]
                ELSE [KeepSource EXCEPT !.DIVS = Divider(div)]
  /\ told' = [told EXCEPT !.SMCLK = <<source, Divider(div)>>]
  /\ undone' = IF source = "VLO" THEN undone \ {"SMCLK"}
               ELSE undone \cup {"MCLK"} \cup (IF BCSCTL2.SELS THEN {"SMCLK"} ELSE {})
  /\ UNCHANGED <<DCO, DIVA, LFXT1S>>

clock_aclk_set(div) ==
  /\ DIVA' = Divider(div)
  /\ told' = [told EXCEPT !.ACLK = <<told.ACLK[1], Divider(div)>>]
  /\ undone' = undone \ {"ACLK"}
  /\ UNCHANGED <<DCO, BCSCTL2, LFXT1S>>

ClockCall ==
  \/ \E freq \in Frequency_MHz : clock_dco_set(freq)
  \/ \E source \in {"DCO", "VLO"}, div \in Division :
       clock_mclk_set(source, div) \/ clock_smclk_set(source, div)
  \/ \E div \in Division : clock_aclk_set(div)

\* The native main stops the watchdog, enables interrupts and sets its clocks.
NativeMain ==
  /\ board = "native" /\ UNCHANGED <<board, stopped, nevents>>
  /\ \/ /\ mainAt = "reset" /\ mainAt' = "main"
        /\ WDTCTL' = "held" /\ GIE' = TRUE /\ busy' = 0
        /\ UNCHANGED <<clocksVars, WDTCNT>>
     \/ mainAt = "main" /\ ClockCall /\ UNCHANGED <<mainAt, WDTCTL, WDTCNT, GIE, busy>>

-----------------------------------------------------------------------------
(***************************************************************************)
(* cpu/ez430/watchdog.c: `stopped' counts the stops not made good.         *)
(***************************************************************************)
\* Mutant: the stop is not counted.
StopUncounted == WDTCTL' = "held" /\ UNCHANGED <<stopped, WDTCNT>>

watchdog_stop == WDTCTL' = "held" /\ stopped' = stopped + 1 /\ UNCHANGED WDTCNT

watchdog_init == WDTCTL' = "held" /\ stopped' = 1 /\ UNCHANGED WDTCNT

watchdog_start ==
  /\ stopped' = stopped - 1
  /\ IF stopped' = 0 THEN WDTCTL' = "counts" /\ WDTCNT' = 0
                     ELSE UNCHANGED <<WDTCTL, WDTCNT>>

watchdog_periodic ==
  WDTCNT' = (IF stopped = 0 THEN 0 ELSE WDTCNT) /\ UNCHANGED <<WDTCTL, stopped>>

\* The counter reaches its limit.  (Nobody calls watchdog_reboot, which also resets.)
BoardReset ==
  /\ mainAt' = "reset"
  /\ DCO' = 1 /\ DIVA' = 1 /\ BCSCTL2' = PowerUpSelect /\ LFXT1S' = "XTAL"
  /\ WDTCTL' = "counts" /\ WDTCNT' = 0 /\ stopped' = 0
  /\ GIE' = FALSE /\ nevents' = FALSE
  /\ told' = AsReset /\ undone' = {} /\ busy' = 0
  /\ UNCHANGED board

WatchdogTick ==
  /\ WDTCTL = "counts"
  /\ IF WDTCNT + 1 = WDT_LIMIT THEN BoardReset
     ELSE /\ WDTCNT' = WDTCNT + 1 /\ busy' = busy + 1
          /\ UNCHANGED <<board, mainAt, clocksVars, WDTCTL, stopped, GIE, nevents>>

-----------------------------------------------------------------------------
(***************************************************************************)
(* The Contiki port: its start, and the scheduler loop.                    *)
(***************************************************************************)
\* `DIVM_1', which halves MCLK, goes by the `&= SELS' of the next clock.
msp430_init_dco ==
  /\ DCO' = 12 /\ DIVA' = 1 /\ LFXT1S' = "VLO"
  /\ BCSCTL2' = [BCSCTL2 EXCEPT !.SELM = "DCO", !.DIVM = 1, !.DIVS = 1]
  /\ told' = [MCLK |-> <<"DCO", 1>>, SMCLK |-> <<"DCO", 1>>, ACLK |-> <<"VLO", 1>>]
  /\ UNCHANGED undone

\* Interrupts are enabled only when it is done.
msp430_cpu_init ==
  /\ mainAt = "reset" /\ mainAt' = "start"
  /\ watchdog_init /\ msp430_init_dco
  /\ GIE' = TRUE /\ busy' = 0 /\ UNCHANGED nevents

Onward(from, to) == mainAt = from /\ mainAt' = to /\ UNCHANGED <<clocksVars, nevents>>

\* The drivers and processes have been started.
LoopBegins == Onward("start", "loop") /\ watchdog_start /\ busy' = 0 /\ UNCHANGED GIE

Periodic == Onward("loop", "run") /\ watchdog_periodic /\ busy' = 0 /\ UNCHANGED GIE

\* `while (r > 0)'
process_run ==
  /\ mainAt = "run" /\ nevents' \in BOOLEAN
  /\ mainAt' = IF nevents' THEN "loop" ELSE "ran"
  /\ UNCHANGED <<clocksVars, watchdogVars, GIE, busy>>

splhigh == Onward("ran", "idle") /\ GIE' = FALSE /\ UNCHANGED <<watchdogVars, busy>>

splx == nevents /\ Onward("idle", "loop") /\ GIE' = TRUE /\ UNCHANGED <<watchdogVars, busy>>

\* LPM3, which enables interrupts and sleeps in one instruction.
Sleep == ~nevents /\ Onward("idle", "asleep") /\ watchdog_stop /\ GIE' = TRUE /\ UNCHANGED busy

WakesUp == Onward("awake", "loop") /\ watchdog_start /\ busy' = 0 /\ UNCHANGED GIE

\* A handler that polls a process also ends the sleep.
AnyInterrupt ==
  /\ GIE /\ nevents' = TRUE
  /\ mainAt' = IF mainAt = "asleep" THEN "awake" ELSE mainAt
  /\ UNCHANGED <<clocksVars, watchdogVars, GIE, busy>>

ContikiMain ==
  /\ board = "contiki" /\ UNCHANGED board
  /\ \/ msp430_cpu_init \/ LoopBegins \/ Periodic \/ process_run
     \/ splhigh \/ splx \/ Sleep \/ WakesUp \/ AnyInterrupt

BoardNext == NativeMain \/ WatchdogTick \/ ContikiMain

-----------------------------------------------------------------------------
\* What the clocks run at.
Runs ==
  [MCLK |-> <<IF BCSCTL2.SELM = "VLO" THEN "VLO" ELSE "DCO", BCSCTL2.DIVM>>,
   SMCLK |-> <<IF BCSCTL2.SELS THEN "VLO" ELSE "DCO", BCSCTL2.DIVS>>,
   ACLK |-> <<LFXT1S, DIVA>>]

\* A clock runs as the last call asked for, whatever was called for the others, but
\* for two: clock_dco_set undoes the division of ACLK, and an SMCLK from the DCO
\* the setting of MCLK (and does not leave the VLO).  On the Contiki port, where
\* the same two meet, all are as the comments say once interrupts are enabled.
ClocksAsSet ==
  /\ \A clock \in {"MCLK", "SMCLK", "ACLK"} \ undone : Runs[clock] = told[clock]
  /\ board = "contiki" /\ mainAt # "reset" =>
       DCO = 12 /\ Runs = [MCLK |-> <<"DCO", 1>>, SMCLK |-> <<"DCO", 1>>, ACLK |-> <<"VLO", 1>>]

\* The watchdog counts the time since the scheduler loop was last at its head, and
\* nothing else: it does not run while the CPU sleeps, never stays off in the loop,
\* and so resets the board if and only if a process keeps the CPU for its limit.
\* And the CPU sleeps with interrupts enabled and nothing to do.
WatchdogWatches ==
  /\ board = "contiki" =>
       (WDTCTL = "held" <=> mainAt \in {"start", "asleep", "awake"})
  /\ WDTCTL = "counts" => WDTCNT = busy /\ stopped = 0
  /\ mainAt = "asleep" => GIE /\ ~nevents
  /\ mainAt = "idle" => ~GIE
=============================================================================
