------------------------------ MODULE Peripherals ------------------------------
(***************************************************************************)
(* Four drivers of the native firmware that share nothing but their kind:  *)
(* functions that write registers and variables one after the other, and a *)
(* handler that may come between any two of these writes.  The time base   *)
(* of drivers/timer.c (its alarms are in TimerA), drivers/adc.c,           *)
(* drivers/button.c and lib/vlo_sync.c.                                    *)
(***************************************************************************)
EXTENDS Integers, Sequences

CONSTANTS
  OVERFLOW,      \* ticks of TAR from one overflow to the next (65536)
  MASTER_RANGE,  \* number of values of master_time (65536)
  Handler,       \* the functions given to adc_sample_temp and button_init
  NoHandler      \* the null pointer

ASSUME PeripheralsAssumption ==
  /\ OVERFLOW \in Nat \ {0} /\ MASTER_RANGE \in Nat \ {0}
  /\ NoHandler \notin Handler

VARIABLES
  TACTL,        \* whether Timer A has a source and counts, and the bits TAIE, TAIFG
  tar_a,        \* TAR of Timer A
  master_time,
  starting,     \* the stores timer_start has still to do
  since,        \* history: ticks since TAR was cleared
  ADC10CTL0,    \* "off", "on" or, until the conversion ends, "busy"
  ADC10IFG,
  adc_temp_cb,
  asking,       \* the function main's adc_sample_temp has still to store
  wanted,        \* history: the function that waits for a sample
  pressed,      \* the level of the button's pin is low
  P1,           \* its bits IES, IFG and IE
  button_cb,
  watching,     \* the stores button_init has still to do
  click         \* history: the edge came, and port1irq has not seen it

timebaseVars == <<TACTL, tar_a, master_time, starting, since>>
adcVars == <<ADC10CTL0, ADC10IFG, adc_temp_cb, asking, wanted>>
buttonVars == <<pressed, P1, button_cb, watching, click>>

-----------------------------------------------------------------------------
(***************************************************************************)
(* drivers/timer.c: master_time counts the overflows of TAR.                 *)
(***************************************************************************)
TimerCleared == [source |-> FALSE, MC |-> FALSE, TAIE |-> FALSE, TAIFG |-> FALSE]

timer_init ==
  /\ TACTL = TimerCleared /\ tar_a = 0 /\ master_time = 0
  /\ starting = <<>> /\ since = 0

\* The handler of an overflow comes before the next one, and timer_start is over
\* before the first.
TimerTick ==
  /\ TACTL.source /\ TACTL.MC
  /\ (TACTL.TAIFG /\ TACTL.TAIE) \/ starting # <<>> => tar_a < OVERFLOW - 1
  /\ tar_a' = (tar_a + 1) % OVERFLOW
  /\ TACTL' = [TACTL EXCEPT !.TAIFG = @ \/ tar_a' = 0]
  /\ since' = (since + 1) % (OVERFLOW * MASTER_RANGE)
  /\ UNCHANGED <<master_time, starting>>

\* `TACTL = TACLR': no source, stopped, a pending overflow forgotten.
ClearTimer(stores) ==
  /\ starting = <<>>
  /\ TACTL' = TimerCleared /\ tar_a' = 0 /\ since' = 0
  /\ starting' = stores
  /\ UNCHANGED master_time

\* Mutant: the master time goes on from where it was.
KeepMaster == <<"source", "MC", "TAIE">>

StartStores == <<"source", "MC", "TAIE", "master_time">>

\* It returns 0 at a source it does not know, or at a division it does not know.
timer_start == \E n \in {0, 1, Len(StartStores)} : ClearTimer(SubSeq(StartStores, 1, n))

StartStore ==
  /\ starting # <<>>
  /\ IF Head(starting) = "master_time"
     THEN master_time' = 0 /\ UNCHANGED TACTL
     ELSE TACTL' = [TACTL EXCEPT ![Head(starting)] = TRUE] /\ UNCHANGED master_time
  /\ starting' = Tail(starting)
  /\ UNCHANGED <<tar_a, since>>

timer_stop == ClearTimer(<<>>)

\* timer_pause and timer_unpause.
Counts(on) ==
  /\ starting = <<>>
  /\ TACTL' = [TACTL EXCEPT !.MC = on]
  /\ UNCHANGED <<tar_a, master_time, starting, since>>

\* timer1irq with TAIV = 0x0A.
timer1irq ==
  /\ TACTL.TAIE /\ TACTL.TAIFG
  /\ TACTL' = [TACTL EXCEPT !.TAIFG = FALSE]
  /\ master_time' = (master_time + 1) % MASTER_RANGE
  /\ UNCHANGED <<tar_a, starting, since>>

TimebaseNext ==
  \/ TimerTick \/ timer_start \/ StartStore \/ timer_stop
  \/ \E on \in BOOLEAN : Counts(on)
  \/ timer1irq

\* Once timer_start has returned 1, timer_mastertime and timer_time together tell the
\* ticks since, across overflows whose handler is late, pauses and new starts.
MasterTimeTells ==
  TACTL.TAIE /\ starting = <<>> =>
    ((master_time + (IF TACTL.TAIFG THEN 1 ELSE 0)) * OVERFLOW + tar_a)
      % (OVERFLOW * MASTER_RANGE) = since

-----------------------------------------------------------------------------
(***************************************************************************)
(* drivers/adc.c.                                                          *)
(***************************************************************************)
AdcInit ==
  /\ ADC10CTL0 = "off" /\ ADC10IFG = FALSE /\ adc_temp_cb = NoHandler
  /\ asking = NoHandler /\ wanted = NoHandler

\* adc_init and adc_stop assign the whole register: a conversion is given up.
Assign(state) ==
  /\ asking = NoHandler
  /\ ADC10CTL0' = state /\ ADC10IFG' = FALSE /\ wanted' = NoHandler
  /\ UNCHANGED <<adc_temp_cb, asking>>
adc_init == Assign("on")
adc_stop == Assign("off")

\* `ENC + ADC10SC': a conversion that is under way goes on.
Convert == ADC10CTL0' = IF ADC10CTL0 = "on" THEN "busy" ELSE ADC10CTL0

\* adc_sample_temp in the main program: first the conversion, then the function.
SampleTemp(cb) ==
  /\ asking = NoHandler /\ ADC10CTL0 # "off"
  /\ Convert
  /\ asking' = cb /\ wanted' = cb
  /\ UNCHANGED <<ADC10IFG, adc_temp_cb>>

StoreCallback ==
  /\ asking # NoHandler
  /\ adc_temp_cb' = asking /\ asking' = NoHandler
  /\ UNCHANGED <<ADC10CTL0, ADC10IFG, wanted>>

\* adc_sample_temp in the handler of an alarm, where nothing comes between.
adc_sample_temp(cb) ==
  /\ asking = NoHandler /\ ADC10CTL0 # "off"
  /\ Convert
  /\ adc_temp_cb' = cb /\ wanted' = cb
  /\ UNCHANGED <<ADC10IFG, asking>>

ConversionEnds ==
  /\ ADC10CTL0 = "busy"
  /\ ADC10CTL0' = "on" /\ ADC10IFG' = TRUE
  /\ UNCHANGED <<adc_temp_cb, asking, wanted>>

\* A mutant: the callback is cleared before it is looked at.
ClearedFirst == NoHandler

Called == adc_temp_cb

\* adc10irq: the callback is cleared after the call, and with it the one that a
\* callback asking for the next sample has stored.  A sample is given to nobody when
\* the handler comes between the two stores of main.
adc10irq ==
  /\ ADC10IFG /\ ADC10CTL0 # "off"
  /\ ADC10IFG' = FALSE
  /\ \/ UNCHANGED ADC10CTL0
     \/ Called # NoHandler /\ Convert
  /\ adc_temp_cb' = NoHandler
  /\ wanted' = IF Called = wanted \/ asking # NoHandler THEN NoHandler ELSE wanted
  /\ UNCHANGED asking

AdcNext ==
  \/ adc_init \/ adc_stop
  \/ \E cb \in Handler : SampleTemp(cb) \/ adc_sample_temp(cb)
  \/ StoreCallback \/ ConversionEnds \/ adc10irq

\* Whoever asked for a sample last will be called with one: its function is in
\* adc_temp_cb, or about to be, and a conversion is under way or has ended.
SamplesAnswered ==
  wanted # NoHandler =>
    /\ asking = NoHandler => adc_temp_cb = wanted
    /\ ADC10CTL0 = "busy" \/ ADC10IFG

-----------------------------------------------------------------------------
(***************************************************************************)
(* drivers/button.c.                                                       *)
(***************************************************************************)
ButtonInit ==
  /\ pressed = FALSE
  /\ P1 = [IES |-> FALSE, IFG |-> FALSE, IE |-> FALSE]
  /\ button_cb = NoHandler /\ watching = <<>> /\ click = FALSE

\* A mutant: an old flag is left.
FlagLeft(high_to_low, cb) == << <<"IES", high_to_low>>, <<"IE", TRUE>>, <<"cb", cb>> >>

WatchStores(high_to_low, cb) ==
  << <<"IES", high_to_low>>, <<"IFG", FALSE>>, <<"IE", TRUE>>, <<"cb", cb>> >>

button_init(high_to_low, cb) ==
  /\ watching = <<>>
  /\ watching' = WatchStores(high_to_low, cb)
  /\ click' = FALSE
  /\ UNCHANGED <<pressed, P1, button_cb>>

\* A new value of P1IES may set the flag, as an edge would.
WatchStore ==
  /\ watching # <<>>
  /\ LET store == Head(watching)
         turned == store[1] = "IES" /\ store[2] # P1.IES
     IN IF store[1] = "cb" THEN button_cb' = store[2] /\ UNCHANGED P1
        ELSE /\ \E flag \in IF turned THEN {TRUE, P1.IFG} ELSE {P1.IFG} :
                  P1' = [P1 EXCEPT !.IFG = flag, ![store[1]] = store[2]]
             /\ UNCHANGED button_cb
  /\ click' = (click /\ Head(watching)[1] # "IFG")
  /\ watching' = Tail(watching)
  /\ UNCHANGED pressed

button_stop ==
  /\ watching = <<>>
  /\ P1' = [P1 EXCEPT !.IE = FALSE]
  /\ UNCHANGED <<pressed, button_cb, watching, click>>

\* The button is pressed or released.
Edge ==
  /\ pressed' = ~pressed
  /\ P1' = [P1 EXCEPT !.IFG = @ \/ P1.IES = pressed']
  /\ click' = (click \/ P1.IES = pressed')
  /\ UNCHANGED <<button_cb, watching>>

\* Between P1IE and button_cb it calls the function of before, if there is one.
port1irq ==
  /\ P1.IE /\ P1.IFG
  /\ P1' = [P1 EXCEPT !.IFG = FALSE]
  /\ click' = FALSE
  /\ UNCHANGED <<pressed, button_cb, watching>>

ButtonNext ==
  \/ \E high_to_low \in BOOLEAN, cb \in Handler : button_init(high_to_low, cb)
  \/ WatchStore \/ button_stop \/ Edge \/ port1irq

\* Once button_init has returned, port1irq calls the function for each edge it was
\* asked to watch for and for nothing else: not for an edge before, and not for the
\* flag that the new value of P1IES has raised.
ClicksReported ==
  P1.IE /\ watching = <<>> => /\ P1.IFG <=> click
                              /\ button_cb # NoHandler

-----------------------------------------------------------------------------
(***************************************************************************)
(* lib/vlo_sync.c: how many ticks of the VLO a second has, measured with a *)
(* clock the radio puts out on GDO0.  An interrupt counts its ticks, and   *)
(* Timer B those of the VLO.  The flag of the interrupt is one bit: a tick *)
(* that comes while the last one waits for its handler is lost.            *)
(***************************************************************************)
CONSTANTS
  ticks_second,  \* radio ticks in a second (203125)
  RADIO, VLO,    \* time units in a tick of the radio and of the VLO
  MaxHold        \* bound: time units an interrupt waits for its handler

ASSUME VloAssumption == {ticks_second, RADIO, VLO, MaxHold} \subseteq Nat \ {0}

VARIABLES
  radio_phase, vlo_phase,  \* time units since the last tick
  P2IFG, P2IE,             \* of GDO0
  TBR, MC_CONT,
  radio_tick_count,
  main,                    \* how far vlo_get_frequency has got
  answer,                  \* what measure_done_cb was given, -1 before
  held,                    \* time units the interrupt has been waiting
  elapsed, missed_ticks    \* history: of this measurement

vloVars == <<radio_phase, vlo_phase, P2IFG, P2IE, TBR, MC_CONT, radio_tick_count,
             main, answer, held, elapsed, missed_ticks>>

VloInit ==
  /\ radio_phase \in 0 .. RADIO - 1 /\ vlo_phase \in 0 .. VLO - 1
  /\ P2IFG = FALSE /\ P2IE = FALSE
  /\ TBR = 0 /\ MC_CONT = FALSE
  /\ radio_tick_count = 0
  /\ main = "idle" /\ answer = -1 /\ held = 0 /\ elapsed = 0 /\ missed_ticks = 0

\* A rising edge of GDO0 and, when Timer B runs, a tick of TBR.
VloTick ==
  /\ P2IFG /\ P2IE => held < MaxHold
  /\ main \in {"idle", "measuring"}
  /\ radio_phase' = (radio_phase + 1) % RADIO
  /\ vlo_phase' = (vlo_phase + 1) % VLO
  /\ P2IFG' = (P2IFG \/ radio_phase' = 0)
  /\ missed_ticks' = IF radio_phase' = 0 /\ P2IFG /\ P2IE THEN missed_ticks + 1 ELSE missed_ticks
  /\ TBR' = IF MC_CONT /\ vlo_phase' = 0 THEN TBR + 1 ELSE TBR
  /\ held' = IF P2IFG /\ P2IE THEN held + 1 ELSE 0
  /\ elapsed' = IF MC_CONT THEN elapsed + 1 ELSE elapsed
  /\ UNCHANGED <<P2IE, MC_CONT, radio_tick_count, main, answer>>

\* Mutant: the count of the last measurement is left.
CountKept == radio_tick_count

CountReset == 0

\* Up to the clearing of the flag; the radio is reset and told what to put out.
vlo_get_frequency ==
  /\ main = "idle"
  /\ TBR' = 0 /\ MC_CONT' = FALSE /\ radio_tick_count' = CountReset
  /\ P2IFG' = FALSE
  /\ main' = "cleared"
  /\ answer' = -1 /\ elapsed' = 0 /\ missed_ticks' = 0
  /\ UNCHANGED <<radio_phase, vlo_phase, P2IE, held>>

\* The interrupt enabled and Timer B started, less than a tick apart.
Start ==
  /\ \/ main = "cleared" /\ main' = "enabled" /\ P2IE' = TRUE /\ UNCHANGED MC_CONT
     \/ main = "enabled" /\ main' = "measuring" /\ MC_CONT' = TRUE /\ UNCHANGED P2IE
  /\ UNCHANGED <<radio_phase, vlo_phase, P2IFG, TBR, radio_tick_count, answer, held, elapsed,
                 missed_ticks>>

\* In port2irq, which has cleared the flag.
radio_tick ==
  /\ P2IFG /\ P2IE
  /\ P2IFG' = FALSE /\ held' = 0
  /\ radio_tick_count' = radio_tick_count + 1
  /\ IF radio_tick_count' = ticks_second
     THEN MC_CONT' = FALSE /\ P2IE' = FALSE /\ answer' = TBR /\ main' = "idle"
     ELSE UNCHANGED <<MC_CONT, P2IE, answer, main>>
  /\ UNCHANGED <<radio_phase, vlo_phase, TBR, elapsed, missed_ticks>>

VloNext == VloTick \/ vlo_get_frequency \/ Start \/ radio_tick

-----------------------------------------------------------------------------
(***************************************************************************)
(* Properties.                                                             *)
(***************************************************************************)

\* What the callback is given are the VLO's ticks in a second, but for the tick that
\* either clock was in, the lateness of one handler, and a tick of the radio more for
\* each that was lost; and no measurement runs on beyond that.
SecondMeasured ==
  LET most == (ticks_second + missed_ticks) * RADIO + MaxHold IN
  /\ main = "measuring" => elapsed <= most
  /\ answer # -1 => /\ answer * VLO <= most + VLO
                    /\ (answer + 1) * VLO > (ticks_second + missed_ticks - 1) * RADIO
=============================================================================
