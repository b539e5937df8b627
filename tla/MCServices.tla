------------------------------ MODULE MCServices ------------------------------
(***************************************************************************)
(* Small parts of the two systems that share nothing.  To interleave them  *)
(* would only multiply their states: a behaviour takes place in one of     *)
(* them, chosen at the start.                                              *)
(***************************************************************************)
EXTENDS PacketBuf, Mmem, Rtimer, LinkedList, Clock,
        Protothread, Uart, Codes, Mt, SpiRadio, HostReader,
        Rtc, Peripherals, Board

CONSTANTS n1, n2

MCOctet == {1, 2, 3, 4, 5, 8, n1, n2, rimeaddr_null, NoByte}
MCPayload == {<<1>>, <<1, 2, 3, 4>>}
MCHeader == {<<8>>}
MCForeign == {<<5>>, <<n2, n1, 5>>}

BitsOf(n) == [i \in 0 .. 7 |-> (n \div (2 ^ i)) % 2]
MCByte == {BitsOf(n) : n \in {0, 1, 90, 255}}
\* Single bits, the two bits of a Manchester symbol, and bursts.
MCDamage ==
  {{i} : i \in 0 .. 15} \cup {{2 * i, 2 * i + 1} : i \in 0 .. 7}
    \cup {0 .. 15, 0 .. 7, 8 .. 15, {0, 1, 14, 15}}
MCLeftover == {<<0, 1>>, <<32767, 65534>>}

VARIABLE service

Service ==
  {"packetbuf", "mmem", "rtimer", "list", "clock", "timers",
   "protothread", "uart", "codes", "rand", "mt", "vlosync",
   "radiobus", "host", "robot", "rtc", "timebase", "adc", "button",
   "board"}

\* Of what a service may start with, one value is enough for the others.
Starts ==
  /\ service # "timers" => \A k \in Kind : timer[k].interval = CHOOSE i \in Interval : TRUE
  /\ service # "uart" => port = "embedded"
  /\ service # "rand" => rand_state = <<0, 1>>
  /\ service # "radiobus" => firmware = "contiki"
  /\ service # "host" => program = "wiimote"
  /\ service # "board" => board = "contiki"
  /\ service # "vlosync" => radio_phase = 0 /\ vlo_phase = 0

ServicesInit ==
  /\ service \in Service
  /\ PacketbufInit /\ MmemInit /\ RtimerInit /\ LinkedListInit
  /\ clock_init /\ TimersInit /\ ProtothreadInit /\ uart_init /\ CodesInit
  /\ RandInit /\ MtInit /\ VloInit /\ RadioBusInit /\ HostInit /\ RobotInit
  /\ RtcInit /\ timer_init /\ AdcInit /\ ButtonInit /\ BoardInit
  /\ Starts

Unless(chosen, s, vars) == IF chosen = s THEN TRUE ELSE UNCHANGED vars

Only(s) ==
  /\ service = s /\ UNCHANGED service
  /\ Unless(s, "packetbuf", packetbufVars) /\ Unless(s, "mmem", mmemVars)
  /\ Unless(s, "rtimer", rtimerVars) /\ Unless(s, "list", listVars)
  /\ Unless(s, "clock", clockVars)
  /\ Unless(s, "timers", timersVars) /\ Unless(s, "protothread", ptVars)
  /\ Unless(s, "uart", uartVars) /\ Unless(s, "codes", codesVars)
  /\ Unless(s, "rand", randVars) /\ Unless(s, "mt", mtVars)
  /\ Unless(s, "vlosync", vloVars) /\ Unless(s, "radiobus", radioBusVars)
  /\ Unless(s, "host", hostVars) /\ Unless(s, "robot", robotVars)
  /\ Unless(s, "rtc", rtcVars) /\ Unless(s, "timebase", timebaseVars)
  /\ Unless(s, "adc", adcVars) /\ Unless(s, "button", buttonVars)
  /\ Unless(s, "board", boardVars)

PacketbufStep == Only("packetbuf") /\ PacketbufNext
MmemStep == Only("mmem") /\ MmemNext
RtimerStep == Only("rtimer") /\ RtimerNext
ListStep == Only("list") /\ LinkedListNext
ClockStep == Only("clock") /\ ClockNext
TimersStep == Only("timers") /\ TimersNext
ProtothreadStep == Only("protothread") /\ ProtothreadNext
UartStep == Only("uart") /\ UartNext
CodesStep == Only("codes") /\ CodesNext
RandStep == Only("rand") /\ RandNext
MtStep == Only("mt") /\ MtNext
VloStep == Only("vlosync") /\ VloNext
RadioBusStep == Only("radiobus") /\ RadioBusNext
HostStep == Only("host") /\ HostNext
RobotStep == Only("robot") /\ RobotNext
RtcStep == Only("rtc") /\ RtcNext
TimebaseStep == Only("timebase") /\ TimebaseNext
AdcStep == Only("adc") /\ AdcNext
ButtonStep == Only("button") /\ ButtonNext
BoardStep == Only("board") /\ BoardNext

ServicesNext ==
  \/ PacketbufStep \/ MmemStep \/ RtimerStep \/ ListStep
  \/ ClockStep \/ TimersStep \/ ProtothreadStep \/ UartStep \/ CodesStep
  \/ RandStep \/ MtStep \/ VloStep
  \/ RadioBusStep \/ HostStep \/ RobotStep
  \/ RtcStep \/ TimebaseStep \/ AdcStep \/ ButtonStep \/ BoardStep

ServicesSpec ==
  /\ ServicesInit
  /\ [][ServicesNext]_<<service, packetbufVars, mmemVars, rtimerVars,
         listVars, clockVars, timersVars, ptVars, uartVars, codesVars, randVars,
         mtVars, vloVars, radioBusVars, hostVars, robotVars,
         rtcVars, timebaseVars, adcVars, buttonVars, boardVars>>

\* The clocks and what is measured with them (clock_time, clock_seconds, clock_fine;
\* timer_expired, stimer_expired; timer_mastertime, rtc_time): no time is lost or
\* invented.
TimeIsTold == ClockKeepsTime /\ TimersTell /\ MasterTimeTells /\ RtcKeepsTime

\* Whoever asks the native drivers for a measurement or a watch (vlo_get_frequency,
\* adc_sample_temp, button_init) is called with what was asked for, and whoever sets
\* the clocks gets them.
PeripheralsAnswer ==
  SecondMeasured /\ SamplesAnswered /\ ClicksReported /\ ClocksAsSet

\* Those that share one CPU by agreement, protothreads through a bounded buffer
\* (PT_SEM_WAIT) and threads of their own stack (mt_exec, mt_yield), keep out of
\* each other's way; and whoever keeps it for too long meets the watchdog.
ThreadsAlternate == BufferShared /\ ThreadsTakeTurns /\ WatchdogWatches
=============================================================================
