# A TLA+ model of trowelproject

The repository holds two firmwares for the same board (an MSP430 with a CC2500
radio, TI's eZ430-RF2500) and some host programs in Python:

* **the native firmware**, `src/code/embedded`: a small library (`sys`,
  `drivers`, `mac`, `lib`), demo applications (`appli`) and one test program per
  driver (`tests`);
* **the Contiki port**, `src/code/contiki`: a subset of Contiki's core with the
  CPU and platform code for the board.

The host programs, `src/code/python`, draw what the board sends; they have
threads.

Both firmwares run on one CPU without threads. All concurrency is between a main program
and interrupt handlers, which run to completion and do not nest; inside the
main program there are callbacks that re-enter the code that called them. What
is hard about this code is therefore: stores of the main program that an
interrupt separates, falling asleep over work that has just arrived, lists
walked while callbacks change them, clocks that wrap, and queues of a few slots
that fill up. No test of the repository reaches these on purpose: its tests are
`main` programs to be watched on the board.

## 1. Inventory

### Native firmware (`src/code/embedded`)

| Part | State | Operations | Interacts with | What makes it correct |
|---|---|---|---|---|
| Deferred events, `sys/event.c` | ring of (func, data), start, length | `event_init`, `event_post` (interrupts and handlers), `event_process` (main loop) | every driver callback posts; main drains, then sleeps in LPM0 | accepted events run once, in order; a full queue loses only the new one; no event sleeps for ever |
| State chains, `sys/state.c` | per-chain states, transitions, active state; ring of data slots | `st_init_chain`, `st_add_transition`, `st_set_active_state`, `st_notify_event`, `exec_func` | takes a data slot, posts `exec_func` on the event queue; notified from alarm interrupts | one data slot per execution owed; the active state was executed with the event that led to it |
| Alarms, `drivers/timer.c` | 3 slots and their compare registers | `timer_execute_once`, `_several`, `timer_cancel_execute`; `timer0irq`, `timer1irq` | callbacks run in the interrupt | called on time, as often as asked, never after cancelling; slots come back |
| Timer A's time base, `drivers/timer.c` | source, mode, overflow interrupt, `master_time` | `timer_init`, `_start`, `_stop`, `_pause`, `_unpause`, `timer_mastertime` | counts under the alarms | no overflow lost or counted twice |
| Real-time clock, `drivers/rtc.c` | seconds, sorted list of alarms, Timer B | `rtc_set_alarm`, `rtc_set_time`, `rtc_set_aclk_frequency`, `rtc_halt`, `rtc_resume`; `timerb0irq` | alarms set themselves again from the interrupt | every alarm set is listed, in order, and called at its date; a second counts once |
| CSMA MAC, `mac/csma.c` and radio, `drivers/cc2500.c` | callbacks, frame, radio state | `mac_send`, `rx_cb`, `tx_cb` | SPI (USCI B0), radio interrupts | a send's outcome is reported once and truthfully; no radio command is torn; the node listens again |
| Serial buses, `drivers/usci.c` | mode of the shared USCI, callbacks | UART, SPI, I2C | radio and sensors share USCI B0 | each transfer uses the mode it needs; no busy-wait is for ever |
| Sensors of the I2C bus, `drivers/lis302.c`, `hmc5843.c` | a buffer on the stack | rows of transfers | `usci.c` | a coordinate is the one it is taken for |
| Button, ADC | a callback pointer each, interrupt bits | init, watch, sample | one interrupt each | whoever asks is called, once |
| VLO calibration, `lib/vlo_sync.c` | count of radio ticks | measurement in the main program and in the interrupt of GDO0 | Timer B, radio | the answer is what a second has |
| Packet printer, `appli/radioprint` | last packet and its length | `rx` in the interrupt, `print` from the main loop | radio, UART, event queue | what is printed was received |
| Clocks, `drivers/clock.c` | three registers | `clock_dco_set`, `_mclk_set`, `_smclk_set`, `_aclk_set` | everything counts their ticks | a clock runs as the last call for it asked |
| PWM, LEDs | registers | set-up | – | – |

### Contiki port (`src/code/contiki`)

| Part | State | Operations | Interacts with | What makes it correct |
|---|---|---|---|---|
| Process kernel, `core/sys/process.c`, and loop, `platform/ez/contiki-ez-main.c` | list of processes, their states and poll flags, event queue | start, exit, post, post_synch, poll, run | everything else is a process or polls one | list intact under nested starts and exits; no poll lost; nobody re-entered; no sleep over work |
| Event timers, `core/sys/etimer.c`, `cpu/ez430/clock.c` | list of timers, cached next expiration, tick counter | set, reset, restart, stop, adjust; scan; tick interrupt | polled by the tick, posts TIMER events to processes | never early, never forgotten |
| Clock and passive timers, `clock.c`, `timer.c`, `stimer.c` | ticks, seconds, start and interval | tick interrupt, `clock_seconds`, `clock_fine`; set, reset, restart, expired | the interrupt may come late and between two reads | no time is lost or invented; expired means expired |
| Callback timers, `core/net/rime/ctimer.c` | list of ctimers | set, reset, restart, stop | one etimer each, events to its own process | a set timer is called, a stopped one is not |
| Packet queue, `packetqueue.c`, `queuebuf.c`, `memb.c` | list of packets, three memory pools | enqueue, first, dequeue, expiry | a ctimer per packet with a lifetime | nothing leaks, nothing is freed twice, expiry takes what it should |
| Packet buffer, `packetbuf.c`, `rimeaddr.c`, framer and MAC glue | one array, header and data pointers, addresses | clear, copy, header allocation and reduction, compaction, reference; queue and restore; send, receive | everything in Rime | pointers in bounds; the packet is header and data one behind the other |
| Managed memory, `core/lib/mmem.c` | blocks in a compacted heap | alloc, free | – | blocks adjacent and disjoint; contents survive moves |
| Lists, `core/lib/list.c` | a pointer per list and per item | push, add, chop, pop, remove, insert, copy, ... | every list of the system | a list is a sequence |
| Ring buffer, `core/lib/ringbuf.c` | bytes, put and get index | put (one context), get (another) | serial line | a FIFO without locks |
| Serial line, `core/dev/serial-line.c` | ring buffer, line buffer, overflow flag | byte interrupt, process | kernel poll and events | announced lines are lines of the input; nothing gets stuck |
| SLIP, `core/dev/slip.c` | circular buffer with two packets | byte interrupt, poll handler | network interface | packets delivered whole, in order |
| Real-time timer, `rtimer.c`, `rtimer-arch.c` | one pending task | set, run_next | Timer A compare | the task runs at its time |
| Sensors, `core/lib/sensors.c` | a flag per sensor | changed (interrupt), process | kernel poll, broadcasts | every change is told |
| Protothreads, `pt.h`, `pt-sem.h`, `lc.h` | a continuation per thread, counters | the macros | processes are protothreads | resumed where it waited; a semaphore excludes |
| Multi-threading, `mt.c` | state and stack per thread | start, exec, yield, exit, stop; preemption | `mtarch`, which the port lacks | one stack at a time |
| Radio driver and buses, `platform/ez/dev/cc2500.c`, `cpu/ez430/usci.c` | chip select, callbacks | registers, FIFOs, strobes; UART | port interrupt | a command arrives in a frame of its own |
| Codes and random numbers, `crc16.c`, `me.c`, `rand.c`, `random.c` | 64 bits of generator | encode, check, draw | `.noinit` memory | what was encoded is decoded; damage is noticed |
| CPU support, `msp430.c`, `watchdog.c` | watchdog, its count of stops, clocks, interrupt mask | start of the CPU; start, stop, periodic | round the scheduler loop | the watchdog runs while main is to be watched, and then only |
| Other library code | – | – | – | see `components` in `PROJECT.json` |

### Host (`src/code/python`)

| Part | State | Operations | Interacts with | What makes it correct |
|---|---|---|---|---|
| Readers: zizi, wiimote, CSV | samples not yet taken | the sensor's thread appends, the window's timer takes | the interpreter's lock, one bytecode at a time | no sample lost, repeated or moved |
| Robot | angles of legs, height | walk forwards and back | `animation` loop | it stands where it stood |

### Hazards

`PROJECT.json` lists under `hazards` every place found where the code is exposed
to something a test would hardly reach, with the properties that watch it or
the reason why none does.

## 2. Plan

The order was by importance of what depends on a part.

1. *Native core* (done). `EventService` (what an event queue promises), `EventQueue`
   implementing it, `StateChain` composed with it, then the sources of events:
   `TimerA`, `Rtc`.
2. *Contiki core* (done). `ProcessKernel`, then what lives on it: `TimerService` (what the
   event timers promise) and `Etimer` implementing it, `ByteFifo` and `RingBuf`
   implementing it, `SerialLine` over `RingBuf`, `CallbackTimer` over
   `TimerService`, `PacketQueue` over `CallbackTimer`, `Sensors`.
3. *A node and its radio* (done). `Csma` over the chip, `Usci` with the I2C
   transfers, `SensorNode` composing both over the shared USCI.
4. *Lines* (done). `Slip`, `Uart`, `SpiRadio`.
5. *Small parts* (done). Packet buffer, managed memory, real-time tasks, lists, clock and
   passive timers, protothreads, threads, codes, VLO, peripherals, host.
6. *Proofs*. Done: event queue, state chains and the service of states they give,
   alarms of Timer A, kernel, event timers, packet queue, SLIP, ring buffer and serial
   line, the node's samples and sends, managed memory, the packet buffer and the packet it
   implements, real-time tasks, peripherals, protothreads and threads, UART, radio
   commands, robot. Next: `ImplementsLists`, and of `TimeIsTold` the Contiki clock
   (`ClockKeepsTime`; its other three parts are proved).
7. *Left to model.* Alarms and time base of Timer A in one machine (they are two
   now); several chains over one event queue; MAC and event queue composed, so that
   the program of a node is the one that posts and drains.

Modules to be proved about declare no `RECURSIVE` operator: loops over lists are
functions over a bounded domain. Parameters are constants with named
assumptions.

## 3. Modules

| Module | Models | Composition |
|---|---|---|
| `EventService` | what `event.h` promises: a bounded FIFO drained by one server | abstract |
| `EventQueue` | `sys/event.c` and the main loops around it | implements `EventService` |
| `StateChain` | `sys/state.c` with the chain of `tests/state` | takes the steps of `EventQueue`; its slots, with that queue, are shown to implement `EventService` for states |
| `TimerA` | alarms of `drivers/timer.c` | – |
| `Peripherals` | time base of `drivers/timer.c`, `drivers/adc.c`, `drivers/button.c`, `lib/vlo_sync.c`: four machines that share nothing | – |
| `Rtc` | `drivers/rtc.c` with the alarms of `tests/rtc` | – |
| `Csma` | `mac/csma.c` over `drivers/cc2500.c`, over the radio chip as far as its commands and GDO0 reach (external) | – |
| `Usci` | I2C of `drivers/usci.c`, the module and the slave | – |
| `SensorNode` | `appli/sensorssend`: a node that samples and sends | composes `Csma` and `Usci` over the shared USCI B0 |
| `SpiRadio` | a radio command's way over SPI, octet by octet: `platform/ez/dev/cc2500.c`, `cpu/ez430/usci.c` and their native twins | – |
| `Uart` | the UARTs of both firmwares and `appli/radioprint` | – |
| `ProcessKernel` | `core/sys/process.c` and the scheduler loop | – |
| `TimerService` | what `etimer.h` promises: counters of the ticks left | abstract |
| `Etimer` | `etimer.c`, `timer.c`, `clock.c` | implements `TimerService`; abstracts the kernel to a poll flag and a queue |
| `Clock` | `cpu/ez430/clock.c` read by read; `timer.c` and `stimer.c` | – |
| `Board` | `drivers/clock.c`, `msp430_init_dco`; `watchdog.c` and the interrupt mask of `msp430.c` round the scheduler loop | the loop abstracted to where it is |
| `CallbackTimer` | `core/net/rime/ctimer.c` | over `TimerService` |
| `PacketQueue` | `packetqueue.c`, `queuebuf.c`, `memb.c` | extends `CallbackTimer` with the lifetimers and an application's timers |
| `PacketService` | a packet: header, data, addresses | abstract |
| `PacketBuf` | `packetbuf.c`, `framer-nullmac.c`, `nullmac.c`, contents of queue buffers | implements `PacketService` |
| `Mmem` | `core/lib/mmem.c` and a user who fills his blocks | – |
| `ListService`, `LinkedList` | sequences; `core/lib/list.c` | the second implements the first |
| `ByteFifo` | an atomic bounded FIFO | abstract |
| `RingBuf` | `core/lib/ringbuf.c`, access by access | implements `ByteFifo` |
| `SerialLine` | `core/dev/serial-line.c` | extends `RingBuf`, taking its steps; kernel abstracted as in `Etimer` |
| `Slip` | `core/dev/slip.c`, and `slip_write` as the sender on the other side | – |
| `Rtimer` | `rtimer.c`, `rtimer-arch.c` | – |
| `Sensors` | `core/lib/sensors.c` and two readers | kernel abstracted to `do_poll` and `do_event` |
| `Protothread` | `pt.h`, `pt-sem.h`, `lc-switch.h`, running the example of `pt-sem.h` | – |
| `Mt` | `core/sys/mt.c` | – |
| `Codes` | `crc16.c`, `me.c`, `me_tabs.c`, `rand.c`, `random.c` | – |
| `HostReader` | the readers of the host's oscilloscopes; `vizual/robot.py` and the script that walks it | – |
| `RingArithmetic` | lemmas about indices modulo a size, the entries of a ring, least elements | used by the proof modules |
| `NativeProofs` | theorems about `EventQueue` and `TimerA` | extends both |
| `StateChainProofs` | theorems about `StateChain` and `SensorNode` | extends both |
| `KernelProofs`, `EtimerProofs` | theorems about `ProcessKernel`, `Etimer` | each extends its module |
| `PacketQueueProofs` | theorems about `PacketQueue` and `Slip` | extends both |
| `PartProofs` | theorems about `Mmem` and the bounds of `PacketBuf`; for the parts of `MCServices` that are proved, the invariant of each | extends those parts |
| `ServiceProofs` | theorems about `RingBuf`, `SerialLine`, `MCServices` and the refinement of `PacketService` | extends these and `PartProofs` |
| `MCEvents` | `EventQueue` or `Sensors` | instance |
| `MCServices` | twenty parts that share nothing; a behaviour is one of them | instance |
| other `MC...` | instances for TLC | – |

Every variable and action bears the name of what it stands for in the source
where that is possible, and `map` in `PROJECT.json` gives the lines. A
definition commented `Mutant` is a variant that a plausible bug would produce; no
action uses it, and TLC finds the property it is listed with violated once it
takes the place of the original.

### EventQueue

An interrupt may strike between any two accesses of `event_process`; `event_post`
and `queue_remove`, which the source declares `critical` (interrupts off), are one
step each. `main` is the program counter of the main program, including the gap
between the last test of `queue_len` and the LPM0 instruction in which an
interrupt's LPM4_EXIT does nothing. `event_init` is a step, because
`appli/radioprint` enables interrupts before it. The loop without LPM0 of
`tests/state` is chosen by the constant `UsesLPM0`.

### StateChain

One chain; its states and transitions are constants, given the values of
`tests/state/first_chain.c`. `st_notify_event` runs in an alarm's interrupt and is
one step, `exec_func` runs in the main program and is split at every access the
interrupt could see. `owed` is a history variable: the executions accepted and
not yet made. The event queue is `EventQueue` with the slot index as event, whose
steps the actions take. What the two queues give together is stated without either:
`EventService` again, with states for events (`States`). The mapping takes the entry of
the event queue that waits at place i to the state its slot leads to (`Held`), except
that the oldest, once called and cleared, counts as executed until it is removed.

### TimerA and Peripherals

The main program's stores into a slot are separate steps (no critical section
in the source); the interrupt handlers are one step. Points to know when
reading `TimerA`: a count of `n` gives `n + 1` calls, which is what the code does,
and a count that has become `TIMER_COUNT_INFINITE` goes on for ever;
`execute_*` chooses the lowest free slot; cancelling writes TACCR before
TACCTL, so the call being cancelled may come early, and `CalledAsAsked` says so.
`WaitAssumption` excludes delays shorter than the call that sets them or than
the latency of a handler: the hardware then waits for the counter to come round.
`Peripherals` has the functions under the alarms, which start, stop and pause the
counter, and two drivers whose
functions store a callback and enable an interrupt in an order that matters; the calibration
of the VLO counts units of time of which a radio tick and a VLO tick take several.

### Rtc

`rtc_set_alarm` is split at the test of the date and the insertion,
`rtc_set_aclk_frequency` at the store of TBCCR0 and the test of TBR; the list is
the `next` pointers of the source, so cycles and lost tails are possible states.
Timer B counts ticks of ACLK; its interrupt is due when it has counted to
TBCCR0. `skipped` is history: the alarms whose second came while they were being set,
or past which the clock was set.

### Csma, Usci, SensorNode

The chip keeps its state, FIFOs and GDO0; a frame goes into the TX FIFO in the four
pieces `mac_send` writes. An SPI frame of `mac_send` is a step each for
selecting the chip, the header, the data and deselecting it; the interrupt of GDO0 takes `rx_cb` or
`tx_cb` as one step between any two of these, and leaves USCI B0 in SPI mode and the chip deselected. `Usci` has a step
for each access of `i2c_write`, `i2c_read` and `i2c_write_read` to a flag or register.
When the radio takes the module within a transfer the transfer goes on over a module in SPI
mode; whether UCTXSTT and UCTXSTP read as set there is not documented, and both are
allowed. `mac_send` is called with messages that fit (its return of 0 for more than 59
octets is left out), and of what `rx_cb` does with a packet, the tests of length, CRC
and address and the call of the user, is one step. `fate` and `failed` are history. An octet on the I2C bus is known by the
register it is of.

### SpiRadio, Uart

`SpiRadio` has the commands of main against one of the callback, an octet at a time,
with the chip select of each. An octet takes longer on the bus than the interrupt
needs to find a flag set. An interrupt within a frame spoils only the two commands it
joins (`crossed`); what must not happen is that anything is spoilt beyond them.
`Uart` counts ticks of `OCTET` to an octet: line in, shift register out, one of the two
firmwares' handlers, and the packets of `radioprint` between interrupt and main loop.

### ProcessKernel

`stack` is the C stack: a frame for each loop over `process_list` in progress and
for each thread being called. A running thread may do anything a thread may do
(`Deeds` says which kinds of call a process makes), in any order and number,
before it yields or ends. Interrupts only poll the processes in `Polled`. The loops read `next` of the element they are at when the call they made
has returned, whatever happened to the element meanwhile, as the code does.
`wanted`, `audience` and `heard` are history.

### Etimer, Clock, Board

`clock_time_t` is `CLOCK_RANGE` wide and every comparison is made modulo it.
Ticks may arrive between two iterations of the scan. `age` is history: the
true time since `start`, which the wrapping clock cannot tell. One interrupt may
account for several ticks (the `do ... while` of `timera1`). `MaxLag` bounds how
late the main loop serves a poll: without such a bound, a timer whose interval is
near the range of the clock looks unexpired again. The processes in `Mortal` exit and
start again. `TimerService` knows neither list nor cached expiration nor modulo: the
mapping gives it `interval - age` as the ticks left. `Clock` is the interrupt against
the two functions that read more than one word, and the comparisons of passive timers. `Board`
has the fields of the clock registers, what each clock was told last (`told`, history) and
which of them another call has set back since (`undone`); and the watchdog's counter with the
points of the scheduler loop that start, stop or clear it.
The list without some timers (`Without`) is written by the rank each has among those
kept, not with `SelectSeq`, whose recursion could not be reasoned about.

### CallbackTimer and PacketQueue

A callback timer's event timer is one of `TimerService`: `Etimer` is shown to
implement it, so `PacketQueue` need not repeat list, clock and scan. All calls
are made by processes, between which the kernel switches only at yields, so each is
one step; what interleaves is the delivery of TIMER events with everything else.
An item stands for its block, its buffer pointer and its lifetimer, all of which are
used again with the block. `mortal` is history: the packets that were queued with
a lifetime. `memb_alloc` takes the lowest free block as the code does; reference counts
are sets, as no count exceeds one.

### PacketBuf and Mmem

No interrupt touches either; each function is one step, and what is hard is the
sequence of calls. `PacketBuf` is the array with its pointers, byte by byte;
`PacketService` only knows header, data and addresses as sequences, and the mapping
reads them where the pointers say. The application keeps what `packetbuf.h` asks of
it: headers are taken off incoming packets only, and a packet is compacted before it is
sent. It may give a reference of any length, as the code does not look: `spilled` is
history and says that `packetbuf_compact` has copied one that was too long beyond the end
of the array. What lies there belongs to others, and the behaviour ends there.
`PacketService` excepts two cases by name: a refused header (`NoRoom`) and the sending of
data too long (`TransmitTooLong`). `Mmem` is the heap byte by byte, with an owner who writes into his block and must
find it unchanged.

### LinkedList, Protothread, Mt, Codes, Rtimer, Sensors

`LinkedList` has two lists over the same items, because an item has one `next`
for both. `Protothread` resumes a thread at its local continuation; its program is the
bounded buffer of `pt-sem.h`'s documentation, and `PROCESS_PAUSE` and its like are rows of its steps. `Mt` preempts anywhere; `mtarch` is
modelled from `mt.h`. `Codes` are functions of bits and 16-bit halves, and a receiver
that looks at damaged symbols. `Rtimer` has the compare interrupt between two stores of
`rtimer_set`, which may be given the task that is pending. `Sensors` starts when its process has been initialised.

### RingBuf, SerialLine, Slip

`ringbuf_put` and `ringbuf_get` are split into test, store or load, and advance,
one context each. `SerialLine` takes these steps one by one, so the interrupt falls
between any two of the process's. A character is known by its line
and position, so that a mixture of two lines can be told from a line; the kernel
is the poll flag of the process and an event queue that others also fill. In `Slip` a
character bears the number of its frame for the same reason; the other side is at a
position of the frame it is sending, any byte of which the line may lose; the handler
copies byte by byte with interrupts enabled, and its tests of `state` and its stores are
steps.

### HostReader

The sensor's thread and the window's timer are two threads; one bytecode is one
step, as the interpreter's lock makes it, and a sample is its number. `program` chooses
the reader. Both readers with a callback are also modelled while they are made: the zizi's is
set last, the wiimote's first, so that a message may come before there are lists, or
between the list of times and that of values. The robot is the arithmetic of
`vizual/robot.py` in whole rotations, with the two lengths it has: the body comes down by
that of the leg, 6, while the foot is 5.5 below the point the leg turns about.

## 4. Runs

| Run | Asks | Bounds, and why they are enough |
|---|---|---|
| `events` | invariant of the event queue, refinement of `EventService`, waiting events run; `sensors_process` tells every change | 3 slots, 2 events: the ring wraps, is empty, partly and completely full, and the running entry is distinct from the oldest and the newest waiting one; 2 sensors, 2 readers on either side of the process, an event queue of 2 that others fill |
| `state_chain` | slots in step with queue and executions owed; refinement of `EventService` by the states accepted; when a state is active without having been executed | 2 slots in each queue: both can be full first |
| `timer_a` | times, counts, slots | counter of 6 ticks (every wait wraps), 2 slots (one being written while the other fires), counts 1 and 3, `COUNT_RANGE` 4, so that 3 is `TIMER_COUNT_INFINITE` |
| `rtc_two` | see findings | two alarms, times up to 8 |
| `process_kernel` | re-entry, `process_current`, sleep, list, polls, broadcasts | 3 processes: one with every deed, one that calls, one that only yields, so one is called, one before and one after it; a queue of one event (always on the edge of full); nesting is bounded by the processes themselves, as none is entered twice |
| `etimer` | refinement of `TimerService`, never overlooked, posted in the end | clock of 8 ticks, intervals of 1 and 2, catching up 2 ticks, 2 timers of 2 processes one of which exits, a queue of one event |
| `etimer_lost` | see findings | an interval of 5, above half the range; both processes exit |
| `serial_line` | refinement of `ByteFifo`; no mixture, nothing stuck | buffers of four bytes, three usable, lines of up to four characters: `rxbuf` overflows when the process is slow, `buf` when it is not, in the middle, at the end and across a line's end; event queue of 2 |
| `packet_queue` | pools, lifetimes, order, expiry | 2 items over one buffer and one reference (each of the allocations fails first in some state), lifetimes 0 to 2, one application timer, 2 events |
| `sensor_node` | samples are what they are taken for; reports of sends are true; no busy-wait is for ever, the node listens again | one frame to send, one of another node for this one, one for another (each frame may be sent again and again, so one of a kind is enough); a FIFO of 5 pieces, one more than a frame, so that the rest of a cut frame meets the next and overflows; registers of two coordinates and of one command |
| `slip` | packets are frames; each is taken | 3 frames of up to three characters, escaped ones among them (`Packets`), a buffer of 5: two packets fit, the third does not; one byte lost anywhere |
| `services` | one property or two for each of twenty parts | see below |

`MCServices` chooses one part in the initial state and leaves the others where they
began. They share no variable, so that interleaving them would multiply states
and show nothing. `Starts` gives the parts that were not chosen one initial value.
The bounds of each part:

| Part | Bounds |
|---|---|
| packet buffer | 3 bytes of data and of header, payloads of 1 and of 4 bytes (one is clipped if it is copied, and too long if it is a reference), headers of 1, foreign frames too short and long enough; sequences of `MaxOperations` = 8 calls |
| managed memory | 3 bytes, 3 blocks of 1 or 2 |
| real-time tasks | counter of 5, 2 tasks, 2 or 4 ticks ahead (below and above half), one tick passing within a call |
| lists | 2 lists, 3 items |
| clock | counter of 32, interval of 3 (ticks wrap), words of 2 values, a handler up to `MaxLag` = 4 late (more than one interval), a reading up to `MaxReading` = 6 long |
| passive timers | times below 16, intervals 1, 2 and 5 |
| protothreads | buffer of 2, 3 items, so that the producer waits; one event that continues a pause |
| UART | an octet takes 3 ticks, octets and packets numbered modulo 4, packets of 1 and 3, 2 posted events |
| codes | 4 bytes of which one has all bits set and one none, messages of up to 3; damage of each bit, each symbol and bursts |
| random numbers | seeds at the edges of both halves, `.noinit` values of both kinds, 60 numbers |
| threads | 2 |
| VLO | 4 radio ticks of 3 units to a second, VLO ticks of 5, a handler up to 4 late, so that a radio tick is lost |
| radio commands | one register, PKTLEN, which init tests, one value and the test value, one strobe, 2 commands of main, 1 edge |
| real-time clock | 4 and 2 ticks to a second, times 0 and 3, one alarm at most 2 ahead, 6 seconds. A delay of one second is left out: its date may come within the call |
| time base | overflow at 4, `master_time` modulo 3 |
| ADC, button | 2 functions |
| board | 8 MHz and an uncalibrated 3, divisions by 1, 4 and an impossible 3, a watchdog that resets after 3 ticks |
| host readers | 4 samples, screens of 1 and 3 |
| robot | a leg turns 3 rotations out, 3 walks |

`CHECK_DEADLOCK` is off where a program may stop: a behaviour of
`services` ends with its bound, one of `events` sleeps when nothing posts, one of
`slip` ends with the last frame, and `rtc_two` stops its clock.

### Fairness

* `EventQueue`: the CPU executes the main program while it is awake, and a
  periodic alarm whose callback returns 1 keeps interrupting (sensorssend arms
  one for ever). Without that interrupt an event that is posted between the test
  and LPM0 waits until the next one, which the code does nothing about. In
  `MCEvents` this fairness holds in the behaviours of the event queue, the next one
  in those of the sensors.
* `Sensors`: the process goes on scanning and the kernel polling (weak fairness);
  taking an event from the queue and delivering it is strongly fair, because
  `process_run` is one `do_poll` followed by one `do_event`, while interrupts may ask
  for polls all the time.
* `ProcessKernel`: the main program's steps are weakly fair. Of the steps a
  thread may take, only yielding or ending is fair, strongly for each process: a
  thread that calls others for ever without returning is a bug of the thread. The
  interrupts have no fairness.
* `Etimer`: the clock ticks, scans go on (weak fairness), and events are
  delivered although scans may come between (strong fairness: every
  `process_run` is one `do_poll` followed by one `do_event`).
* `SerialLine`: the same two for poll and delivery; input has no fairness.
* `PacketQueue`: time passes and events are delivered (weak fairness), and a timer
  that is due is posted although the queue may be full again and again (strong
  fairness): that is `DueTimerPosted`, which the run `etimer` checks. The users have
  no fairness.
* `SensorNode`: the main program's transfers and sends, the interrupt, the USCI and
  the radio's own transitions go on (weak fairness for each: they are separate pieces
  of hardware, and a pending interrupt comes before main's next step). Nobody need send, sample
  or be received.
* `Slip`: the handler goes on; the line need not.

## 5. Proofs

`tlapm` checks the theorems for every value of the constants that satisfies the
assumptions.

* `NativeProofs`, event queue, from `SizeAssumption` and `NoEventAssumption`:
  `InvariantHolds` (`Spec => []IInv`), `QueueImplementsService` and `EntriesAreKept`. `IInv` adds to
  the types that the loop body has an entry, that the entry being executed is
  still the one at `queue_start`, and that all live slots hold events. The
  refinement needs the second: `event_process` loads an entry, calls it for as long
  as it takes and removes "the oldest" afterwards, so that the entry removed
  is the entry called only because nothing overwrote or moved it. The argument
  per action is index arithmetic modulo the size (`RingArithmetic`): the slot a
  post writes differs from all live ones, and removing the oldest shifts the
  sequence by one. `EntriesAreKept`, the action property, follows from the same two
  facts: every other step leaves the sequence alone or appends to it.
* `StateChainProofs`, state chains, from `LengthAssumption`, `QueueAssumption` (the event queue is at least as
  long as the queue of data slots; both are 8 in the code), `NullAssumption` and `ChainAssumption`:
  `ActiveStateIsExecuted`, `ChainExecutesInOrder` and `SlotsAreAccounted`. What a
  data slot holds is not inductive alone: one has to know that entries of the
  event queue are slots (`InRing`), that the slot `exec_func` is at is taken and
  in no other entry (`RunningHeld`), and at which points of main and of
  `exec_func` an alarm may strike together (`Phases`). With it, the states that the slots
  in the event queue lead to are those owed, behind the one that has just been executed
  (`HeldIs`), and each step of either queue maps to one of `EventService` or a stutter: an
  accepted transition appends its state, `CallExec` serves the oldest, `RemoveEvent` takes
  it away, an execution refused by either queue leaves the service as it is. That
  `exec_state` takes a free slot is what this rests on: a search that could return one in
  use would change the state of an entry already held. That a slot is lost only
  as `LeakedByFullQueue` says is a pigeonhole argument: a full event queue holds as
  many different slots as there are, so none is free.
* `NativeProofs`, alarms, from the ranges and `WaitAssumption` (no delay is shorter than the call that sets
  it or than the latency of a handler): `AlarmsStayOnTime` and `AlarmsAreCalledAsAsked`. The invariant
  says of each slot which stores of a call have been made: a slot at rest counts what
  is owed and is as far ahead of TAR as asked (`Rests`), one being set raises no interrupt before
  its fields are complete (`BeingSet`), one being cancelled may do so until its
  interrupt is disabled (`BeingCancelled`). The proof corrected the property: `OnTime` holds of slots that
  main is not writing.
* `KernelProofs`, from the assumptions on constants and `~ExitsRunningCaller`, which the theorems state:
  `KernelStaysConsistent`, `PollsAreNotLost` and `BroadcastsReachAll`. The hypothesis is needed: a
  process that ends inside its own call is marked running off the list (section 6). Three
  layers: what linking and unlinking an element does to a walk that began anywhere in the
  list (`Reachable`, the least closed set); what may lie on what on the C stack
  and which process each frame holds; and `IInv`, one lemma per action. A walk
  holds a pointer into a list that the call it makes may change under it; that it
  still meets whatever it has to is what the first layer is for.
* `EtimerProofs`. `EtimersImplementService` needs no more than that the clock tells the age of a
  timer modulo its range (`Tells`, in `IInv`) and that every interval, with the time main takes to look, fits
  that range (`IntervalAssumption`); a step of the abstract timers or a stutter is found for
  each action, and a tick of any length elapses at most the longest interval.
  `TimersStayWatched` has `ShortIntervals` as a hypothesis: no interval, with the ticks one
  interrupt may catch up, reaches beyond half the range. That is what the comparison with
  MAX_TICKS at `clock.c:82` can tell, and the run `etimer_lost` shows a timer overlooked
  without it. The inductive invariant adds that the cached expiration lies at or before
  that of each timer still to come, by no more than its interval (`Cached`), which
  survives the exit of a process, where the cache is left alone.
* `StateChainProofs`, the node, from `FrameAssumption`, `FifoAssumption` (a frame fits into
  the FIFO), `RegisterAssumption` and `OctetAssumption`: `SamplesStayFresh` and
  `UncutSendsAreTrue`. Of a transfer the invariant says at each point which flags are set and
  where the bus is (`InStep`), as long as the module has not been taken away and no stop
  came late; of a send that nothing has cut, that the FIFO holds what was written so far
  and the radio does nothing before it is told to (`Uncut`).
* `PacketQueueProofs`, the queue, from the assumptions on sizes and a finite set of timers: `QueueStaysConsistent` and
  `PacketsLeaveInOrder`. What the property lacks to be inductive is that no packet is on the
  queue twice and no timer on the list of callback timers (`Once`); taking one away would
  leave its block both queued and free.
* `PacketQueueProofs`, SLIP, from `BufferAssumption`: `PacketsStayFrames`. The invariant says what
  each of the two parts of the cyclic buffer holds while it fills, from `begin` to `pkt_end` and
  from there to `end`, and what the handler has copied of the first.
* `PartProofs`, managed memory, from `MmemAssumption`: `BlocksStayIntact`. `BlocksIntact` is inductive as
  it stands. What makes it so is that `Layout` orders all pairs of blocks in the
  list, not only neighbours: a free moves all blocks behind the freed one by its size,
  the first loop the bytes, the second the pointers, and the proof has to find each
  byte of each block that is kept in the part that moved or in the part that did
  not (`FreeKeeps`).
* `PartProofs`, the packet buffer, from `SizesAssumption` and `OctetAssumption`: `PointersStayInBounds`. The
  inductive invariant is the property: the pointers, the lengths with the pointers they
  are measured from, that a queued packet fits into the buffer it will be taken
  back into, and that nothing is written beyond the array but by `packetbuf_compact` of a
  reference too long. One lemma per operation; a restored packet needs `QueuedFits`.
* `ServiceProofs`, the ring buffer, from the assumption on `BUFSIZE`: `InvariantHolds` and
  `RingIsFifo`. The inductive part is what each side knows between its accesses:
  room found by `ringbuf_put` stays (the other side only makes more), the byte
  loaded by `ringbuf_get` is still the oldest when `get_ptr` moves. The linearization
  points are the two pointer updates, or the test when it fails.
* `ServiceProofs`, the serial line, from `LineAssumption`: `LinesStayWhole` and `LineUsesFifo`. What the
  process's buffer, the ring and the interrupt hold is one piece of the input from which
  whole tails of lines may be missing: each character is followed by the next one of its
  line or by an end (`HeldInOrder`, `SenderInOrder`).
* `ServiceProofs`, the packet: `PacketbufIsPacket`. That every pointer is in bounds makes the bytes
  read the bytes written, for each operation; that a packet copied into the queue is all
  data (`QueuedWhole`) makes its way back a step of the abstract packet.
* `ServiceProofs`, parts of `services`, each for every behaviour of `ServicesSpec` (an invariant of one
  part, kept by its steps and by those of the others, `StepsOfParts`):
  `PeripheralsDoAnswer` (`VloAssumption`, `PeripheralsAssumption`, `BoardAssumption`), `ThreadsDoAlternate`
  (`BufferAssumption`, `MtAssumption`), `PortPassesAll` (`UartAssumption`: octets come no
  faster than they are sent), `TasksAreExecuted` (`AheadAssumption`), `RobotStaysUpright`
  (`RobotAssumption`), `CommandsDoArrive` (`SpiAssumption`). Three of the four parts of `TimeIsTold`, the
  passive timers, the time base and the real-time clock, are proved as lemmas
  (`TimersDoTell`, `TimebaseTells`, `RtcDoesKeepTime`).

What stays with TLC: liveness and what rests on fairness (events that run, polls served, timers
posted, lifetimes that end, input consumed, packets taken, the node that goes on: fairness and
ENABLED are out of the prover's reach); `ChangesAreRead`, which is liveness too; `ClockKeepsTime` of
`TimeIsTold`; `ImplementsLists` and `CurvesHonest`. What recursive definitions compute
could not be proved with the provers installed (their induction theorems take operators as
parameters): `NumbersAsMeant`; no module that is proved about reaches one.

## 6. Findings

Where the code does not do what it says; each is a run TLC ends with a
counterexample.

* **A second alarm destroys the list** (`rtc_two`). `rtc_set_alarm` assigns
  `next_alarm` before reading it: the new first alarm follows itself.
* **A timer that is not posted** (`etimer_lost`). On a process exit the cached
  expiration is not recomputed; a timer with more than half the range of the clock
  waits until the clock has come round.

### Seen in the models

No run ends in these. The properties exclude them by name, with a history variable or a
premise that a reader finds next to the property.

Native firmware:

* A state becomes active and is never executed when `exec_state` finds no free data slot or
  `event_post` drops the event; `st_notify_event` updates `active_state` all the
  same (`ActiveStateExecuted` admits exactly these). `exec_func` clears `func` before
  `data`: an alarm between the two takes the slot and has its event wiped (`ClearData`).
* `rx_cb` cuts a `mac_send` that has begun: the frame is lost, or its rest is sent with
  the next one, and the result is reported as a success when the next packet ends. A
  radio told to transmit while its FIFO is empty is mute (`Mute`) until the next send makes it idle.
* A transfer that the radio's interrupt steals is reported as done or as failed, as the
  flags happen to stand; `i2c_read` asks for the stop after the last octet, late for
  one, which stays in the buffer and is the first octet of the next transfer. The
  drivers of the sensors ignore the result.
* `radioprint` prints a packet made of two when another is received meanwhile; its
  event may wait for a packet that has been printed already.
* `rtc_set_aclk_frequency` within a tick of a second's end counts the second twice or not at all, and
  calls the interrupt handler itself; a second is `frequency + 1` ticks. An alarm whose
  second comes between the test and the insertion is placed and never called.
  `rtc_set_time` past a date silences an alarm, and back makes it ring twice.
* A callback of `adc_sample_temp` that asks for the next sample has its request
  cleared when it returns; main starts the conversion before it stores the
  callback. `button_init` without `button_stop` before may call the former function.
* `timer_start` and `timer_stop` clear the counter under alarms that are set (alarms and
  time base are two machines here).
* `clock_smclk_set` with the DCO as source masks the register with `SELS` where it
  means to clear it (`KeepSource`): MCLK loses source and division, and an SMCLK that
  runs from the VLO goes on doing so. `clock_dco_set` undoes the division of ACLK. So `tests/led` does not
  run at the 125 kHz its comment gives (`tests/led/main.c:11`).

Contiki port:

* A process that has exited runs on: `process.h` allows `process_exit` of the process
  that executes; when its thread then yields, `call_process` marks it running
  again, off the list (`ExitsRunningCaller` lets a model look at it; the run has it
  `FALSE`). `needspoll` survives an exit: the next
  incarnation gets a poll. A pause (`PROCESS_PAUSE`) is ended by any event.
* A packet queued in the block of one dequeued while the TIMER event of its lifetimer is in the
  queue is removed at once: stopping a callback timer does not take the event
  back. A packet without a lifetime is safe from it, as `LeavesInOrder` shows.
* A queued line is overwritten before it is read when the event queue has room
  for the broadcast and not for the CONTINUE event behind it (`SerialLine`, `EndLine`).
* `rtimer_set` overwrites a pending task, which is then never run.
* `packetbuf_hdralloc` refuses a header that fits exactly, and a refused one leaves `hdrptr`
  at 0: all of the room is allocated, and what it holds goes out with the packet
  (`packetbuf.h:294-296`: "returns zero and does not allocate anything"). `PacketService` admits
  it as `NoRoom`. `packetbuf_dataptr` is not where the header says
  (`packetbuf.h:105`) once headers have been reduced; `queuebuf_to_packetbuf` clips what does not fit and, for a
  reference, loses the addresses.
* `packetbuf_reference` takes data of any length (`packetbuf.c:246-252`), and when it is sent
  `packetbuf_compact` copies all of it (`packetbuf.c:141-148`), over whatever lies behind the
  array. `InBounds` admits this one write, `SpilledByReference`, and no other.
* The comment of `list_tail` promises "the element after the first element" (`list.c:106-116`); the
  function returns the last one, as its caller `list_add` needs it (`list.c:149`), and `ListService` follows the code.
* `sensors_process` clears a flag after the event was delivered: a change reported
  meanwhile is forgotten, unless it is one the reader finds.
* A second packet completed between SLIP's `begin = pkt_end` and its test of
  `STATE_TWOPACKETS` is taken for a part of the first (`merged`).
* A tick interrupt exactly a multiple of the interval late loses one round of the counter
  (`missed`), though the comment at `clock.c:61` says late ones are caught up.
  `timer_reset` of a timer that has not expired moves it into the future, as its
  comment warns; `stimer` comparisons hold for half the range.
* The example in `pt-sem.h` joins its two threads with `&`, whose operands C evaluates in
  either order: each round of the driver calls both, first one or first the other.
* The port's UART receive handler tests the transmitter's flag.
* The division of MCLK that `msp430_init_dco` sets is undone by its next statement; the clock
  then runs as its comment says.
* `random_rand` returns at most 32767, where `random.h:43` has 65535 values. Its state is in memory
  that survives a reset and may hold anything at the first.
* `mt_exit` may be preempted, and its state then says ready although it has exited.

Host:

* `ZiziReader.get_new_data` takes the dict and makes a new one: a sample between the two is
  lost, repeated, or given to x and not to y. `max` of a screen without samples
  raises. Curves of the wiimote are out of step after the same race, and for ever after
  one of another kind: `WiimoteReader` sets its callback before it makes the lists
  (`wiimote_reader.py:11-17`), so that a message that comes between the first two lists is in
  `t` and not in `x`, and one that comes before them raises in the callback. `CsvReader` never
  delivers the last sample.
* The robot's legs turn 18 rotations back for 17 out: it sinks by a rotation's height with
  every walk. Within a walk its feet go into the ground: the body comes down as for a leg
  of 6 (`robot.py:168-172`), the feet are 5.5 below the hips (`robot.py:134-140`).

## 7. Not modelled

* Register set-up: PWM, LEDs, reference voltages; they keep no state that two contexts
  share. `watchdog_reboot` and `sbrk` have no caller.
* `clock_set`, `clock_wait`, `clock_delay`, `etimer_adjust`: nothing calls them.
* `libconio`, `petsciiconv`, `strncasecmp`, `arg`, `checkpoint`, `assert`: not linked into the
  image, or empty functions. `ezmac.c` has empty send and read functions.
* The 16-bit halves of the native clock's `time_seconds`: accesses are one step. `Clock` shows what the
  same question looks like where the code answers it by reading twice.
* Nested interrupts: no handler of the repository enables interrupts.
* What the windows of the host draw, spectra and scales; the vendored `dualscope`
  and TI's example code.
* Attributes of packets other than the two addresses; SLIP's checksums; the
  identification field of IP headers.
* `sensors_changed` before `sensors_process` has started.
* Alarms that run while Timer A is stopped and started; several chains over one event
  queue; a node's MAC and event queue in one machine (section 2, point 7).
