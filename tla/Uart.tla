-------------------------------- MODULE Uart --------------------------------
(***************************************************************************)
(* The serial line: USCI A0 as drivers/usci.c of the native firmware and   *)
(* cpu/ez430/usci.c of the Contiki port drive it, octet against octet, and *)
(* appli/radioprint, which prints the packets the radio's interrupt hands  *)
(* it.  Time is counted in fractions of the time an octet takes on the     *)
(* line, which is the same in both directions.                             *)
(***************************************************************************)
EXTENDS Integers, Sequences

CONSTANTS
  OCTET,      \* ticks an octet takes
  Length,     \* lengths of packets
  MaxPosted,  \* room for events
  Numbers     \* bound: octets and packets are numbered modulo this

ASSUME UartAssumption ==
  /\ OCTET \in Nat /\ OCTET > 1
  /\ Numbers \in Nat /\ Numbers > 2
  /\ MaxPosted \in Nat \ {0}

VARIABLES
  port,      \* whose handler it is: "embedded" or "contiki"
  UCA0RXIFG, UCA0TXIFG, UCA0RXBUF, UCA0TXBUF,
  coming,    \* ticks until the octet on the line is complete, 0 if there is none
  going,     \* ticks until the octet in the shift register is out
  msg,       \* the packet received last, and `len'
  posted,    \* print events in the queue
  print,     \* the running print: its index i, and whether it waits
  next_in,   \* history: the octet that comes next, and the one the callback gets
  got,
  lost,      \* history: an octet was received over another, or sent over another
  cut,       \* history: a packet has come during this print
  shown      \* history: the packet received last has been printed from end to end

usciVars == <<UCA0RXIFG, UCA0TXIFG, UCA0RXBUF, UCA0TXBUF, coming, going, next_in, got, lost>>
printVars == <<msg, posted, print, cut, shown>>
uartVars == <<port, usciVars, printVars>>

NoPrint == [on |-> FALSE, i |-> 0, waiting |-> FALSE]
None == [id |-> 0, len |-> 0]

uart_init ==
  /\ port \in {"embedded", "contiki"}
  /\ UCA0RXIFG = FALSE /\ UCA0TXIFG = TRUE
  /\ UCA0RXBUF = 0 /\ UCA0TXBUF = <<>>
  /\ coming = 0 /\ going = 0
  /\ msg = None /\ posted = 0 /\ print = NoPrint
  /\ next_in = 0 /\ got = 0 /\ lost = FALSE /\ cut = FALSE /\ shown = TRUE

(***************************************************************************)
(* The receive interrupt.  The Contiki port's handler tests the flag of    *)
(* the transmitter: while an octet waits to be sent it returns having read *)
(* nothing, and is entered again at once.                                  *)
(***************************************************************************)
Handles == IF port = "contiki" THEN UCA0TXIFG ELSE UCA0RXIFG

(***************************************************************************)
(* USCI A0.                                                                *)
(***************************************************************************)
Receives ==
  IF coming # 1 THEN coming' = (IF coming = 0 THEN 0 ELSE coming - 1) /\ UNCHANGED <<UCA0RXIFG, UCA0RXBUF, next_in, lost>>
  ELSE /\ UCA0RXBUF' = next_in /\ UCA0RXIFG' = TRUE
       /\ next_in' = (next_in + 1) % Numbers
       /\ lost' = (lost \/ UCA0RXIFG)
       /\ coming' \in {0, OCTET}

Transmits ==
  IF going > 1 \/ UCA0TXBUF = <<>>
  THEN going' = (IF going = 0 THEN 0 ELSE going - 1) /\ UNCHANGED <<UCA0TXIFG, UCA0TXBUF>>
  ELSE going' = OCTET /\ UCA0TXBUF' = <<>> /\ UCA0TXIFG' = TRUE

\* A handler that does anything comes before the next tick.
UartTick ==
  /\ ~(UCA0RXIFG /\ Handles)
  /\ Receives /\ Transmits
  /\ UNCHANGED <<port, got, printVars>>

LineStarts ==
  /\ coming = 0 /\ coming' = OCTET
  /\ UNCHANGED <<port, UCA0RXIFG, UCA0TXIFG, UCA0RXBUF, UCA0TXBUF, going, next_in, got, lost,
                 printVars>>

\* The callback is given the octet.
usci_irq ==
  /\ UCA0RXIFG /\ Handles
  /\ UCA0RXIFG' = FALSE
  /\ got' = (got + 1) % Numbers
  /\ lost' = (lost \/ UCA0RXBUF # got)
  /\ UNCHANGED <<port, UCA0TXIFG, UCA0RXBUF, UCA0TXBUF, coming, going, next_in, printVars>>

(***************************************************************************)
(* radioprint: rx in the radio's interrupt, print in the main program.     *)
(***************************************************************************)
UartMain == ~UCA0RXIFG

\* event_post, whose refusal is ignored.
rx(n) ==
  /\ msg' = [id |-> (msg.id + 1) % Numbers, len |-> n]
  /\ posted' = IF posted < MaxPosted THEN posted + 1 ELSE posted
  /\ cut' = print.on /\ shown' = FALSE
  /\ UNCHANGED <<port, usciVars, print>>

PrintBegins ==
  /\ UartMain /\ ~print.on /\ posted > 0
  /\ posted' = posted - 1 /\ print' = [NoPrint EXCEPT !.on = TRUE] /\ cut' = FALSE
  /\ UNCHANGED <<port, usciVars, msg, shown>>

\* Mutant: uart_putchar stores without waiting.
AtOnce == FALSE

\* while (!(IFG2 & UCA0TXIFG)) behind each store.
Waits == TRUE

\* One step of the loop: the store of msg[i], if i < len.
uart_putchar ==
  /\ UartMain /\ print.on /\ ~print.waiting /\ print.i < msg.len
  /\ UCA0TXBUF' = <<msg.id>> /\ UCA0TXIFG' = FALSE
  /\ lost' = (lost \/ UCA0TXBUF # <<>>)
  /\ print' = [print EXCEPT !.i = @ + 1, !.waiting = Waits]
  /\ UNCHANGED <<port, UCA0RXIFG, UCA0RXBUF, coming, going, next_in, got, msg, posted, cut, shown>>

PutcharReturns ==
  /\ UartMain /\ print.waiting /\ UCA0TXIFG
  /\ print' = [print EXCEPT !.waiting = FALSE]
  /\ UNCHANGED <<port, usciVars, msg, posted, cut, shown>>

PrintEnds ==
  /\ UartMain /\ print.on /\ ~print.waiting /\ print.i >= msg.len
  /\ print' = [print EXCEPT !.on = FALSE]
  /\ shown' = (shown \/ ~cut)
  /\ UNCHANGED <<port, usciVars, msg, posted, cut>>

UartNext ==
  \/ UartTick \/ LineStarts \/ usci_irq
  \/ \E n \in Length : rx(n)
  \/ PrintBegins \/ uart_putchar \/ PutcharReturns \/ PrintEnds
-----------------------------------------------------------------------------
(***************************************************************************)
(* Properties.                                                             *)
(***************************************************************************)

\* Each octet that comes is given to the callback, once and in order, even by the
\* handler that tests the transmitter's flag: an octet that waits for the shift
\* register gets there before another one has come.  None is sent over another.
\* The packet received last has been printed, or will be from end to end: a print
\* event is waiting, or the running print began behind it.  Of a print that is cut
\* nothing is said: it may mix two packets.
OctetsAndPacketsPass ==
  /\ ~lost
  /\ shown \/ posted > 0 \/ (print.on /\ ~cut)
=============================================================================
