-------------------------------- MODULE Usci --------------------------------
(***************************************************************************)
(* The I2C master of drivers/usci.c.  USCI B0 serves the radio (SPI) and   *)
(* the sensors (I2C): each function that finds the module in the other     *)
(* mode sets it up again, which drops whatever it was doing.               *)
(*                                                                         *)
(* The transfers busy-wait on the module's flags in the main program, with *)
(* interrupts enabled; a radio callback may take the module away between   *)
(* any two accesses.  The module and the slave at the other end are        *)
(* outside the repository.  An octet is known by the register it is of.    *)
(***************************************************************************)
EXTENDS Naturals, Sequences, FiniteSets

CONSTANTS
  Register,  \* the registers of the sensors
  NoOctet    \* what a buffer holds that was never written

ASSUME OctetAssumption == NoOctet \notin Register

VARIABLES
  ucb_mode,  \* NONE, SPI or I2C
  bits,      \* the bits of UCB0CTL1, UCB0STAT and IFG2 that are set
  loaded,    \* UCB0TXBUF holds an octet not yet sent
  rxbuf,     \* UCB0RXBUF
  line,      \* the bus: "free", "address", "out" (to the slave), "in"
  call,      \* the transfer in progress
  stolen,    \* history: its module was set up for SPI meanwhile
  late       \* history: a stop was asked for when its octet was already there

usciVars == <<ucb_mode, bits, loaded, rxbuf, line, call, stolen, late>>

Bit == {"UCTR", "UCTXSTT", "UCTXSTP", "UCNACKIFG", "UCB0TXIFG", "UCB0RXIFG"}

Points == {"idle", "config", "start", "first", "stt", "next", "restart",
           "stt_in", "in", "stop", "last", "stp"}

\* op: i2c_write, i2c_read or i2c_write_read; left: octets still to transfer;
\* data: the octets read; ret: what the function returned, or will; stale: the
\* buffer may hold an octet of an earlier transfer.
Call == [op : {"write", "read", "write_read"}, reg : Register \cup {NoOctet}, left : 0 .. 2,
         pc : Points, ret : {"ok", "ERR_I2C_BUSY", "ERR_ADDR_NACK", "ERR_DATA_NACK"},
         data : Seq(Register \cup {NoOctet}), stale : BOOLEAN]

UsciTypeOK ==
  /\ ucb_mode \in {"NONE", "SPI", "I2C"}
  /\ bits \subseteq Bit
  /\ {loaded, stolen, late} \subseteq BOOLEAN
  /\ rxbuf \in Register \cup {NoOctet}
  /\ line \in {"free", "address", "out", "in"}
  /\ call \in Call

NoCall == [op |-> "write", reg |-> NoOctet, left |-> 0, pc |-> "idle",
           ret |-> "ok", data |-> <<>>, stale |-> FALSE]

UsciInit ==
  /\ ucb_mode = "NONE"
  /\ bits = {} /\ loaded = FALSE /\ rxbuf = NoOctet /\ line = "free"
  /\ call = NoCall
  /\ stolen = FALSE /\ late = FALSE

InTransfer == call.pc # "idle"
At(pc) == call.pc = pc
IsSet(bit) == bit \in bits

-----------------------------------------------------------------------------
(***************************************************************************)
(* Setting up.                                                             *)
(***************************************************************************)

\* UCSWRST clears the flags; the transmit buffer of an idle SPI is ready.
SetUp(mode) ==
  /\ ucb_mode' = mode
  /\ bits' = IF mode = "SPI" THEN {"UCB0TXIFG"} ELSE {}
  /\ loaded' = FALSE
  /\ line' = "free"
  /\ late' = FALSE
  /\ UNCHANGED rxbuf

i2c_init ==
  IF ucb_mode = "I2C" THEN UNCHANGED <<ucb_mode, bits, loaded, rxbuf, line, late>>
                      ELSE SetUp("I2C")

\* spi_select_radio: spi_init if the module is not in SPI mode.
spi_select_radio ==
  IF ucb_mode = "SPI" THEN UNCHANGED <<ucb_mode, bits, loaded, rxbuf, line, late>>
                      ELSE SetUp("SPI")

\* The radio's octets are read back at once: afterwards no octet is waiting.
SpiTransfers ==
  /\ IF ucb_mode = "SPI"
     THEN /\ bits' = (bits \cup {"UCB0TXIFG"}) \ {"UCB0RXIFG"}
          /\ loaded' = FALSE
          /\ UNCHANGED <<ucb_mode, rxbuf, line, late>>
     ELSE SetUp("SPI")
  /\ stolen' = (stolen \/ InTransfer)
  /\ UNCHANGED call

-----------------------------------------------------------------------------
(***************************************************************************)
(* The transfers, access by access.  In SPI mode UCTXSTT and UCTXSTP are   *)
(* unused bits: a store may or may not stick, and nothing clears them.     *)
(***************************************************************************)
Goto(pc) == call' = [call EXCEPT !.pc = pc]
Store(set, clear) ==
  \E stuck \in IF ucb_mode = "I2C" THEN {{}} ELSE SUBSET {"UCTXSTT", "UCTXSTP"} :
    bits' = (bits \cup (set \ stuck)) \ clear
Fail(ret) ==
  /\ call' = [call EXCEPT !.pc = "stp", !.ret = ret]
  /\ Store({"UCTXSTP"}, {})

i2c_transfer(op, reg, len) ==
  /\ At("idle")
  /\ call' = [op |-> op, reg |-> reg, left |-> len, pc |-> "config",
              ret |-> "ok", data |-> <<>>, stale |-> FALSE]
  /\ stolen' = FALSE
  /\ UNCHANGED <<ucb_mode, bits, loaded, rxbuf, line, late>>

CheckConfiguration ==
  /\ At("config")
  /\ i2c_init
  /\ call' = [call EXCEPT !.pc = "start", !.stale = late']
  /\ UNCHANGED stolen

\* A slave may hold the clock: then the transfer is not begun.
BusBusy ==
  /\ At("start")
  /\ call' = [call EXCEPT !.pc = "idle", !.ret = "ERR_I2C_BUSY"]
  /\ UNCHANGED <<ucb_mode, bits, loaded, rxbuf, line, stolen, late>>

StartCondition ==
  /\ At("start")
  /\ IF call.op = "read" THEN Store({"UCTXSTT"}, {"UCTR"}) /\ Goto("stt_in")
                         ELSE Store({"UCTXSTT", "UCTR"}, {}) /\ Goto("first")
  /\ UNCHANGED <<ucb_mode, loaded, rxbuf, line, stolen, late>>

\* The first octet: of the data, or the number of the register.
FirstOctet ==
  /\ At("first") /\ IsSet("UCB0TXIFG")
  /\ bits' = bits \ {"UCB0TXIFG"}
  /\ loaded' = TRUE
  /\ call' = [call EXCEPT !.pc = "stt",
                          !.left = IF call.op = "write" THEN @ - 1 ELSE @]
  /\ UNCHANGED <<ucb_mode, rxbuf, line, stolen, late>>

AddressSent ==
  /\ At("stt") /\ ~IsSet("UCTXSTT")
  /\ IF IsSet("UCNACKIFG") THEN Fail("ERR_ADDR_NACK")
     ELSE /\ Goto(IF call.op = "write" THEN "next" ELSE "restart")
          /\ UNCHANGED bits
  /\ UNCHANGED <<ucb_mode, loaded, rxbuf, line, stolen, late>>

\* Mutant: only the acknowledgement is waited for.
AcknowledgedOnly == IsSet("UCB0TXIFG")

Answered == IsSet("UCB0TXIFG") \/ IsSet("UCNACKIFG")

NextOctet ==
  /\ At("next") /\ Answered
  /\ IF IsSet("UCNACKIFG")
     THEN Fail("ERR_DATA_NACK") /\ UNCHANGED loaded
     ELSE IF call.left = 0
     THEN Store({"UCTXSTP"}, {}) /\ Goto("stp") /\ UNCHANGED loaded
     ELSE /\ bits' = bits \ {"UCB0TXIFG"}
          /\ loaded' = TRUE
          /\ call' = [call EXCEPT !.left = @ - 1]
  /\ UNCHANGED <<ucb_mode, rxbuf, line, stolen, late>>

\* i2c_write_read turns the bus round.
Restart ==
  /\ At("restart")
  /\ Store({"UCTXSTT"}, {"UCTR", "UCB0TXIFG"})
  /\ Goto("stt_in")
  /\ UNCHANGED <<ucb_mode, loaded, rxbuf, line, stolen, late>>

MoreThanTheLast(left) == left > 1

AddressSentIn ==
  /\ At("stt_in") /\ ~IsSet("UCTXSTT")
  /\ IF IsSet("UCNACKIFG") THEN Fail("ERR_ADDR_NACK")
     ELSE /\ Goto(IF MoreThanTheLast(call.left) THEN "in" ELSE "stop")
          /\ UNCHANGED bits
  /\ UNCHANGED <<ucb_mode, loaded, rxbuf, line, stolen, late>>

\* Mutant: the octet is not waited for.
ReadUnready(pc) ==
  /\ bits' = bits \ {"UCB0RXIFG"}
  /\ call' = [call EXCEPT !.pc = pc, !.left = @ - 1, !.data = Append(@, rxbuf)]
  /\ UNCHANGED <<ucb_mode, loaded, rxbuf, line, stolen, late>>

ReadOctet(pc) ==
  /\ IsSet("UCB0RXIFG")
  /\ bits' = bits \ {"UCB0RXIFG"}
  /\ call' = [call EXCEPT !.pc = pc, !.left = @ - 1, !.data = Append(@, rxbuf)]
  /\ UNCHANGED <<ucb_mode, loaded, rxbuf, line, stolen, late>>

InOctet ==
  /\ At("in")
  /\ ReadOctet(IF MoreThanTheLast(call.left - 1) THEN "in" ELSE "stop")

\* The stop is to be asked for while the last octet is on the bus.
Stop ==
  /\ At("stop")
  /\ Store({"UCTXSTP"}, {})
  /\ late' = (late \/ IsSet("UCB0RXIFG"))
  /\ Goto("last")
  /\ UNCHANGED <<ucb_mode, loaded, rxbuf, line, stolen>>

LastOctet == At("last") /\ ReadOctet("stp")

Return ==
  /\ At("stp") /\ ~IsSet("UCTXSTP")
  /\ Goto("idle")
  /\ UNCHANGED <<ucb_mode, bits, loaded, rxbuf, line, stolen, late>>

I2cStep ==
  \/ CheckConfiguration \/ BusBusy \/ StartCondition \/ FirstOctet \/ AddressSent
  \/ NextOctet \/ Restart \/ AddressSentIn \/ InOctet \/ Stop \/ LastOctet
  \/ Return

-----------------------------------------------------------------------------
(***************************************************************************)
(* The module and the slave.                                               *)
(***************************************************************************)
SendsStart ==
  /\ ucb_mode = "I2C" /\ IsSet("UCTXSTT") /\ line # "address"
  /\ bits' = (bits \ {"UCNACKIFG"})
             \cup (IF IsSet("UCTR") THEN {"UCB0TXIFG"} ELSE {})
  /\ line' = "address"
  /\ UNCHANGED <<ucb_mode, loaded, rxbuf, call, stolen, late>>

\* The slave acknowledges its address or does not.  To a slave that receives
\* the address is sent when the first octet is there.
SendsAddress ==
  /\ ucb_mode = "I2C" /\ line = "address" /\ (IsSet("UCTR") => loaded)
  /\ \E ack \in BOOLEAN :
       /\ bits' = (bits \ {"UCTXSTT"})
                  \cup (IF ~ack THEN {"UCNACKIFG"}
                        ELSE IF IsSet("UCTR") THEN {"UCB0TXIFG"} ELSE {})
       /\ line' = IF ack /\ ~IsSet("UCTR") THEN "in" ELSE "out"
  /\ loaded' = FALSE
  /\ UNCHANGED <<ucb_mode, rxbuf, call, stolen, late>>

SendsOctet ==
  /\ ucb_mode = "I2C" /\ line = "out" /\ loaded /\ ~IsSet("UCTXSTP")
  /\ \E ack \in BOOLEAN :
       bits' = bits \cup {IF ack THEN "UCB0TXIFG" ELSE "UCNACKIFG"}
  /\ loaded' = FALSE
  /\ UNCHANGED <<ucb_mode, rxbuf, line, call, stolen, late>>

\* A stop asked for meanwhile follows the octet.
ReceivesOctet ==
  /\ ucb_mode = "I2C" /\ line = "in" /\ ~IsSet("UCB0RXIFG")
  /\ rxbuf' = call.reg
  /\ bits' = (bits \cup {"UCB0RXIFG"}) \ {"UCTXSTP"}
  /\ line' = IF IsSet("UCTXSTP") THEN "free" ELSE "in"
  /\ UNCHANGED <<ucb_mode, loaded, call, stolen, late>>

SendsStop ==
  /\ ucb_mode = "I2C" /\ line = "out" /\ IsSet("UCTXSTP")
  /\ bits' = bits \ {"UCTXSTP"}
  /\ line' = "free"
  /\ UNCHANGED <<ucb_mode, loaded, rxbuf, call, stolen, late>>

\* An octet of a stolen transfer goes out to nobody.
SendsSpiOctet ==
  /\ ucb_mode = "SPI" /\ loaded
  /\ loaded' = FALSE
  /\ bits' = bits \cup {"UCB0TXIFG", "UCB0RXIFG"}
  /\ rxbuf' = NoOctet
  /\ UNCHANGED <<ucb_mode, line, call, stolen, late>>

UsciStep ==
  \/ SendsStart \/ SendsAddress \/ SendsOctet \/ ReceivesOctet \/ SendsStop
  \/ SendsSpiOctet

-----------------------------------------------------------------------------
(***************************************************************************)
(* Properties.                                                             *)
(***************************************************************************)

\* A transfer that reports success has read octets of its own register only,
\* unless a callback took the module away in the middle of it, or a stop asked
\* for too late has left an octet behind, which every later transfer then reads
\* first until the module is set up again.
ReadsItsOwn ==
  At("idle") /\ call.ret = "ok" /\ ~stolen /\ ~call.stale =>
    \A i \in DOMAIN call.data : call.data[i] = call.reg

\* Whatever the slave acknowledges, a busy-waiting transfer returns, unless a
\* callback took the module away in the middle of it.
TransferReturns == InTransfer ~> ~InTransfer \/ stolen
=============================================================================
