------------------------------ MODULE SpiRadio ------------------------------
(***************************************************************************)
(* The way of a radio command to the chip: platform/ez/dev/cc2500.c over   *)
(* the SPI functions of cpu/ez430/usci.c, access by access.  The native    *)
(* drivers/cc2500.c has the same text but for the checks of its init, and  *)
(* a client, mac/csma.c, that commands the radio from the interrupt of its *)
(* GDO0 line; on the Contiki port nobody sets a callback.                  *)
(*                                                                         *)
(* The USCI and the chip are outside the repository.  An octet is known by *)
(* what it was sent as: the header of a frame or data.                     *)
(***************************************************************************)
EXTENDS Integers, Sequences, FiniteSets, SequencesExt

CONSTANTS
  RadioRegister, PKTLEN,   \* registers of the radio, one is PKTLEN
  RadioValue, TEST_VALUE,  \* what they may hold
  Odd,                     \* an octet that was not sent as a value
  Strobe, SRES,            \* command strobes
  MaxCommands, MaxEdges    \* bounds: commands of main, edges of the GDO lines

ASSUME SpiAssumption ==
  /\ IsFiniteSet(RadioRegister) /\ PKTLEN \in RadioRegister
  /\ TEST_VALUE \in RadioValue /\ RadioValue # {TEST_VALUE}
  /\ Odd \notin RadioValue /\ Odd \notin RadioRegister
  /\ SRES \in Strobe /\ MaxCommands \in Nat /\ MaxEdges \in Nat

VARIABLES
  firmware,            \* "contiki" or "native"
  chip, chip_frame,         \* the radio, and how it takes the next octet
  CSn,                 \* P3.0: the radio listens while it is low
  shifting,            \* the shift register and UCB0TXBUF
  UCB0RXIFG, UCB0RXBUF,
  foreground, irq,           \* the commands of the main program and the interrupt
  todo,                \* what cc2500_init has still to do
  P2_IFG, gdo0_cb,      \* the GDO lines that had an edge; the callback is set
  commands             \* commands left for main, and edges left for the lines

spiVars == <<CSn, shifting, UCB0RXIFG, UCB0RXBUF>>
radioBusVars == <<firmware, chip, chip_frame, spiVars, foreground, irq, todo, P2_IFG,
                  gdo0_cb, commands>>

-----------------------------------------------------------------------------
(***************************************************************************)
(* The radio.                                                              *)
(***************************************************************************)
RadioHeader == {<<"write", r>> : r \in RadioRegister} \cup {<<"read", r>> : r \in RadioRegister}
            \cup {<<"txfifo">>, <<"rxfifo">>}
RadioFrame == {<<"header">>, <<"read", Odd>>} \cup RadioHeader
SentAs(octet) == IF octet[1] = "data" THEN octet[2] ELSE Odd

\* What the chip and its frame become by an octet.  Data where a header is
\* expected may be any command.
ChipTakes(octet) ==
  CASE chip_frame = <<"header">> /\ octet[1] = "strobe" ->
         {<<[chip EXCEPT !.strobes = Append(@, octet[2])], chip_frame>>}
    [] chip_frame = <<"header">> /\ octet[1] = "data" -> {<<chip, f>> : f \in RadioFrame}
    [] chip_frame = <<"header">> /\ octet[1] \notin {"strobe", "data"} -> {<<chip, octet>>}
    [] chip_frame[1] = "write" ->
         {<<[chip EXCEPT !.reg[chip_frame[2]] = SentAs(octet)], <<"header">> >>}
    [] chip_frame[1] = "read" -> {<<chip, <<"read", Odd>> >>}
    [] chip_frame[1] = "txfifo" -> {<<[chip EXCEPT !.tx = Append(@, SentAs(octet))], chip_frame>>}
    [] OTHER -> {<<[chip EXCEPT !.rx = @ + 1], chip_frame>>}

\* What it sends meanwhile: its status, a register, the next octet received.
Answer ==
  CASE chip_frame[1] = "read" -> IF chip_frame[2] = Odd THEN Odd ELSE chip.reg[chip_frame[2]]
    [] chip_frame[1] = "rxfifo" -> chip.rx + 1
    [] OTHER -> Odd

\* The USCI: an octet has been shifted out, and another in.  It takes 16 cycles
\* of the CPU or more, longer than an interrupt needs to find a flag set.
ShiftOctet ==
  /\ shifting # <<>> /\ ~(irq.pc = "take" /\ UCB0RXIFG)
  /\ shifting' = Tail(shifting) /\ UCB0RXIFG' = TRUE
  /\ IF CSn THEN UCB0RXBUF' = Odd /\ UNCHANGED <<chip, chip_frame>>
     ELSE /\ UCB0RXBUF' = Answer
          /\ \E outcome \in ChipTakes(Head(shifting)) : chip' = outcome[1] /\ chip_frame' = outcome[2]
  /\ UNCHANGED <<firmware, CSn, foreground, irq, todo, P2_IFG, gdo0_cb, commands>>

UCBUSY == shifting # <<>>

-----------------------------------------------------------------------------
(***************************************************************************)
(* The commands.                                                           *)
(***************************************************************************)
FifoData == <<"first", "second">>

Command ==
  {<<"strobe", s>> : s \in Strobe} \cup {<<"read", r>> : r \in RadioRegister}
    \cup {<<"write", r, v>> : r \in RadioRegister, v \in RadioValue}
    \cup {<<"txfifo">>, <<"rxfifo">>}

\* The octets of a command and the functions that send them.
single(octet) == [fn |-> "spi_write_single", octet |-> octet]
read == [fn |-> "spi_read_single", octet |-> <<"data", 0>>]
Transfers(c) ==
  CASE c[1] = "strobe" -> <<single(c)>>
    [] c[1] = "read" -> <<single(c), read>>
    [] c[1] = "write" -> <<single(<<"write", c[2]>>), single(<<"data", c[3]>>)>>
    [] c[1] = "txfifo" -> <<single(c)>> \o
         [i \in DOMAIN FifoData |-> [fn |-> "spi_write", octet |-> <<"data", FifoData[i]>>]]
    [] OTHER -> <<single(c), read, read>>

\* cmd: the command; i: the transfer it is at; got: what its reads returned;
\* before: the chip as the command found it; crossed: another ran within it.
NoCommand == [pc |-> "idle", cmd |-> <<"none">>, i |-> 0, got |-> <<>>,
              before |-> <<>>, crossed |-> FALSE]
Begun(c) == [NoCommand EXCEPT !.pc = "select", !.cmd = c, !.i = 1]
InFrame(ctx) == ctx.pc \notin {"idle", "select", "done", "hung"}

Current(ctx) == Transfers(ctx.cmd)[ctx.i]
IsLast(ctx) == ctx.i = Len(Transfers(ctx.cmd))
GoOn(ctx) == IF IsLast(ctx) THEN [ctx EXCEPT !.pc = "deselect"]
             ELSE [ctx EXCEPT !.pc = "send", !.i = @ + 1]

spi_radio_select(ctx, ctx1) ==
  /\ ctx.pc = "select" /\ ctx1 = [ctx EXCEPT !.pc = "send", !.before = chip]
  /\ CSn' = FALSE
  /\ UNCHANGED <<chip, chip_frame, shifting, UCB0RXIFG, UCB0RXBUF>>

\* A mutant: the radio stays selected when a command returns.
StaysSelected(ctx, ctx1) ==
  /\ ctx.pc = "deselect" /\ ctx1 = [ctx EXCEPT !.pc = "done"]
  /\ UNCHANGED <<chip, chip_frame, spiVars>>

spi_radio_deselect(ctx, ctx1) ==
  /\ ctx.pc = "deselect" /\ ctx1 = [ctx EXCEPT !.pc = "done"]
  /\ CSn' = TRUE /\ chip_frame' = <<"header">>
  /\ UNCHANGED <<chip, shifting, UCB0RXIFG, UCB0RXBUF>>

\* Each function but the octets of a spi_write under way returns at once if
\* the module is busy.
Refused(ctx) ==
  UCBUSY /\ ~(Current(ctx).fn = "spi_write" /\ ctx.i > 2)

PutOctet(ctx, ctx1) ==
  /\ ctx.pc = "send" /\ ~Refused(ctx)
  /\ shifting' = IF Len(shifting) < 2 THEN Append(shifting, Current(ctx).octet)
                 ELSE <<Head(shifting), Current(ctx).octet>>
  /\ ctx1 = [ctx EXCEPT !.pc = "take"]
  /\ UNCHANGED <<chip, chip_frame, CSn, UCB0RXIFG, UCB0RXBUF>>

Refuse(ctx, ctx1) ==
  /\ ctx.pc = "send" /\ Refused(ctx)
  /\ ctx1 = CASE Current(ctx).fn = "spi_read_single" -> [GoOn(ctx) EXCEPT !.got = Append(@, 0)]
              [] Current(ctx).fn = "spi_write" -> [ctx EXCEPT !.pc = "deselect"]
              [] OTHER -> GoOn(ctx)
  /\ UNCHANGED <<chip, chip_frame, spiVars>>

\* while (!(IFG2 & UCB0RXIFG)); and the read, which clears the flag.
TakeOctet(ctx, ctx1) ==
  /\ ctx.pc = "take" /\ UCB0RXIFG
  /\ UCB0RXIFG' = FALSE
  /\ ctx1 = CASE Current(ctx).fn = "spi_read_single" ->
                   [GoOn(ctx) EXCEPT !.got = Append(@, UCB0RXBUF)]
              [] Current(ctx).fn = "spi_write" /\ ~IsLast(ctx) -> GoOn(ctx)
              [] OTHER -> [ctx EXCEPT !.pc = "settle"]
  /\ UNCHANGED <<chip, chip_frame, CSn, shifting, UCB0RXBUF>>

\* while (UCB0STAT & UCBUSY);
Settle(ctx, ctx1) ==
  /\ ctx.pc = "settle" /\ ~UCBUSY
  /\ ctx1 = GoOn(ctx)
  /\ UNCHANGED <<chip, chip_frame, spiVars>>

Access(ctx, ctx1) ==
  \/ spi_radio_select(ctx, ctx1) \/ spi_radio_deselect(ctx, ctx1)
  \/ PutOctet(ctx, ctx1) \/ Refuse(ctx, ctx1) \/ TakeOctet(ctx, ctx1)
  \/ Settle(ctx, ctx1)

-----------------------------------------------------------------------------
(***************************************************************************)
(* cc2500_init: a reset, in the native driver a register written and read  *)
(* back, and the registers of init_cfg.                                    *)
(***************************************************************************)
init_cfg == [r \in RadioRegister |-> CHOOSE v \in RadioValue : v # TEST_VALUE]
WriteConfig ==
  LET order == SetToSeq(RadioRegister)
  IN [i \in DOMAIN order |-> <<"write", order[i], init_cfg[order[i]]>>]
Verify == <<<<"write", PKTLEN, TEST_VALUE>>, <<"read", PKTLEN>>>>

cc2500_init ==
  <<<<"strobe", SRES>>>> \o (IF firmware = "native" THEN Verify ELSE <<>>) \o WriteConfig

RadioBusInit ==
  /\ firmware \in {"contiki", "native"}
  /\ chip = [reg |-> [r \in RadioRegister |-> Odd], strobes |-> <<>>, tx |-> <<>>, rx |-> 0]
  /\ chip_frame = <<"header">> /\ CSn = TRUE /\ shifting = <<>>
  /\ UCB0RXIFG = FALSE /\ UCB0RXBUF = Odd
  /\ foreground = NoCommand /\ irq = NoCommand
  /\ todo = cc2500_init
  /\ P2_IFG = {} /\ gdo0_cb = FALSE
  /\ commands = [main |-> MaxCommands, edges |-> MaxEdges]

CallCommand ==
  /\ irq.pc = "idle" /\ foreground.pc = "idle"
  /\ IF todo # <<>>
     THEN foreground' = Begun(Head(todo)) /\ todo' = Tail(todo) /\ UNCHANGED commands
     ELSE /\ commands.main > 0 /\ commands' = [commands EXCEPT !.main = @ - 1]
          /\ \E c \in Command : foreground' = Begun(c)
          /\ UNCHANGED todo
  /\ UNCHANGED <<firmware, chip, chip_frame, spiVars, irq, P2_IFG, gdo0_cb>>

\* A register of the init that reads back wrong: while(1).
ReturnCommand ==
  /\ irq.pc = "idle" /\ foreground.pc = "done"
  /\ foreground' = IF todo # <<>> /\ foreground.cmd[1] = "read" /\ foreground.got # <<TEST_VALUE>>
             THEN [foreground EXCEPT !.pc = "hung"] ELSE NoCommand
  /\ UNCHANGED <<firmware, chip, chip_frame, spiVars, irq, todo, P2_IFG, gdo0_cb, commands>>

\* mac_init sets its callback when the radio is set up.
cc2500_gdo0_int_set_cb ==
  /\ firmware = "native" /\ irq.pc = "idle" /\ foreground.pc = "idle" /\ todo = <<>>
  /\ ~gdo0_cb /\ gdo0_cb' = TRUE
  /\ UNCHANGED <<firmware, chip, chip_frame, spiVars, foreground, irq, todo, P2_IFG, commands>>

LineRises(pin) ==
  /\ pin \notin P2_IFG /\ P2_IFG' = P2_IFG \cup {pin}
  /\ commands.edges > 0 /\ commands' = [commands EXCEPT !.edges = @ - 1]
  /\ UNCHANGED <<firmware, chip, chip_frame, spiVars, foreground, irq, todo, gdo0_cb>>

\* Nobody sets gdo2_cb, its edge is acknowledged and no more.  ("done" is the
\* moment the command returns, no point of the program between two others.)
port2irq ==
  /\ irq.pc = "idle" /\ foreground.pc # "done" /\ P2_IFG # {}
  /\ IF "GDO0" \in P2_IFG /\ gdo0_cb
     THEN /\ \E c \in Command : irq' = [Begun(c) EXCEPT !.crossed = InFrame(foreground)]
          /\ P2_IFG' = P2_IFG \ {"GDO0"}
          /\ foreground' = IF InFrame(foreground) THEN [foreground EXCEPT !.crossed = TRUE] ELSE foreground
     ELSE P2_IFG' = {} /\ UNCHANGED <<irq, foreground>>
  /\ UNCHANGED <<firmware, chip, chip_frame, spiVars, todo, gdo0_cb, commands>>

InterruptReturns ==
  /\ irq.pc = "done"
  /\ irq' = NoCommand /\ P2_IFG' = P2_IFG \ {"GDO2"}
  /\ UNCHANGED <<firmware, chip, chip_frame, spiVars, foreground, todo, gdo0_cb, commands>>

MainAccess ==
  /\ irq.pc = "idle" /\ Access(foreground, foreground')
  /\ UNCHANGED <<firmware, irq, todo, P2_IFG, gdo0_cb, commands>>

IrqAccess ==
  /\ Access(irq, irq')
  /\ UNCHANGED <<firmware, foreground, todo, P2_IFG, gdo0_cb, commands>>

RadioBusNext ==
  \/ ShiftOctet \/ CallCommand \/ ReturnCommand \/ MainAccess \/ IrqAccess
  \/ cc2500_gdo0_int_set_cb \/ LineRises("GDO0") \/ LineRises("GDO2")
  \/ port2irq \/ InterruptReturns

RadioBusSpec == RadioBusInit /\ [][RadioBusNext]_radioBusVars

-----------------------------------------------------------------------------
\* What a command is for.
Effect(c, r) ==
  CASE c[1] = "strobe" -> [r EXCEPT !.strobes = Append(@, c[2])]
    [] c[1] = "write" -> [r EXCEPT !.reg[c[2]] = c[3]]
    [] c[1] = "txfifo" -> [r EXCEPT !.tx = @ \o FifoData]
    [] c[1] = "rxfifo" -> [r EXCEPT !.rx = @ + 2]
    [] OTHER -> r

Result(c, r) ==
  CASE c[1] = "read" -> <<r.reg[c[2]]>>
    [] c[1] = "rxfifo" -> <<r.rx + 1, r.rx + 2>>
    [] OTHER -> <<>>

CarriedOut(ctx) ==
  (ctx.pc = "done" /\ ~ctx.crossed) =>
     chip = Effect(ctx.cmd, ctx.before) /\ ctx.got = Result(ctx.cmd, ctx.before)

\* A command to the radio (cc2500_write_reg and the like) does what it is for
\* unless another runs within its frame; and that spoils no other: the frame
\* and the octets of both end with them, nobody waits for an octet that never
\* comes, and the init of either driver gets through.
CommandsArrive ==
  /\ CarriedOut(foreground) /\ CarriedOut(irq)
  /\ (foreground.pc = "idle" /\ irq.pc = "idle") =>
       CSn /\ chip_frame = <<"header">> /\ shifting = <<>> /\ ~UCB0RXIFG
  /\ \A ctx \in {foreground, irq} :
       /\ ctx.pc = "take" => UCB0RXIFG \/ UCBUSY
       /\ ctx.pc # "hung"
=============================================================================
