-------------------------------- MODULE Csma --------------------------------
(***************************************************************************)
(* The MAC of the native firmware, mac/csma.c, over drivers/cc2500.c.      *)
(*                                                                         *)
(* mac_send runs in the main program with interrupts enabled.  It talks to *)
(* the radio in a row of SPI frames, each of which selects the chip, sends *)
(* a header octet (to which the radio answers with its state), sends data  *)
(* and deselects the chip.  The end of a packet interrupts it anywhere:    *)
(* port2irq then calls rx_cb or tx_cb, which talk to the radio as well,    *)
(* reset it and leave it listening, deselected.  An octet on the bus is    *)
(* one step.                                                               *)
(***************************************************************************)
EXTENDS Naturals, Sequences, SequencesExt

-----------------------------------------------------------------------------
(***************************************************************************)
(* The CC2500 radio, as drivers/cc2500.c and mac/csma.c use it.  The chip  *)
(* is outside the repository: what is here is the part of its state        *)
(* machine that the driver's commands and its GDO0 line reach, with the    *)
(* registers csma_radio_reg gives it (GDO0 is high from the sync word to   *)
(* the end of a packet, IDLE follows a packet, no automatic calibration).  *)
(*                                                                         *)
(* A frame is written to the TX FIFO in the four pieces mac_send writes.   *)
(***************************************************************************)
CONSTANTS
  LocalFrame,   \* frames given to mac_send
  RemoteFrame,  \* frames of other nodes for this one, or for all
  OtherFrame,   \* frames for another node, or with a length out of bounds
  NoFrame,
  FifoRoom      \* bound: pieces the TX FIFO holds (64 octets)

AirFrame == RemoteFrame \cup OtherFrame

ASSUME FrameAssumption ==
  /\ LocalFrame \cap AirFrame = {} /\ RemoteFrame \cap OtherFrame = {}
  /\ NoFrame \notin LocalFrame \cup AirFrame

Pieces == <<"len", "src", "dst", "msg">>

\* The longest frame, of 62 octets, fits in.
ASSUME FifoAssumption == FifoRoom \in Nat /\ FifoRoom >= Len(Pieces)

Whole(f) == [i \in DOMAIN Pieces |-> <<f, Pieces[i]>>]

RadioState == {"IDLE", "RX", "TX", "RXOVER", "TXUNDER"}

Radio == [state : RadioState,
          gdo0 : BOOLEAN,                      \* inside a packet
          rxfifo : AirFrame \cup {NoFrame},
          crc : BOOLEAN,                       \* CRC_OK of the LQI register
          txfifo : Seq(LocalFrame \X ToSet(Pieces))]

-----------------------------------------------------------------------------
(***************************************************************************)
(* The command strobes.  A strobe that a state does not know is ignored;   *)
(* the overflow states are left by a flush only.                           *)
(***************************************************************************)
SIDLE(r) ==
  IF r.state \in {"RXOVER", "TXUNDER"} THEN r
  ELSE [r EXCEPT !.state = "IDLE", !.gdo0 = FALSE]

SFRX(r) ==
  IF r.state \in {"IDLE", "RXOVER"}
  THEN [r EXCEPT !.state = "IDLE", !.rxfifo = NoFrame] ELSE r

SFTX(r) ==
  IF r.state \in {"IDLE", "TXUNDER"}
  THEN [r EXCEPT !.state = "IDLE", !.txfifo = <<>>] ELSE r

\* Entering RX clears CRC_OK.
SRX(r) == IF r.state = "IDLE" THEN [r EXCEPT !.state = "RX", !.crc = FALSE] ELSE r

\* From RX only if the channel is clear and no packet is being received.
STX(r, clear) ==
  IF r.state = "IDLE" \/ (r.state = "RX" /\ clear /\ ~r.gdo0)
  THEN [r EXCEPT !.state = "TX"] ELSE r

\* A write to the full FIFO is lost.
WriteTxFifo(r, piece) ==
  IF Len(r.txfifo) < FifoRoom THEN [r EXCEPT !.txfifo = Append(@, piece)] ELSE r

-----------------------------------------------------------------------------
(***************************************************************************)
(* What the radio does by itself.                                          *)
(***************************************************************************)
\* The end of a packet: CRC right, CRC wrong, or more than the FIFO holds.
EndsReception(r) ==
  {[r EXCEPT !.gdo0 = FALSE, !.state = "IDLE", !.rxfifo = f, !.crc = ok] :
     f \in AirFrame, ok \in BOOLEAN}
  \cup {[r EXCEPT !.gdo0 = FALSE, !.state = "RXOVER"]}

\* The frame at the head of the TX FIFO if it is there in full.
FrameAtHead(r) ==
  IF \E f \in LocalFrame : IsPrefix(Whole(f), r.txfifo)
  THEN CHOOSE f \in LocalFrame : IsPrefix(Whole(f), r.txfifo) ELSE NoFrame

\* With anything else at its head the length octet is not the length of what
\* follows: the packet ends somewhere in the FIFO, or the FIFO underflows.
EndsTransmission(r) ==
  LET over == [r EXCEPT !.gdo0 = FALSE]
  IN  IF FrameAtHead(r) # NoFrame
      THEN {[over EXCEPT !.state = "IDLE",
                         !.txfifo = SubSeq(@, Len(Pieces) + 1, Len(@))]}
      ELSE {[over EXCEPT !.state = "IDLE", !.txfifo = <<>>],
            [over EXCEPT !.state = "TXUNDER"]}

-----------------------------------------------------------------------------
(***************************************************************************)
(* The driver and the MAC.                                                 *)
(***************************************************************************)
VARIABLES
  radio,
  csn,       \* the chip is selected (the line is low)
  burst,     \* the radio takes the next octets for its TX FIFO
  status,    \* spi_last_read, as far as it is looked at: the answer to SNOP
  gdo0_cb,   \* "rx_cb" or "tx_cb"
  P2IFG,     \* the interrupt of GDO0, falling edge; enabled since mac_init
  mac,       \* mac_send: its frame, its SPI frame (0: not running), phase
  fate       \* history: what has become of the last send; "cut" if it was
             \* interrupted or began while the radio had remains of another

radioVars == <<radio, csn, burst, status, gdo0_cb, P2IFG>>
macVars == <<radioVars, mac, fate>>

\* The SPI frames of mac_send; "set_cb" is not one.
Commands == <<"SIDLE", "len", "src", "dst", "msg", "set_cb", "STX", "SNOP">>
Command == Commands[mac.at]
IsWrite == Command \in ToSet(Pieces)
Sending == mac.at # 0

MacTypeOK ==
  /\ radio \in Radio
  /\ {csn, burst, P2IFG} \subseteq BOOLEAN
  /\ status \in RadioState
  /\ gdo0_cb \in {"rx_cb", "tx_cb"}
  /\ mac \in [frame : LocalFrame \cup {NoFrame}, at : 0 .. Len(Commands),
              phase : {"select", "header", "data", "deselect"}]
  /\ fate \in {"none", "pending", "aired", "reported", "cut", "wrong"}

-----------------------------------------------------------------------------
(***************************************************************************)
(* The callbacks' commands.  They run with interrupts disabled, so they    *)
(* are functions of the radio's state.                                     *)
(***************************************************************************)

\* Leaves an overflow by its flush, then waits for IDLE.
force_idle(r) ==
  SIDLE(IF r.state = "RXOVER" THEN SFRX(r)
        ELSE IF r.state = "TXUNDER" THEN SFTX(r) ELSE r)

\* force_calib returns to IDLE.
reset_rx(r) == SRX(SFTX(SFRX(force_idle(r))))

\* mac_init
MacInit ==
  /\ radio = reset_rx([state |-> "IDLE", gdo0 |-> FALSE, rxfifo |-> NoFrame,
                       crc |-> FALSE, txfifo |-> <<>>])
  /\ csn = FALSE /\ burst = FALSE /\ status = "IDLE"
  /\ gdo0_cb = "rx_cb"
  /\ P2IFG = FALSE
  /\ mac = [frame |-> NoFrame, at |-> 0, phase |-> "select"]
  /\ fate = "none"

\* P2IFG is set by the falling edge of GDO0.
RadioBecomes(r) ==
  /\ radio' = r
  /\ P2IFG' = (P2IFG \/ (radio.gdo0 /\ ~r.gdo0))

-----------------------------------------------------------------------------
(***************************************************************************)
(* mac_send.                                                               *)
(***************************************************************************)
\* Mutant: without cc2500_strobe_idle.
SendWithoutIdle(f) ==
  /\ ~Sending
  /\ mac' = [frame |-> f, at |-> 2, phase |-> "select"]
  /\ fate' = IF radio.state = "TX" \/ radio.txfifo # <<>> THEN "cut" ELSE "pending"
  /\ UNCHANGED radioVars

\* A frame of more than 59 octets is refused before anything is done, so there is
\* none in LocalFrame.
mac_send(f) ==
  /\ ~Sending
  /\ mac' = [frame |-> f, at |-> 1, phase |-> "select"]
  /\ fate' = IF radio.state = "TX" \/ radio.txfifo # <<>> THEN "cut" ELSE "pending"
  /\ UNCHANGED radioVars

\* spi_select_radio
Select ==
  /\ Sending /\ mac.phase = "select" /\ Command # "set_cb"
  /\ csn' = TRUE
  /\ mac' = [mac EXCEPT !.phase = "header"]
  /\ UNCHANGED <<radio, burst, status, gdo0_cb, P2IFG, fate>>

\* The outcomes of the strobes; a write changes nothing but the FIFO.
Strobed ==
  CASE Command = "SIDLE" -> {SIDLE(radio)}
    [] Command = "STX" -> {STX(radio, clear) : clear \in BOOLEAN}
    [] OTHER -> {radio}

\* The header.  A callback that has run since Select has deselected the chip:
\* the radio takes no notice of the octet, and what is read back is anything.
Header ==
  /\ Sending /\ mac.phase = "header"
  /\ IF csn
     THEN /\ status' = IF Command = "SNOP" THEN radio.state ELSE "IDLE"
          /\ burst' = IsWrite
          /\ \E r \in Strobed : RadioBecomes(r)
     ELSE /\ status' \in IF Command = "SNOP" THEN {"IDLE", "RX"} ELSE {"IDLE"}
          /\ UNCHANGED <<burst, radio, P2IFG>>
  /\ mac' = [mac EXCEPT !.phase = IF IsWrite THEN "data" ELSE "deselect"]
  /\ UNCHANGED <<csn, gdo0_cb, fate>>

\* spi_write
Data ==
  /\ Sending /\ mac.phase = "data"
  /\ radio' = IF burst THEN WriteTxFifo(radio, <<mac.frame, Command>>) ELSE radio
  /\ mac' = [mac EXCEPT !.phase = "deselect"]
  /\ UNCHANGED <<csn, burst, status, gdo0_cb, P2IFG, fate>>

NextCommand ==
  [mac EXCEPT !.at = IF @ = Len(Commands) THEN 0 ELSE @ + 1, !.phase = "select"]

\* What the last send comes to when this happens.
Comes(to, from) ==
  fate' = IF fate = "cut" THEN "cut" ELSE IF fate = from THEN to ELSE "wrong"

\* spi_deselect_radio.  After the last frame mac_send returns 0 if it has read
\* that the radio still receives.
Deselect ==
  /\ Sending /\ mac.phase = "deselect"
  /\ csn' = FALSE /\ burst' = FALSE
  /\ mac' = NextCommand
  /\ IF mac.at = Len(Commands) /\ status = "RX" THEN Comes("refused", "refused")
                                               ELSE UNCHANGED fate
  /\ status' = "IDLE"
  /\ UNCHANGED <<radio, gdo0_cb, P2IFG>>

\* cc2500_gdo0_int_set_cb(tx_cb)
SetTxCb ==
  /\ Sending /\ Command = "set_cb"
  /\ gdo0_cb' = "tx_cb"
  /\ mac' = NextCommand
  /\ UNCHANGED <<radio, csn, burst, status, P2IFG, fate>>

MacStep == Select \/ Header \/ Data \/ Deselect \/ SetTxCb

-----------------------------------------------------------------------------
(***************************************************************************)
(* port2irq.                                                               *)
(***************************************************************************)

\* The tests of CRC, length and address in rx_cb decide whether mac_rx_cb is called;
\* but every path of rx_cb and of tx_cb resets the radio, and that is what is left
\* of them here.
AfterCallback(crc) == reset_rx(radio)

\* What cc2500_status_crclqi returns.  In the middle of a burst of mac_send the
\* radio takes the request for data: what is read back is anything.
CrcRead == IF burst THEN BOOLEAN ELSE {radio.crc}

\* After either the receive callback is installed, the flag clear, the chip
\* deselected and the last octet read the status before the strobe of SRX.
port2irq ==
  /\ P2IFG
  /\ radio' \in {AfterCallback(crc) : crc \in CrcRead}
  /\ IF Sending THEN fate' = "cut"
     ELSE IF gdo0_cb = "tx_cb" THEN Comes("reported", "aired")
     ELSE UNCHANGED fate
  /\ gdo0_cb' = "rx_cb"
  /\ P2IFG' = FALSE
  /\ csn' = FALSE /\ burst' = FALSE /\ status' = "IDLE"
  /\ mac' = IF Sending THEN mac ELSE [mac EXCEPT !.frame = NoFrame]

-----------------------------------------------------------------------------
(***************************************************************************)
(* The radio's own steps.                                                  *)
(***************************************************************************)
ReceiveSync ==
  /\ radio.state = "RX" /\ ~radio.gdo0
  /\ radio' = [radio EXCEPT !.gdo0 = TRUE]
  /\ UNCHANGED <<csn, burst, status, gdo0_cb, P2IFG, mac, fate>>

ReceiveEnd ==
  /\ radio.state = "RX" /\ radio.gdo0
  /\ \E r \in EndsReception(radio) : RadioBecomes(r)
  /\ UNCHANGED <<csn, burst, status, gdo0_cb, mac, fate>>

\* With an empty FIFO the radio sends preamble until there is something in it.
TransmitSync ==
  /\ radio.state = "TX" /\ ~radio.gdo0 /\ radio.txfifo # <<>>
  /\ radio' = [radio EXCEPT !.gdo0 = TRUE]
  /\ UNCHANGED <<csn, burst, status, gdo0_cb, P2IFG, mac, fate>>

TransmitEnd ==
  /\ radio.state = "TX" /\ radio.gdo0
  /\ \E r \in EndsTransmission(radio) : RadioBecomes(r)
  /\ IF FrameAtHead(radio) = mac.frame THEN Comes("aired", "pending")
                                       ELSE Comes("wrong", "wrong")
  /\ UNCHANGED <<csn, burst, status, gdo0_cb, mac>>

RadioStep == ReceiveSync \/ ReceiveEnd \/ TransmitSync \/ TransmitEnd

-----------------------------------------------------------------------------
(***************************************************************************)
(* Properties.                                                             *)
(***************************************************************************)

\* A send that no callback interrupted and that found the FIFO empty and the
\* radio not transmitting puts its own frame on the air, whole and once; only
\* then, and once, mac_tx_cb(1) is called; and mac_send does not return 0: the
\* channel is only ever assessed in a send that was cut, as mac_send leaves RX
\* before it strobes STX.
UncutSendIsTrue == fate # "wrong"

\* The radio transmits from an empty FIFO: a callback came between SetTxCb and
\* the strobe of STX and flushed it.
Mute == radio.state = "TX" /\ radio.txfifo = <<>>

\* However the commands of mac_send and of the callbacks mix, once the node
\* stops sending the radio keeps coming back to listening, unless it is mute.
ListensAgain == <>[](~Sending) => []<>(radio.state = "RX" \/ Mute)

\* The end of a send that was not cut is reported: tx_cb is called.
UncutSendIsReported == fate = "pending" ~> fate \in {"reported", "cut"}
=============================================================================
