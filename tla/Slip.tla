-------------------------------- MODULE Slip --------------------------------
(***************************************************************************)
(* core/dev/slip.c: packets over a serial line.  slip_input_byte runs in   *)
(* the receive interrupt and fills a cyclic buffer with up to two packets; *)
(* slip_process is polled and takes them out with slip_poll_handler.       *)
(* Nothing is locked: the variable `state' tells the interrupt to keep     *)
(* off.                                                                    *)
(*                                                                         *)
(* A byte is a character together with the number of the frame it is of,   *)
(* which the code does not see.                                            *)
(***************************************************************************)
EXTENDS Integers, Sequences

CONSTANTS
  RX_BUFSIZE,
  BLEN,        \* UIP_BUFSIZE - UIP_LLH_LEN
  Packet,      \* the packets the other side sends
  MaxFrames    \* bound: frames sent

ASSUME BufferAssumption ==
  BLEN \in Nat /\ RX_BUFSIZE \in Nat /\ RX_BUFSIZE > BLEN + 1 /\ Packet \subseteq Seq(STRING)

SLIP_END == "END"
SLIP_ESC == "ESC"
SLIP_ESC_END == "ESC_END"
SLIP_ESC_ESC == "ESC_ESC"
KNOCK == <<"C", "T">>   \* for `CLIENT': only the ends of the word matter
Nul == <<"NUL", 0>>

\* Bound: one packet of plain characters, one of those that are escaped, and one
\* that begins like the word.
Packets == {<<"x">>, <<"END", "ESC">>, <<"C", "T", "x">>}

Char(b) == b[1]
Frame(b) == b[2]

VARIABLES
  state, begin, end, pkt_end, rxbuf,
  polled,    \* process_poll(&slip_process) was called
  main,      \* where slip_process is: "boot", "yield", or in the poll handler
  index,     \* the index of the loop that copies
  uip_buf,
  sent,      \* the frames sent, the last of them perhaps not to its end
  pos,       \* where slip_write of the other side is: 0 at the END in front, else
             \* at a character, at the END behind them, or behind that
  escaped,   \* it has written the ESC of the character at pos
  cut,       \* history: the END behind the last frame was lost
  damaged,   \* history: frames of which a character was lost or dropped
  merged     \* history: a second packet was completed between the two
             \* statements by which the handler removes the first

slipVars ==
  <<state, begin, end, pkt_end, rxbuf, polled, main, index, uip_buf, sent, pos,
    escaped, cut, damaged, merged>>
bufferVars == <<begin, end, pkt_end, rxbuf>>
lineVars == <<sent, pos, escaped, cut>>
historyVars == <<damaged, merged>>

Index == 0 .. RX_BUFSIZE - 1
Following(k) == (k + 1) % RX_BUFSIZE

SlipTypeOK ==
  /\ state \in {"TWOPACKETS", "OK", "ESC", "RUBBISH"}
  /\ {begin, end, pkt_end, index} \subseteq Index
  /\ DOMAIN rxbuf = Index
  /\ {polled, merged} \subseteq BOOLEAN
  /\ main \in {"boot", "yield", "client", "knock", "test", "copy", "advance",
               "check", "input"}
  /\ Len(uip_buf) <= BLEN

\* As the program starts: bytes are dropped until slip_process has started.
SlipInit ==
  /\ state = "TWOPACKETS"
  /\ begin = 0 /\ end = 0 /\ pkt_end = 0
  /\ rxbuf = [k \in Index |-> Nul]
  /\ polled = FALSE /\ main = "boot" /\ index = 0 /\ uip_buf = <<>>
  /\ sent = <<>> /\ pos = 0 /\ escaped = FALSE /\ cut = FALSE
  /\ damaged = {} /\ merged = FALSE

-----------------------------------------------------------------------------
(***************************************************************************)
(* slip_write, which the other side uses as well: a frame between two END, *)
(* with END and ESC escaped inside.  A byte is written when the line takes *)
(* it.                                                                     *)
(***************************************************************************)
LastFrame == sent[Len(sent)]

Sending == sent # <<>> /\ pos <= Len(LastFrame) + 1

SendFrame ==
  /\ ~Sending /\ Len(sent) < MaxFrames
  /\ \E packet \in Packet :
       sent' = Append(sent, [k \in DOMAIN packet |-> <<packet[k], Len(sent) + 1>>])
  /\ pos' = 0
  /\ UNCHANGED <<state, bufferVars, polled, main, index, uip_buf, escaped, cut, historyVars>>

IsEscaped(b) == Char(b) \in {SLIP_END, SLIP_ESC}

\* An ESC comes first, if one is due.
EscapeDue == pos \in DOMAIN LastFrame /\ IsEscaped(LastFrame[pos]) /\ ~escaped

Written ==
  IF EscapeDue THEN <<SLIP_ESC, Len(sent)>>
  ELSE IF pos \notin DOMAIN LastFrame THEN <<SLIP_END, Len(sent)>>
  ELSE IF Char(LastFrame[pos]) = SLIP_END THEN <<SLIP_ESC_END, Len(sent)>>
  ELSE IF Char(LastFrame[pos]) = SLIP_ESC THEN <<SLIP_ESC_ESC, Len(sent)>>
  ELSE LastFrame[pos]

slip_write ==
  /\ Sending
  /\ escaped' = EscapeDue
  /\ pos' = IF EscapeDue THEN pos ELSE pos + 1
  /\ UNCHANGED sent

-----------------------------------------------------------------------------
(***************************************************************************)
(* slip_input_byte, in the interrupt.                                      *)
(***************************************************************************)
Damages(b) == damaged' = damaged \cup (IF Char(b) = SLIP_END THEN {} ELSE {Frame(b)})

\* The rest of the frame is rubbish, and what there is of it is removed.
Rubbish(b) ==
  /\ state' = "RUBBISH"
  /\ end' = pkt_end
  /\ damaged' = damaged \cup {Frame(b)}
  /\ UNCHANGED <<begin, pkt_end, rxbuf, polled, merged>>

Ignore(b) ==
  /\ Damages(b)
  /\ UNCHANGED <<state, bufferVars, polled, merged>>

\* One byte of the buffer stays free.
HasRoom == Following(end) # begin

\* add_char; the end of `CLIENT' polls as well.
add_char(c) ==
  IF HasRoom
  THEN /\ state' = "OK"
       /\ rxbuf' = [rxbuf EXCEPT ![end] = c]
       /\ end' = Following(end)
       /\ polled' = (polled \/ (Char(c) = KNOCK[2] /\ Char(rxbuf'[begin]) = KNOCK[1]))
       /\ UNCHANGED <<begin, pkt_end, historyVars>>
  ELSE Rubbish(c)

\* A packet of zero length is none.  One may be buffered already.
EndOfPacket ==
  IF end = pkt_end
  THEN UNCHANGED <<state, bufferVars, polled, historyVars>>
  ELSE /\ IF begin = pkt_end
          THEN pkt_end' = end /\ UNCHANGED <<state, merged>>
          ELSE /\ state' = "TWOPACKETS"
               /\ merged' = (merged \/ main = "check")
               /\ UNCHANGED pkt_end
       /\ polled' = TRUE
       /\ UNCHANGED <<begin, end, rxbuf, damaged>>

slip_input_byte(b) ==
  CASE state = "TWOPACKETS" -> Ignore(b)
    [] state = "RUBBISH" ->
         IF Char(b) = SLIP_END
         THEN state' = "OK" /\ UNCHANGED <<bufferVars, polled, historyVars>>
         ELSE Ignore(b)
    [] state = "ESC" ->
         IF Char(b) = SLIP_ESC_END THEN add_char(<<SLIP_END, Frame(b)>>)
         ELSE IF Char(b) = SLIP_ESC_ESC THEN add_char(<<SLIP_ESC, Frame(b)>>)
         ELSE Rubbish(b)
    [] state = "OK" ->
         IF Char(b) = SLIP_ESC
         THEN state' = "ESC" /\ UNCHANGED <<bufferVars, polled, historyVars>>
         ELSE IF Char(b) = SLIP_END THEN EndOfPacket
         ELSE add_char(b)

AtEnd == pos = Len(LastFrame) + 1

ReceiveByte ==
  /\ slip_write
  /\ slip_input_byte(Written)
  /\ cut' = (cut /\ ~AtEnd)
  /\ UNCHANGED <<main, index, uip_buf>>

\* Bound: of the two END between two frames the line loses one.
LoseByte ==
  /\ slip_write
  /\ ~(pos = 0 /\ cut)
  /\ Damages(Written)
  /\ cut' = (cut \/ AtEnd)
  /\ UNCHANGED <<state, bufferVars, polled, main, index, uip_buf, merged>>

-----------------------------------------------------------------------------
(***************************************************************************)
(* slip_process and slip_poll_handler, in the main program.                *)
(***************************************************************************)
rxbuf_init == begin' = 0 /\ end' = 0 /\ pkt_end' = 0 /\ state' = "OK"

\* Until here the buffer is not used: what arrives of a frame is not kept.
StartProcess ==
  /\ main = "boot"
  /\ rxbuf_init
  /\ main' = "yield"
  /\ UNCHANGED <<rxbuf, polled, index, uip_buf, lineVars, historyVars>>

\* PROCESS_YIELD_UNTIL(ev == PROCESS_EVENT_POLL)
Poll ==
  /\ main = "yield" /\ polled
  /\ polled' = FALSE
  /\ main' = "client"
  /\ UNCHANGED <<state, bufferVars, index, uip_buf, lineVars, historyVars>>

Knocked ==
  /\ begin + Len(KNOCK) <= end
  /\ \A k \in DOMAIN KNOCK : Char(rxbuf[begin + k - 1]) = KNOCK[k]

TestClient ==
  /\ main = "client"
  /\ main' = IF Knocked THEN "knock" ELSE "test"
  /\ state' = IF Knocked THEN "TWOPACKETS" ELSE state
  /\ UNCHANGED <<bufferVars, polled, index, uip_buf, lineVars, historyVars>>

\* The handshake forgets all that is buffered, and what has come of the frame
\* on the line.
Handshake ==
  /\ main = "knock"
  /\ rxbuf' = [k \in Index |-> IF k \in begin .. begin + Len(KNOCK) - 1
                               THEN Nul ELSE rxbuf[k]]
  /\ rxbuf_init
  /\ damaged' = damaged \cup {Len(sent)}
  /\ main' = "yield"
  /\ UNCHANGED <<polled, index, uip_buf, lineVars, merged>>

PacketLength == (pkt_end - begin) % RX_BUFSIZE

\* Mutant: the packet is removed before it is copied.
RemoveBeforeCopy ==
  /\ main = "test"
  /\ main' = IF begin = pkt_end THEN "yield"
             ELSE IF PacketLength > BLEN THEN "advance" ELSE "copy"
  /\ uip_buf' = <<>>
  /\ index' = begin
  /\ begin' = pkt_end
  /\ UNCHANGED <<state, end, pkt_end, rxbuf, polled, lineVars, historyVars>>

\* A packet that is too long is removed without being copied.
TestPacket ==
  /\ main = "test"
  /\ main' = IF begin = pkt_end THEN "yield"
             ELSE IF PacketLength > BLEN THEN "advance" ELSE "copy"
  /\ uip_buf' = <<>>
  /\ index' = begin
  /\ UNCHANGED <<state, bufferVars, polled, lineVars, historyVars>>

CopyByte ==
  /\ main = "copy"
  /\ uip_buf' = Append(uip_buf, rxbuf[index])
  /\ index' = Following(index)
  /\ main' = IF index' = pkt_end THEN "advance" ELSE "copy"
  /\ UNCHANGED <<state, bufferVars, polled, lineVars, historyVars>>

RemoveData ==
  /\ main = "advance"
  /\ begin' = pkt_end
  /\ main' = "check"
  /\ UNCHANGED <<state, end, pkt_end, rxbuf, polled, index, uip_buf, lineVars, historyVars>>

\* Mutant: the second packet is not announced.
NoSecondPoll == polled

\* process_poll, once more.
PollAgain == TRUE

\* `Assume no bytes where lost!'
SecondPacket ==
  /\ main = "check"
  /\ IF state = "TWOPACKETS"
     THEN pkt_end' = end /\ state' = "OK" /\ polled' = PollAgain
     ELSE UNCHANGED <<pkt_end, state, polled>>
  /\ main' = "input"
  /\ UNCHANGED <<begin, end, rxbuf, index, uip_buf, lineVars, historyVars>>

\* The packet is answered by slip_write, given to tcpip_input or dropped.
HandOver ==
  /\ main = "input"
  /\ uip_buf' = <<>> /\ index' = 0
  /\ main' = "yield"
  /\ UNCHANGED <<state, bufferVars, polled, lineVars, historyVars>>

SlipMain ==
  \/ StartProcess \/ Poll \/ TestClient \/ Handshake \/ TestPacket \/ CopyByte
  \/ RemoveData \/ SecondPacket \/ HandOver

SlipNext == SlipMain \/ SendFrame \/ ReceiveByte \/ LoseByte

SlipSpec == SlipInit /\ [][SlipNext]_slipVars

\* The process is scheduled; the other side need not send.
SlipFairSpec == SlipSpec /\ WF_slipVars(SlipMain)

-----------------------------------------------------------------------------
(***************************************************************************)
(* Properties.                                                             *)
(***************************************************************************)

\* A packet handed over is of one frame: the END on both sides of each frame
\* keeps frames apart although the line may lose one of two and others are
\* dropped, unescaped, while two packets wait, and nothing is overwritten while
\* it is copied.  And it is that frame, exactly, unless characters of it were
\* lost, or dropped for lack of room.  Only a second packet that is completed
\* between `begin = pkt_end' and the test of STATE_TWOPACKETS is taken for a
\* part of the first.
PacketIsAFrame ==
  /\ SlipTypeOK
  /\ main = "input" /\ uip_buf # <<>> /\ ~merged =>
       \E n \in DOMAIN sent :
         /\ \A k \in DOMAIN uip_buf : Frame(uip_buf[k]) = n
         /\ n \notin damaged => uip_buf = sent[n]

\* A packet in the buffer is always taken out: also the second of two.
PacketsTaken == []<>(begin = pkt_end)
=============================================================================
