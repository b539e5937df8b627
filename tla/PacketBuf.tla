------------------------------ MODULE PacketBuf ------------------------------
(***************************************************************************)
(* core/net/rime/packetbuf.c with its users in this tree: the framer of    *)
(* framer-nullmac.c, nullmac.c and the contents of queue buffers.  There   *)
(* is one packet, in one static array: the header grows down from          *)
(* PACKETBUF_HDR_SIZE, the data begins there or, after headers have been   *)
(* taken off, bufptr bytes behind, or lies in memory of the application.   *)
(*                                                                         *)
(* The application is bound to what packetbuf.h says: headers are reduced  *)
(* in incoming packets only, and a packet is compacted before it is sent.  *)
(* An address is one byte here.                                            *)
(***************************************************************************)
EXTENDS Integers, Sequences

CONSTANTS
  PACKETBUF_SIZE,
  PACKETBUF_HDR_SIZE,
  Octet,
  Addr, rimeaddr_null, rimeaddr_node_addr,
  NoByte,     \* what no one has written
  Payload,    \* the data of the application
  Header,     \* the headers of the layers above the MAC
  Foreign,    \* frames of other nodes, some too short to have a header
  NoReference,
  MaxOperations  \* bound: operations in a behaviour

ASSUME SizesAssumption ==
  PACKETBUF_SIZE \in Nat /\ PACKETBUF_HDR_SIZE \in 0 .. 255
ASSUME OctetAssumption ==
  /\ Payload \cup Header \cup Foreign \subseteq Seq(Octet)
  /\ Addr \cup {rimeaddr_null, rimeaddr_node_addr, NoByte} \subseteq Octet
  /\ NoReference \notin Payload

VARIABLES
  packetbuf, buflen, bufptr, hdrptr,
  packetbufptr,    \* NoReference: into packetbuf; or the bytes it points to
  packetbuf_addrs,
  qbuf,            \* a queue buffer: at most one packet
  air,             \* what the radio driver was just given to send
  spilled,         \* history: something was written outside of packetbuf
  operations

pointerVars == <<buflen, bufptr, hdrptr, packetbufptr>>
packetbufVars ==
  <<packetbuf, pointerVars, packetbuf_addrs, qbuf, air, spilled, operations>>

Place == 0 .. PACKETBUF_HDR_SIZE + PACKETBUF_SIZE - 1

\* memcpy from and to packetbuf.
BytesAt(from, len) == [k \in 1 .. len |-> packetbuf[from + k - 1]]
Written(at, bytes) ==
  [k \in Place |-> IF k \in at .. at + Len(bytes) - 1
                   THEN bytes[k - at + 1] ELSE packetbuf[k]]
Outside(at, bytes) == at < 0 \/ at + Len(bytes) > PACKETBUF_HDR_SIZE + PACKETBUF_SIZE
Write(at, bytes) ==
  packetbuf' = Written(at, bytes) /\ spilled' = Outside(at, bytes)

packetbuf_is_reference == packetbufptr # NoReference
packetbuf_hdrlen == PACKETBUF_HDR_SIZE - hdrptr
packetbuf_totlen == packetbuf_hdrlen + buflen

HdrBytes == BytesAt(hdrptr, packetbuf_hdrlen)
DataBytes ==
  IF packetbuf_is_reference THEN SubSeq(packetbufptr, bufptr + 1, bufptr + buflen)
                            ELSE BytesAt(PACKETBUF_HDR_SIZE + bufptr, buflen)

packetbuf_copyto == HdrBytes \o DataBytes

NullAddrs == [receiver |-> rimeaddr_null, sender |-> rimeaddr_null]

PacketbufInit ==
  /\ packetbuf = [k \in Place |-> NoByte]
  /\ buflen = 0 /\ bufptr = 0 /\ hdrptr = PACKETBUF_HDR_SIZE
  /\ packetbufptr = NoReference
  /\ packetbuf_addrs = NullAddrs
  /\ qbuf = <<>> /\ air = <<>> /\ spilled = FALSE
  /\ operations = 0

-----------------------------------------------------------------------------
(***************************************************************************)
(* packetbuf.c.                                                            *)
(***************************************************************************)
packetbuf_clear(ptr, len) ==
  /\ buflen' = len /\ bufptr' = 0
  /\ hdrptr' = PACKETBUF_HDR_SIZE
  /\ packetbufptr' = ptr

Fitting(from) ==
  SubSeq(from, 1, IF Len(from) > PACKETBUF_SIZE THEN PACKETBUF_SIZE ELSE Len(from))

copyfrom(from) ==
  /\ packetbuf_clear(NoReference, Len(Fitting(from)))
  /\ Write(PACKETBUF_HDR_SIZE, Fitting(from))

packetbuf_copyfrom(from) ==
  /\ copyfrom(from)
  /\ packetbuf_addrs' = NullAddrs
  /\ UNCHANGED qbuf /\ air' = <<>>

\* Data of any length, even longer than packetbuf: see send_packet.
packetbuf_reference(ptr) ==
  /\ packetbuf_clear(ptr, Len(ptr))
  /\ packetbuf_addrs' = NullAddrs
  /\ UNCHANGED <<packetbuf, spilled, qbuf>> /\ air' = <<>>

packetbuf_set_addr(a) ==
  /\ packetbuf_addrs' = [packetbuf_addrs EXCEPT !.receiver = a]
  /\ UNCHANGED <<packetbuf, spilled, pointerVars, qbuf>> /\ air' = <<>>

packetbuf_clear_hdr ==
  /\ hdrptr' = PACKETBUF_HDR_SIZE
  /\ UNCHANGED <<packetbuf, spilled, buflen, bufptr, packetbufptr, packetbuf_addrs, qbuf>>
  /\ air' = <<>>

\* Mutant: no test.
HeaderFits(size) == TRUE

\* A header that would just fit is refused.
HasHeaderRoom(size) == hdrptr > size

\* The result of packetbuf_hdralloc is 1 and its caller fills in the header.
PushHeader(bytes) ==
  /\ HasHeaderRoom(Len(bytes))
  /\ hdrptr' = hdrptr - Len(bytes)
  /\ Write(hdrptr', bytes)
  /\ UNCHANGED <<buflen, bufptr, packetbufptr, packetbuf_addrs, qbuf>>
  /\ air' = <<>>

\* It is 0: all of the room is allocated, and nothing is written.
packetbuf_hdralloc_fails(size) ==
  /\ ~HasHeaderRoom(size)
  /\ hdrptr' = 0
  /\ UNCHANGED <<packetbuf, spilled, buflen, bufptr, packetbufptr, packetbuf_addrs, qbuf>>
  /\ air' = <<>>

\* An incoming packet, or one that was queued: all of it is data.
IsIncoming == hdrptr = PACKETBUF_HDR_SIZE /\ ~packetbuf_is_reference

packetbuf_hdrreduce(size) ==
  /\ IsIncoming /\ buflen >= size
  /\ bufptr' = bufptr + size
  /\ buflen' = buflen - size
  /\ UNCHANGED <<packetbuf, spilled, hdrptr, packetbufptr, qbuf>> /\ air' = <<>>

\* Mutant: the bytes stay where they are.
NothingMoves == UNCHANGED <<packetbuf, spilled>>

\* The data behind the header: data that is referenced is copied, whatever its
\* length, and data that is not is moved.
packetbuf_compact ==
  IF packetbuf_is_reference \/ bufptr > 0
  THEN Write(PACKETBUF_HDR_SIZE,
             IF packetbuf_is_reference THEN SubSeq(packetbufptr, 1, buflen)
                                       ELSE DataBytes)
  ELSE UNCHANGED <<packetbuf, spilled>>

-----------------------------------------------------------------------------
(***************************************************************************)
(* framer-nullmac.c: the MAC header.                                       *)
(***************************************************************************)
MacHeader == <<packetbuf_addrs.receiver, rimeaddr_node_addr>>

create ==
  PushHeader(MacHeader) \/ packetbuf_hdralloc_fails(Len(MacHeader))

parse ==
  /\ packetbuf_hdrreduce(2)
  /\ packetbuf_addrs' = [receiver |-> DataBytes[1], sender |-> DataBytes[2]]

Reduce(size) == packetbuf_hdrreduce(size) /\ UNCHANGED packetbuf_addrs

(***************************************************************************)
(* nullmac.c.                                                              *)
(***************************************************************************)

\* packetbuf_compact, then nullmac's send_packet: totlen bytes from hdrptr on.
\* Of bytes behind packetbuf nobody knows what they are.
send_packet ==
  /\ packetbuf_compact
  /\ bufptr' = IF packetbuf_is_reference THEN bufptr ELSE 0
  /\ air' = [k \in 1 .. packetbuf_totlen |->
               IF hdrptr + k - 1 \in Place THEN packetbuf'[hdrptr + k - 1] ELSE NoByte]
  /\ UNCHANGED <<buflen, hdrptr, packetbufptr, packetbuf_addrs, qbuf>>

\* The radio driver reads PACKETBUF_SIZE bytes at most.
read_packet(frame) ==
  /\ Len(frame) <= PACKETBUF_SIZE
  /\ packetbuf_clear(NoReference, Len(frame))
  /\ Write(PACKETBUF_HDR_SIZE, frame)
  /\ packetbuf_addrs' = NullAddrs
  /\ UNCHANGED qbuf /\ air' = <<>>

(***************************************************************************)
(* queuebuf.c: what is in a buffer.  Buffers and their number are in       *)
(* PacketQueue.                                                            *)
(***************************************************************************)
queuebuf_new_from_packetbuf ==
  /\ qbuf = <<>>
  /\ qbuf' = IF packetbuf_is_reference
             THEN <<[hdr |-> HdrBytes, data |-> SubSeq(packetbufptr, 1, buflen),
                     addrs |-> packetbuf_addrs, copied |-> FALSE]>>
             ELSE <<[hdr |-> <<>>, data |-> packetbuf_copyto,
                     addrs |-> packetbuf_addrs, copied |-> TRUE]>>
  /\ UNCHANGED <<packetbuf, spilled, pointerVars, packetbuf_addrs>> /\ air' = <<>>

\* queuebuf_to_packetbuf, then queuebuf_free.  A header of the full size is
\* refused by packetbuf_hdralloc, which then leaves hdrptr right all the same.
queuebuf_to_packetbuf ==
  /\ qbuf # <<>>
  /\ LET q == Head(qbuf)
     IN  IF q.copied
         THEN copyfrom(q.data) /\ packetbuf_addrs' = q.addrs
         ELSE LET at == IF PACKETBUF_HDR_SIZE > Len(q.hdr)
                        THEN PACKETBUF_HDR_SIZE - Len(q.hdr) ELSE 0
              IN  /\ buflen' = Len(Fitting(q.data)) /\ bufptr' = 0 /\ hdrptr' = at
                  /\ packetbufptr' = NoReference
                  /\ Write(at, q.hdr \o Fitting(q.data))
                  /\ packetbuf_addrs' = NullAddrs
  /\ qbuf' = <<>>
  /\ air' = <<>>

Operation ==
  \/ \E bytes \in Payload : packetbuf_copyfrom(bytes) \/ packetbuf_reference(bytes)
  \/ \E a \in Addr : packetbuf_set_addr(a)
  \/ packetbuf_clear_hdr
  \/ \E bytes \in Header : PushHeader(bytes) \/ packetbuf_hdralloc_fails(Len(bytes))
  \/ \E bytes \in Header : Reduce(Len(bytes))
  \/ create
  \/ parse
  \/ send_packet
  \/ \E frame \in Foreign : read_packet(frame)
  \/ queuebuf_new_from_packetbuf
  \/ queuebuf_to_packetbuf

\* What lies behind packetbuf belongs to others: once it is overwritten, nothing can
\* be said of the program any more.
PacketbufNext ==
  /\ operations < MaxOperations /\ ~spilled
  /\ operations' = operations + 1
  /\ Operation

PacketbufSpec == PacketbufInit /\ [][PacketbufNext]_packetbufVars

-----------------------------------------------------------------------------
(***************************************************************************)
(* Properties.                                                             *)
(***************************************************************************)

PacketTypeOK ==
  /\ packetbuf \in [Place -> Octet]
  /\ packetbufptr \in Payload \cup {NoReference}
  /\ packetbuf_addrs \in [receiver : Octet, sender : Octet]
  /\ qbuf \in Seq([hdr : Seq(Octet), data : Seq(Octet),
                   addrs : [receiver : Octet, sender : Octet], copied : BOOLEAN])

PointersInBounds ==
  /\ hdrptr \in 0 .. PACKETBUF_HDR_SIZE
  /\ buflen \in Nat /\ bufptr \in Nat
  /\ IF packetbuf_is_reference
     THEN bufptr = 0 /\ buflen = Len(packetbufptr)
     ELSE bufptr + buflen <= PACKETBUF_SIZE

QueuedFits ==
  \A i \in 1 .. Len(qbuf) :
    /\ Len(qbuf[i].hdr) <= PACKETBUF_HDR_SIZE
    /\ qbuf[i].copied => Len(qbuf[i].data) <= PACKETBUF_HDR_SIZE + PACKETBUF_SIZE

\* Only data that is referenced, too long, and sent is written beyond the end.
SpilledByReference ==
  spilled => packetbuf_is_reference /\ Len(packetbufptr) > PACKETBUF_SIZE

\* Whatever is asked for in whatever order, the pointers stay inside packetbuf,
\* or inside the application's memory, and so does every access made with them:
\* neither a header that does not fit, nor headers reduced and packets queued and
\* taken back carry one of them out. There is one exception: packetbuf.c:246-252
\* takes a reference of any length, and packetbuf_compact copies all of it.
InBounds == PacketTypeOK /\ PointersInBounds /\ QueuedFits /\ SpilledByReference

\* Wherever the bytes lie, the packet is what was put into it: what the radio is
\* given is header and data, one behind the other, after any number of headers
\* were added and taken off, compacted, queued and taken back.  Two things are
\* excepted by name: a header refused, which against packetbuf.h:294-296 takes all
\* the room (NoRoom), and data too long sent from a reference (TransmitTooLong).
Packet == INSTANCE PacketService
  WITH Size <- PACKETBUF_SIZE, HeaderSize <- PACKETBUF_HDR_SIZE, NullAddr <- rimeaddr_null,
       NodeAddr <- rimeaddr_node_addr, Frame <- Foreign,
       hdr <- HdrBytes, data <- DataBytes, addrs <- packetbuf_addrs,
       queued <- qbuf

ImplementsPacket == Packet!Spec
=============================================================================
