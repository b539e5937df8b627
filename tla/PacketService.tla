---------------------------- MODULE PacketService ----------------------------
(***************************************************************************)
(* What packetbuf.h and queuebuf.h promise of the packet that is being     *)
(* made, or has been received: two sequences of bytes, header and data,    *)
(* and two addresses.  Nothing here says where the bytes lie.              *)
(***************************************************************************)
EXTENDS Integers, Sequences, SequencesExt

CONSTANTS Size, HeaderSize, Addr, NullAddr, NodeAddr, Payload, Header, Frame

VARIABLES hdr, data, addrs, queued, air

packet == <<hdr, data, addrs>>

NoAddrs == [receiver |-> NullAddr, sender |-> NullAddr]
Clip(s) == SubSeq(s, 1, IF Len(s) < Size THEN Len(s) ELSE Size)

Init ==
  /\ hdr = <<>> /\ data = <<>> /\ addrs = NoAddrs
  /\ queued = <<>> /\ air = <<>>

\* What is copied is clipped, what is referenced is taken as it is.
Take(d) ==
  /\ hdr' = <<>> /\ data' = d /\ addrs' = NoAddrs
  /\ UNCHANGED queued /\ air' = <<>>
New(d) == Take(Clip(d))

AddressTo(a) ==
  /\ addrs' = [addrs EXCEPT !.receiver = a]
  /\ UNCHANGED <<hdr, data, queued>> /\ air' = <<>>

\* There must be room for a byte more.
HasRoom(n) == Len(hdr) + n < HeaderSize

Push(h) ==
  /\ HasRoom(Len(h))
  /\ hdr' = h \o hdr /\ UNCHANGED <<data, addrs, queued>> /\ air' = <<>>

\* If there is not, packetbuf.h says, nothing is allocated; the code allocates all
\* there is, and nobody knows what the header begins with.
NoRoom(n) ==
  /\ ~HasRoom(n)
  /\ IsSuffix(hdr, hdr') /\ Len(hdr') = HeaderSize
  /\ UNCHANGED <<data, addrs, queued>> /\ air' = <<>>

ClearHeader == hdr' = <<>> /\ UNCHANGED <<data, addrs, queued>> /\ air' = <<>>

Pop(n) ==
  /\ n <= Len(data)
  /\ data' = SubSeq(data, n + 1, Len(data))
  /\ UNCHANGED <<hdr, addrs, queued>> /\ air' = <<>>

\* The MAC header: receiver and sender.
Parse ==
  /\ Len(data) >= 2
  /\ addrs' = [receiver |-> data[1], sender |-> data[2]]
  /\ data' = SubSeq(data, 3, Len(data))
  /\ UNCHANGED <<hdr, queued>> /\ air' = <<>>

Transmit ==
  /\ Len(data) <= Size
  /\ air' = hdr \o data /\ UNCHANGED <<packet, queued>>

\* A packet that is too long must not be sent: nothing is said of what the radio
\* is given.
TransmitTooLong == Len(data) > Size /\ UNCHANGED <<packet, queued>>

\* A packet that is copied into the queue has no header any more: it counts as
\* data.
Save(copied) ==
  /\ queued = <<>>
  /\ queued' = <<[hdr |-> IF copied THEN <<>> ELSE hdr,
                  data |-> IF copied THEN hdr \o data ELSE data,
                  addrs |-> addrs, copied |-> copied]>>
  /\ UNCHANGED packet /\ air' = <<>>

\* A queued packet comes back.  If it was copied it is clipped: header and data
\* together may be longer than the buffer.  If not, its addresses are lost.
Restore ==
  /\ queued # <<>>
  /\ hdr' = Head(queued).hdr
  /\ data' = Clip(Head(queued).data)
  /\ addrs' = IF Head(queued).copied THEN Head(queued).addrs ELSE NoAddrs
  /\ queued' = <<>>
  /\ air' = <<>>

Next ==
  \/ \E d \in Payload \cup Frame : New(d)
  \/ \E d \in Payload : Take(d)
  \/ \E a \in Addr : AddressTo(a)
  \/ \E h \in Header \cup {<<addrs.receiver, NodeAddr>>} : Push(h) \/ NoRoom(Len(h))
  \/ ClearHeader
  \/ \E n \in 1 .. Size : Pop(n)
  \/ Parse
  \/ Transmit \/ TransmitTooLong
  \/ \E copied \in BOOLEAN : Save(copied)
  \/ Restore

Spec == Init /\ [][Next]_<<packet, queued, air>>
=============================================================================
