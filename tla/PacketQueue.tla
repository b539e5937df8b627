----------------------------- MODULE PacketQueue -----------------------------
(***************************************************************************)
(* The packet queue of the Contiki port, core/net/rime/packetqueue.c, with *)
(* the memory blocks and queue buffers its packets are kept in (memb.c,    *)
(* queuebuf.c, list.c) and the callback timers that end their lifetimes,   *)
(* beside callback timers of an application.                               *)
(*                                                                         *)
(* An item block and its timer are used again for another packet as soon   *)
(* as they are free, with whatever TIMER event is still queued for them.   *)
(***************************************************************************)
EXTENDS CallbackTimer

CONSTANTS
  NumItems,          \* size of the packet queue
  QUEUEBUF_NUM,      \* blocks of bufmem
  QUEUEBUF_REF_NUM,  \* blocks of refbufmem
  AppInterval        \* what the application sets its timers for

ASSUME SizeAssumption ==
  /\ NumItems \in Nat \ {0}
  /\ QUEUEBUF_NUM \in Nat /\ QUEUEBUF_REF_NUM \in Nat
ASSUME AppIntervalAssumption == AppInterval \subseteq 1 .. MaxInterval

\* An item stands for its block and for the lifetimer in it.
Item == 1 .. NumItems
App == Ctimer \ Item

ASSUME LifetimerAssumption == Item \subseteq Ctimer

Buf == {"buf"} \X (1 .. QUEUEBUF_NUM)
Ref == {"ref"} \X (1 .. QUEUEBUF_REF_NUM)
NoBuf == <<"none", 0>>

VARIABLES
  memb,     \* the item blocks in use
  bufs,     \* the blocks of bufmem and refbufmem in use
  buf,      \* the buf of each item
  list,     \* the queue, first packet first
  mortal    \* history: the packets on it that have a lifetime

queueVars == <<memb, bufs, buf, list, mortal>>
vars == <<ctimerVars, queueVars>>

TypeOK ==
  /\ CtimerTypeOK
  /\ memb \subseteq Item
  /\ bufs \subseteq Buf \cup Ref
  /\ buf \in [Item -> Buf \cup Ref \cup {NoBuf}]
  /\ list \in Seq(Item)
  /\ mortal \subseteq Item

\* packetqueue_init and queuebuf_init.
Init ==
  /\ CtimerInit
  /\ memb = {}
  /\ bufs = {}
  /\ buf = [i \in Item |-> NoBuf]
  /\ list = <<>>
  /\ mortal = {}

-----------------------------------------------------------------------------
\* memb_alloc takes the first block that is free.
FirstFree(pool, used, b) ==
  /\ b \in pool \ used
  /\ \A c \in pool \ used : b[2] <= c[2]

memb_alloc(i) == i \in Item \ memb /\ \A j \in Item \ memb : i <= j

memb_free(i) == memb' = memb \ {i}

\* A block for a copy of the packet, or for a reference to it.
queuebuf_new_from_packetbuf(isReference, b) ==
  /\ FirstFree(IF isReference THEN Ref ELSE Buf, bufs, b)
  /\ bufs' = bufs \cup {b}

OutOfBuffers(isReference) == (IF isReference THEN Ref ELSE Buf) \subseteq bufs

queuebuf_free(b) == bufs' = bufs \ {b}

\* No room for the item, or for its buffer: then the item is freed again.
EnqueueFails(isReference) ==
  /\ Item \subseteq memb \/ OutOfBuffers(isReference)
  /\ UNCHANGED vars

EnqueueSucceeds(isReference, lifetime) ==
  \E i \in Item, b \in Buf \cup Ref :
    /\ memb_alloc(i)
    /\ memb' = memb \cup {i}
    /\ queuebuf_new_from_packetbuf(isReference, b)
    /\ buf' = [buf EXCEPT ![i] = b]
    /\ IF lifetime > 0
       THEN /\ ctimer_set(i, lifetime)
            /\ mortal' = mortal \cup {i}
       ELSE UNCHANGED <<ctimerVars, mortal>>
    /\ list' = list_add(list, i)

packetqueue_enqueue_packetbuf(isReference, lifetime) ==
  \/ EnqueueFails(isReference)
  \/ EnqueueSucceeds(isReference, lifetime)

\* Mutant: the packet goes and its lifetimer runs on.
FreeWithoutStop(i) ==
  /\ list' = list_remove(list, i)
  /\ queuebuf_free(buf[i])
  /\ memb_free(i)
  /\ mortal' = mortal \ {i}
  /\ UNCHANGED <<buf, interval, pending, remaining, ctimer_list>>

\* How remove_queued_packet and packetqueue_dequeue end.
RemovePacket(i) ==
  /\ list' = list_remove(list, i)
  /\ queuebuf_free(buf[i])
  /\ ctimer_stop(i)
  /\ memb_free(i)
  /\ mortal' = mortal \ {i}
  /\ UNCHANGED <<buf, interval>>

\* The user has looked at the packet with packetqueue_first.
packetqueue_dequeue ==
  /\ list # <<>>
  /\ RemovePacket(Head(list))
  /\ UNCHANGED events

\* The callback of a lifetimer.
remove_queued_packet(i) ==
  /\ Called(i)
  /\ RemovePacket(i)

\* The callback of another timer, which may use any of these functions next.
AppCallback(c) ==
  /\ Called(c)
  /\ ctimer_list' = list_remove(ctimer_list, c)
  /\ UNCHANGED <<pending, remaining, interval, queueVars>>

-----------------------------------------------------------------------------
Timers ==
  /\ Clock \/ (\E c \in Ctimer : Expire(c)) \/ EventIgnored
  /\ UNCHANGED queueVars

AppTimer(c) ==
  /\ \/ \E t \in AppInterval : ctimer_set(c, t)
     \/ ctimer_reset(c)
     \/ ctimer_restart(c)
     \/ ctimer_stop(c) /\ UNCHANGED <<events, interval>>
  /\ UNCHANGED queueVars

Next ==
  \/ Timers
  \/ \E i \in Item : remove_queued_packet(i)
  \/ \E c \in App : AppCallback(c) \/ AppTimer(c)
  \/ \E isReference \in BOOLEAN, lifetime \in 0 .. MaxInterval :
       packetqueue_enqueue_packetbuf(isReference, lifetime)
  \/ packetqueue_dequeue

Spec == Init /\ [][Next]_vars

(***************************************************************************)
(* Time passes, the kernel delivers events, and a timer that is due is     *)
(* posted however often the event queue is full: Etimer's DueTimerPosted.  *)
(***************************************************************************)
Deliver ==
  \/ EventIgnored /\ UNCHANGED queueVars
  \/ \E i \in Item : remove_queued_packet(i)
  \/ \E c \in App : AppCallback(c)

FairSpec ==
  /\ Spec
  /\ WF_vars(Clock /\ UNCHANGED queueVars)
  /\ WF_vars(Deliver)
  /\ \A c \in Ctimer : SF_vars(Expire(c) /\ UNCHANGED queueVars)

-----------------------------------------------------------------------------
(***************************************************************************)
(* Properties.                                                             *)
(***************************************************************************)

\* Nothing leaks and nothing is shared, whichever of the three allocations
\* fails and whichever of timer and user removes a packet: the item blocks in
\* use are those on the queue, the buffers in use are theirs, one each.
PoolsMatchQueue ==
  /\ memb = Members(list)
  /\ bufs = {buf[i] : i \in memb}
  /\ \A i, j \in memb : buf[i] = buf[j] => i = j

\* A packet on the queue has its lifetimer set exactly when it was queued with a
\* lifetime, and a free block has none: no timer of an earlier packet is left.
\* And every timer that is set will be called.
LifetimesWatched ==
  /\ ListedWillBeCalled
  /\ mortal = Item \cap Members(ctimer_list)
  /\ mortal \subseteq Members(list)
  /\ Item \cap pending \subseteq mortal

\* Blocks, buffers, timers and queue agree.
QueueConsistent == TypeOK /\ PoolsMatchQueue /\ LifetimesWatched

\* The queue stays in order: packets are added behind the others, and only the
\* first or one with a lifetime leaves.  A TIMER event that was queued for an
\* earlier packet in the same block never removes one that has no lifetime.
LeavesInOrder ==
  [][\/ list' = list
     \/ \E i \in Item \ Members(list) : list' = Append(list, i)
     \/ list # <<>> /\ list' = Tail(list)
     \/ \E i \in mortal : list' = list_remove(list, i)]_vars

\* A packet that has a lifetime does not stay for ever, even if nobody takes it.
LifetimesEnd == \A i \in Item : i \in mortal ~> i \notin mortal
=============================================================================
