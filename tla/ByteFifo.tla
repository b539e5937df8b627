------------------------------ MODULE ByteFifo ------------------------------
(***************************************************************************)
(* What core/lib/ringbuf.h promises: a first-in first-out buffer between   *)
(* one caller of ringbuf_put and one of ringbuf_get, each of which gets    *)
(* its answer at one instant of its call.                                  *)
(***************************************************************************)
EXTENDS Naturals, Sequences

CONSTANTS
  Capacity,  \* how many bytes fit
  Byte,
  Nothing    \* `-1', the answer of ringbuf_get on an empty buffer

VARIABLES
  queue,     \* the bytes held, oldest first
  taken,     \* the last answer of ringbuf_get
  accepted   \* the last answer of ringbuf_put

vars == <<queue, taken, accepted>>

Init ==
  /\ queue = <<>>
  /\ taken = Nothing
  /\ accepted = TRUE

Put(c) ==
  /\ Len(queue) < Capacity
  /\ queue' = Append(queue, c)
  /\ accepted' = TRUE
  /\ UNCHANGED taken

Refuse ==
  /\ Len(queue) = Capacity
  /\ accepted' = FALSE
  /\ UNCHANGED <<queue, taken>>

Get ==
  /\ queue # <<>>
  /\ taken' = Head(queue)
  /\ queue' = Tail(queue)
  /\ UNCHANGED accepted

GetNothing ==
  /\ queue = <<>>
  /\ taken' = Nothing
  /\ UNCHANGED <<queue, accepted>>

Next == (\E c \in Byte : Put(c)) \/ Refuse \/ Get \/ GetNothing

Spec == Init /\ [][Next]_vars
=============================================================================
