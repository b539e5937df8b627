------------------------------ MODULE RingBuf ------------------------------
(***************************************************************************)
(* The ring buffer of core/lib/ringbuf.c.  One context calls ringbuf_put   *)
(* and another ringbuf_get, and neither locks: either may be an interrupt  *)
(* handler that runs between any two memory accesses of the other.         *)
(*                                                                         *)
(* put_ptr and get_ptr are 8 bits, loaded and stored in one access each.   *)
(* The size is a power of two, so `& mask' is `% BUFSIZE'.                  *)
(***************************************************************************)
EXTENDS Integers, Sequences

CONSTANTS
  BUFSIZE,  \* the size given to ringbuf_init, at most 128
  Byte,     \* what is put
  Nothing   \* `-1'; also the content of a data byte never written

ASSUME SizeAssumption == BUFSIZE \in Nat \ {0}
ASSUME NothingAssumption == Nothing \notin Byte

VARIABLES
  data, put_ptr, get_ptr,
  putting,   \* the caller of ringbuf_put: <<"idle">>, <<"store", c>> when it
             \* has found room, <<"advance", c>> when it has stored c
  getting,   \* the caller of ringbuf_get: <<"idle">>, <<"load">> when it has
             \* found a byte, <<"advance", c>> when it has loaded c
  accepted,  \* the last answer of ringbuf_put
  taken      \* the last answer of ringbuf_get

vars == <<data, put_ptr, get_ptr, putting, getting, accepted, taken>>

Index == 0 .. BUFSIZE - 1

TypeOK ==
  /\ data \in [Index -> Byte \cup {Nothing}]
  /\ put_ptr \in Index
  /\ get_ptr \in Index
  /\ putting \in {<<"idle">>} \cup ({"store", "advance"} \X Byte)
  /\ getting \in {<<"idle">>, <<"load">>} \cup ({"advance"} \X Byte)
  /\ accepted \in BOOLEAN
  /\ taken \in Byte \cup {Nothing}

\* ringbuf_init on zeroed storage
Init ==
  /\ data = [i \in Index |-> Nothing]
  /\ put_ptr = 0
  /\ get_ptr = 0
  /\ putting = <<"idle">>
  /\ getting = <<"idle">>
  /\ accepted = TRUE
  /\ taken = Nothing

ringbuf_elements == (put_ptr - get_ptr) % BUFSIZE

-----------------------------------------------------------------------------
(***************************************************************************)
(* ringbuf_put                                                             *)
(***************************************************************************)
\* `((put_ptr - get_ptr) & mask) == mask'
Full == ringbuf_elements = BUFSIZE - 1

PutTest(c) ==
  /\ putting = <<"idle">>
  /\ IF Full
     THEN accepted' = FALSE /\ UNCHANGED putting
     ELSE putting' = <<"store", c>> /\ UNCHANGED accepted
  /\ UNCHANGED <<data, put_ptr, get_ptr, getting, taken>>

PutStore ==
  /\ putting[1] = "store"
  /\ data' = [data EXCEPT ![put_ptr] = putting[2]]
  /\ putting' = <<"advance", putting[2]>>
  /\ UNCHANGED <<put_ptr, get_ptr, getting, accepted, taken>>

\* This store is what ringbuf_get can see.
PutAdvance ==
  /\ putting[1] = "advance"
  /\ put_ptr' = (put_ptr + 1) % BUFSIZE
  /\ accepted' = TRUE
  /\ putting' = <<"idle">>
  /\ UNCHANGED <<data, get_ptr, getting, taken>>

-----------------------------------------------------------------------------
(***************************************************************************)
(* ringbuf_get                                                             *)
(***************************************************************************)
GetTest ==
  /\ getting = <<"idle">>
  /\ IF ringbuf_elements > 0
     THEN getting' = <<"load">> /\ UNCHANGED taken
     ELSE taken' = Nothing /\ UNCHANGED getting
  /\ UNCHANGED <<data, put_ptr, get_ptr, putting, accepted>>

GetLoad ==
  /\ getting[1] = "load"
  /\ getting' = <<"advance", data[get_ptr]>>
  /\ UNCHANGED <<data, put_ptr, get_ptr, putting, accepted, taken>>

\* Mutant: get_ptr is advanced before the byte is loaded.
LoadAfterAdvance ==
  /\ getting[1] = "advance"
  /\ get_ptr' = (get_ptr + 1) % BUFSIZE
  /\ taken' = data[get_ptr']
  /\ getting' = <<"idle">>
  /\ UNCHANGED <<data, put_ptr, putting, accepted>>

\* This store gives the byte back to ringbuf_put.
GetAdvance ==
  /\ getting[1] = "advance"
  /\ get_ptr' = (get_ptr + 1) % BUFSIZE
  /\ taken' = getting[2]
  /\ getting' = <<"idle">>
  /\ UNCHANGED <<data, put_ptr, putting, accepted>>

-----------------------------------------------------------------------------
Next ==
  \/ \E c \in Byte : PutTest(c)
  \/ PutStore
  \/ PutAdvance
  \/ GetTest
  \/ GetLoad
  \/ GetAdvance

Spec == Init /\ [][Next]_vars

-----------------------------------------------------------------------------
(***************************************************************************)
(* Properties.                                                             *)
(***************************************************************************)

\* The caller of ringbuf_put never stores into a byte that waits to be loaded,
\* although it tested get_ptr long before: there is still room when it stores.
RoomWhenStoring == putting # <<"idle">> => ~Full

\* What ringbuf_get has loaded is still the oldest byte when it moves get_ptr.
LoadedIsOldest ==
  /\ getting # <<"idle">> => ringbuf_elements > 0
  /\ getting[1] = "advance" => data[get_ptr] = getting[2]

\* Every byte between the two pointers was put, and so was the one whose
\* put_ptr is about to move.
HeldIsPut ==
  /\ \A i \in 0 .. ringbuf_elements - 1 :
       data[(get_ptr + i) % BUFSIZE] \in Byte
  /\ putting[1] = "advance" => data[put_ptr] = putting[2]

\* The three together are inductive.
IInv == TypeOK /\ RoomWhenStoring /\ LoadedIsOldest /\ HeldIsPut

\* The bytes between the two pointers, oldest first.
Held ==
  [i \in 1 .. ringbuf_elements |-> data[(get_ptr + (i - 1)) % BUFSIZE]]

Fifo == INSTANCE ByteFifo WITH Capacity <- BUFSIZE - 1, queue <- Held

\* ringbuf.h:98 and 110, both functions are `safe to call from an interrupt
\* handler': under every interleaving of their memory accesses bytes come out
\* once, unchanged and in order, and a refusal or a `-1' is true at the instant
\* of the test.
ImplementsFifo == Fifo!Spec
=============================================================================
