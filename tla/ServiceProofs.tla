---------------------------- MODULE ServiceProofs ----------------------------
(***************************************************************************)
(* Proofs about the byte ring buffer and the serial line, and about the    *)
(* services as they are checked together: what the parts keep, they keep   *)
(* side by side.                                                           *)
(***************************************************************************)
EXTENDS MCServices, SerialLine, PartProofs

-----------------------------------------------------------------------------
(***************************************************************************)
(* core/lib/ringbuf.c, for every size and every set of bytes.              *)
(***************************************************************************)

\* What the pointers are, and what the callers hold.
LEMMA Types ==
  ASSUME TypeOK
  PROVE  /\ data \in [Index -> Byte \cup {Nothing}]
         /\ put_ptr \in 0 .. BUFSIZE - 1
         /\ get_ptr \in 0 .. BUFSIZE - 1
         /\ put_ptr \in Index /\ get_ptr \in Index
         /\ ringbuf_elements \in 0 .. BUFSIZE - 1
         /\ BUFSIZE \in Nat \ {0}
BY SizeAssumption, DistanceWraps DEF TypeOK, Index, ringbuf_elements

LEMMA InitIInv == Init => IInv
<1> SUFFICES ASSUME Init PROVE IInv
  OBVIOUS
<1>1. TypeOK
  BY SizeAssumption DEF Init, TypeOK, Index
<1>2. ringbuf_elements = 0
  BY SizeAssumption, DistanceWraps DEF Init, ringbuf_elements
<1> QED
  BY <1>1, <1>2
  DEF Init, IInv, RoomWhenStoring, LoadedIsOldest, HeldIsPut

\* The byte about to be stored lies outside the part of the ring that is held.
LEMMA StoreOutside ==
  ASSUME TypeOK, ~Full
  PROVE  /\ \A i \in 0 .. ringbuf_elements - 1 :
              /\ (get_ptr + i) % BUFSIZE # put_ptr
              /\ (get_ptr + i) % BUFSIZE \in Index
         /\ ringbuf_elements > 0 => get_ptr # put_ptr
<1> DEFINE n == ringbuf_elements
<1>t. /\ put_ptr \in 0 .. BUFSIZE - 1
      /\ get_ptr \in 0 .. BUFSIZE - 1
      /\ n \in 0 .. BUFSIZE - 1
      /\ BUFSIZE \in Nat \ {0}
  BY Types
<1>1. (get_ptr + n) % BUFSIZE = put_ptr
  BY <1>t, FrontOfRing DEF ringbuf_elements
<1>2. n = 0 \/ get_ptr # put_ptr
  BY <1>t, DistanceWraps DEF ringbuf_elements
<1> HIDE DEF n
<1>3. ASSUME NEW i \in 0 .. n - 1
      PROVE  /\ (get_ptr + i) % BUFSIZE # put_ptr
             /\ (get_ptr + i) % BUFSIZE \in Index
  <2>1. i \in 0 .. BUFSIZE - 1 /\ i # n /\ i \in 0 .. BUFSIZE
    BY <1>t
  <2>2. (get_ptr + i) % BUFSIZE # (get_ptr + n) % BUFSIZE
    BY <1>t, <2>1, SlotsDiffer
  <2>3. (get_ptr + i) % BUFSIZE \in Index
    BY <1>t, <2>1, WrapOnce DEF Index
  <2> QED
    BY <1>1, <2>2, <2>3
<1> QED
  BY <1>2, <1>3, <1>t DEF n

\* ringbuf_put's store into data disturbs nothing that is held.
LEMMA PutStorePreserves ==
  ASSUME IInv, PutStore
  PROVE  IInv'
<1> USE DEF IInv
<1> DEFINE c == putting[2]
<1>t. /\ data \in [Index -> Byte \cup {Nothing}]
      /\ put_ptr \in Index
      /\ get_ptr \in Index
      /\ ringbuf_elements \in 0 .. BUFSIZE - 1
  BY Types
<1>1. putting \in {"store", "advance"} \X Byte
  BY DEF PutStore, TypeOK
<1>2. c \in Byte /\ putting # <<"idle">>
  BY <1>1
<1>3. /\ data' = [data EXCEPT ![put_ptr] = c]
      /\ putting' = <<"advance", c>>
      /\ UNCHANGED <<put_ptr, get_ptr, getting, accepted, taken>>
      /\ ringbuf_elements' = ringbuf_elements
      /\ Full' = Full
  BY DEF PutStore, ringbuf_elements, Full
<1>4. ~Full
  BY <1>2 DEF RoomWhenStoring
<1>5. /\ \A i \in 0 .. ringbuf_elements - 1 :
           data'[(get_ptr + i) % BUFSIZE] = data[(get_ptr + i) % BUFSIZE]
      /\ ringbuf_elements > 0 => data'[get_ptr] = data[get_ptr]
      /\ data'[put_ptr] = c
  BY <1>t, <1>3, <1>4, StoreOutside
<1>6. TypeOK'
  BY <1>t, <1>2, <1>3 DEF TypeOK
<1>7. RoomWhenStoring'
  BY <1>3, <1>4 DEF RoomWhenStoring
<1>8. LoadedIsOldest'
  <2>1. getting[1] = "advance" => getting # <<"idle">>
    OBVIOUS
  <2> QED
    BY <2>1, <1>3, <1>5 DEF LoadedIsOldest
<1>9. HeldIsPut'
  BY <1>3, <1>5 DEF HeldIsPut
<1> QED
  BY <1>6, <1>7, <1>8, <1>9

\* Moving put_ptr makes the stored byte the youngest one held.
LEMMA PutAdvancePreserves ==
  ASSUME IInv, PutAdvance
  PROVE  /\ IInv'
         /\ ringbuf_elements' = ringbuf_elements + 1
<1> USE DEF IInv
<1>t. /\ data \in [Index -> Byte \cup {Nothing}]
      /\ put_ptr \in 0 .. BUFSIZE - 1
      /\ get_ptr \in 0 .. BUFSIZE - 1
      /\ ringbuf_elements \in 0 .. BUFSIZE - 1
      /\ BUFSIZE \in Nat \ {0}
  BY Types
<1>1. putting \in {"store", "advance"} \X Byte
  BY DEF PutAdvance, TypeOK
<1>2. putting[2] \in Byte /\ putting # <<"idle">>
  BY <1>1
<1>3. /\ put_ptr' = (put_ptr + 1) % BUFSIZE
      /\ putting' = <<"idle">>
      /\ accepted' = TRUE
      /\ UNCHANGED <<data, get_ptr, getting, taken>>
  BY DEF PutAdvance
<1>4. ringbuf_elements # BUFSIZE - 1
  BY <1>2 DEF RoomWhenStoring, Full
<1>5. /\ put_ptr' \in Index
      /\ ringbuf_elements' = ringbuf_elements + 1
  BY <1>t, <1>3, <1>4, FrontAdvances DEF ringbuf_elements, Index
<1>6. TypeOK'
  BY <1>3, <1>5 DEF TypeOK
<1>7. RoomWhenStoring' /\ LoadedIsOldest'
  BY <1>t, <1>3, <1>5 DEF RoomWhenStoring, LoadedIsOldest
<1>8. HeldIsPut'
  <2>1. SUFFICES ASSUME NEW i \in 0 .. ringbuf_elements
                 PROVE  data[(get_ptr + i) % BUFSIZE] \in Byte
    BY <1>t, <1>3, <1>5 DEF HeldIsPut
  <2>2. CASE i = ringbuf_elements
    <3>1. (get_ptr + ringbuf_elements) % BUFSIZE = put_ptr
      BY <1>t, FrontOfRing DEF ringbuf_elements
    <3>2. data[put_ptr] = putting[2]
      BY DEF HeldIsPut, PutAdvance
    <3> QED
      BY <2>2, <3>1, <3>2, <1>2
  <2>3. CASE i # ringbuf_elements
    <3>1. i \in 0 .. ringbuf_elements - 1
      BY <1>t, <2>3
    <3> QED
      BY <3>1 DEF HeldIsPut
  <2> QED
    BY <2>2, <2>3
<1> QED
  BY <1>5, <1>6, <1>7, <1>8

\* Moving get_ptr gives back the oldest byte and leaves the others in place.
LEMMA GetAdvancePreserves ==
  ASSUME IInv, GetAdvance
  PROVE  /\ IInv'
         /\ ringbuf_elements > 0
         /\ ringbuf_elements' = ringbuf_elements - 1
         /\ \A i \in 0 .. ringbuf_elements - 2 :
              (get_ptr' + i) % BUFSIZE = (get_ptr + (i + 1)) % BUFSIZE
<1> USE DEF IInv
<1>t. /\ put_ptr \in 0 .. BUFSIZE - 1
      /\ get_ptr \in 0 .. BUFSIZE - 1
      /\ ringbuf_elements \in 0 .. BUFSIZE - 1
      /\ BUFSIZE \in Nat \ {0}
  BY Types
<1>1. getting \in {"advance"} \X Byte
  BY DEF GetAdvance, TypeOK
<1>2. getting[2] \in Byte /\ getting # <<"idle">>
  BY <1>1
<1>3. /\ get_ptr' = (get_ptr + 1) % BUFSIZE
      /\ getting' = <<"idle">>
      /\ taken' = getting[2]
      /\ UNCHANGED <<data, put_ptr, putting, accepted>>
  BY DEF GetAdvance
<1>4. ringbuf_elements > 0
  BY <1>2 DEF LoadedIsOldest
<1>5. /\ get_ptr' \in Index
      /\ ringbuf_elements' = ringbuf_elements - 1
  <2>1. (put_ptr - get_ptr) % BUFSIZE # 0
    BY <1>4 DEF ringbuf_elements
  <2>2. /\ (get_ptr + 1) % BUFSIZE \in 0 .. BUFSIZE - 1
        /\ (put_ptr - ((get_ptr + 1) % BUFSIZE)) % BUFSIZE
             = ((put_ptr - get_ptr) % BUFSIZE) - 1
    BY <1>t, <2>1, BackAdvances
  <2> QED
    BY <1>3, <2>2 DEF ringbuf_elements, Index
<1>6. \A i \in 0 .. ringbuf_elements - 2 :
        (get_ptr' + i) % BUFSIZE = (get_ptr + (i + 1)) % BUFSIZE
  BY <1>t, <1>3, StartAdvances
<1>7. TypeOK'
  BY <1>2, <1>3, <1>5 DEF TypeOK
<1>8. RoomWhenStoring' /\ LoadedIsOldest'
  <2>1. /\ getting' = <<"idle">> /\ getting'[1] # "advance"
        /\ putting' = putting
        /\ ringbuf_elements' # BUFSIZE - 1
    BY <1>t, <1>3, <1>5
  <2> QED
    BY <2>1 DEF RoomWhenStoring, LoadedIsOldest, Full
<1>9. HeldIsPut'
  <2>1. ASSUME NEW i \in 0 .. ringbuf_elements' - 1
        PROVE  data'[(get_ptr' + i) % BUFSIZE] \in Byte
    <3>1. i \in 0 .. ringbuf_elements - 2 /\ i + 1 \in 0 .. ringbuf_elements - 1
      BY <1>t, <1>5
    <3>2. (get_ptr' + i) % BUFSIZE = (get_ptr + (i + 1)) % BUFSIZE
      BY <3>1, <1>6
    <3> QED
      BY <1>3, <3>1, <3>2 DEF HeldIsPut
  <2> QED
    BY <2>1, <1>3 DEF HeldIsPut
<1> QED
  BY <1>4, <1>5, <1>6, <1>7, <1>8, <1>9

\* The byte ringbuf_get loads was put.
LEMMA GetLoadPreserves ==
  ASSUME IInv, GetLoad
  PROVE  IInv'
<1> USE DEF IInv
<1>t. /\ get_ptr \in 0 .. BUFSIZE - 1
      /\ ringbuf_elements \in 0 .. BUFSIZE - 1
      /\ BUFSIZE \in Nat \ {0}
  BY Types
<1>1. getting # <<"idle">>
  BY DEF GetLoad
<1>2. 0 \in 0 .. ringbuf_elements - 1
  BY <1>t, <1>1 DEF LoadedIsOldest
<1>3. (get_ptr + 0) % BUFSIZE = get_ptr
  BY <1>t, WrapOnce
<1>4. data[get_ptr] \in Byte
  BY <1>2, <1>3 DEF HeldIsPut
<1>5. UNCHANGED <<ringbuf_elements, Full>>
  BY DEF GetLoad, ringbuf_elements, Full
<1> QED
  BY <1>1, <1>2, <1>4, <1>5
  DEF GetLoad, TypeOK, RoomWhenStoring, LoadedIsOldest, HeldIsPut

LEMMA NextIInv == IInv /\ [Next]_vars => IInv'
<1> SUFFICES ASSUME IInv, [Next]_vars PROVE IInv'
  OBVIOUS
<1> USE DEF IInv
<1>1. ASSUME NEW c \in Byte, PutTest(c)
      PROVE  IInv'
  <2>1. UNCHANGED <<ringbuf_elements, Full>>
    BY <1>1 DEF PutTest, ringbuf_elements, Full
  <2>2. TypeOK'
    <3>1. /\ accepted' \in BOOLEAN
          /\ putting' \in {<<"idle">>, <<"store", c>>}
          /\ UNCHANGED <<data, put_ptr, get_ptr, getting, taken>>
      BY <1>1 DEF PutTest, TypeOK
    <3> QED
      BY <3>1 DEF TypeOK
  <2>3. RoomWhenStoring'
    BY <1>1, <2>1 DEF PutTest, RoomWhenStoring
  <2>4. LoadedIsOldest' /\ HeldIsPut'
    BY <1>1, <2>1 DEF PutTest, LoadedIsOldest, HeldIsPut
  <2> QED
    BY <2>2, <2>3, <2>4
<1>2. CASE PutStore
  BY <1>2, PutStorePreserves
<1>3. CASE PutAdvance
  BY <1>3, PutAdvancePreserves
<1>4. CASE GetTest
  <2>1. UNCHANGED <<ringbuf_elements, Full>>
    BY <1>4 DEF GetTest, ringbuf_elements, Full
  <2>2. TypeOK' /\ RoomWhenStoring' /\ HeldIsPut'
    BY <1>4, <2>1 DEF GetTest, TypeOK, RoomWhenStoring, HeldIsPut
  <2>3. LoadedIsOldest'
    BY <1>4, <2>1 DEF GetTest, LoadedIsOldest
  <2> QED
    BY <2>2, <2>3
<1>5. CASE GetLoad
  BY <1>5, GetLoadPreserves
<1>6. CASE GetAdvance
  BY <1>6, GetAdvancePreserves
<1>7. CASE UNCHANGED vars
  BY <1>7 DEF vars, ringbuf_elements, Full, TypeOK, RoomWhenStoring,
              LoadedIsOldest, HeldIsPut
<1> QED
  BY <1>1, <1>2, <1>3, <1>4, <1>5, <1>6, <1>7 DEF Next

\* For every size of the ring and every interleaving of the memory accesses of
\* ringbuf_put and ringbuf_get: no byte is stored over one that is held, none is
\* given back before it was loaded, and none is loaded that was not put.
THEOREM InvariantHolds == Spec => []IInv
<1> QED
  BY InitIInv, NextIInv, PTL DEF Spec

-----------------------------------------------------------------------------
(***************************************************************************)
(* The refinement of the first-in first-out buffer.  A put takes effect    *)
(* when it moves put_ptr, a get when it moves get_ptr, a refusal and a     *)
(* `-1' at the test.                                                       *)
(***************************************************************************)

\* What Held is made of.
HeldBytes ==
  /\ Held \in Seq(Byte)
  /\ Len(Held) = ringbuf_elements
  /\ \A i \in 1 .. ringbuf_elements :
       Held[i] = data[(get_ptr + (i - 1)) % BUFSIZE]

\* Held is a sequence as long as the distance of the pointers.
LEMMA HeldIsSequence == IInv => HeldBytes
<1> SUFFICES ASSUME IInv PROVE HeldBytes
  OBVIOUS
<1>1. ringbuf_elements \in 0 .. BUFSIZE - 1 /\ BUFSIZE \in Nat \ {0}
  BY Types DEF IInv
<1>2. ASSUME NEW i \in 1 .. ringbuf_elements
      PROVE  data[(get_ptr + (i - 1)) % BUFSIZE] \in Byte
  <2>1. i - 1 \in 0 .. ringbuf_elements - 1
    BY <1>1
  <2> QED
    BY <2>1 DEF IInv, HeldIsPut
<1>3. Held \in [1 .. ringbuf_elements -> Byte]
  BY <1>2 DEF Held
<1> QED
  BY <1>1, <1>3 DEF Held, HeldBytes

\* A store into the free part is invisible.
LEMMA PutStoreStutters ==
  ASSUME IInv, PutStore
  PROVE  UNCHANGED <<Held, taken, accepted>>
<1>1. putting # <<"idle">>
  BY DEF PutStore
<1>2. ~Full
  BY <1>1 DEF IInv, RoomWhenStoring
<1>3. /\ data' = [data EXCEPT ![put_ptr] = putting[2]]
      /\ UNCHANGED <<put_ptr, get_ptr, accepted, taken, ringbuf_elements>>
  BY DEF PutStore, ringbuf_elements
<1>4. ringbuf_elements \in 0 .. BUFSIZE - 1
  BY Types DEF IInv
<1>5. ASSUME NEW i \in 1 .. ringbuf_elements
      PROVE  data'[(get_ptr + (i - 1)) % BUFSIZE]
               = data[(get_ptr + (i - 1)) % BUFSIZE]
  <2>1. i - 1 \in 0 .. ringbuf_elements - 1
    BY <1>4
  <2>2. /\ (get_ptr + (i - 1)) % BUFSIZE # put_ptr
        /\ (get_ptr + (i - 1)) % BUFSIZE \in Index
    BY <1>2, <2>1, StoreOutside DEF IInv
  <2> QED
    BY <1>3, <2>2, Types DEF IInv
<1> QED
  BY <1>3, <1>5 DEF Held

\* Moving put_ptr appends the byte that was stored.
LEMMA PutAdvancePuts ==
  ASSUME IInv, PutAdvance
  PROVE  \E c \in Byte : Fifo!Put(c)
<1> DEFINE c == putting[2]
           n == ringbuf_elements
<1>1. c \in Byte /\ putting # <<"idle">>
  <2>1. putting \in {"store", "advance"} \X Byte
    BY DEF IInv, TypeOK, PutAdvance
  <2> QED
    BY <2>1
<1>2. IInv' /\ n' = n + 1
  BY PutAdvancePreserves
<1>3. /\ accepted' = TRUE
      /\ UNCHANGED <<data, get_ptr, taken>>
  BY DEF PutAdvance
<1>4. /\ n \in 0 .. BUFSIZE - 1
      /\ put_ptr \in 0 .. BUFSIZE - 1
      /\ get_ptr \in 0 .. BUFSIZE - 1
      /\ BUFSIZE \in Nat \ {0}
  BY Types DEF IInv
<1>5. n < BUFSIZE - 1
  BY <1>1, <1>4 DEF IInv, RoomWhenStoring, Full
<1>6. data[(get_ptr + n) % BUFSIZE] = c
  <2>1. (get_ptr + n) % BUFSIZE = put_ptr
    BY <1>4, FrontOfRing DEF ringbuf_elements
  <2> QED
    BY <2>1 DEF IInv, HeldIsPut, PutAdvance
<1>7. /\ Held \in Seq(Byte) /\ Len(Held) = n
      /\ Held' \in Seq(Byte) /\ Len(Held') = n + 1
      /\ \A i \in 1 .. n :
           Held[i] = data[(get_ptr + (i - 1)) % BUFSIZE]
      /\ \A i \in 1 .. n + 1 :
           Held'[i] = data[(get_ptr + (i - 1)) % BUFSIZE]
  <2>1. /\ Held \in Seq(Byte) /\ Len(Held) = n
        /\ \A i \in 1 .. n :
             Held[i] = data[(get_ptr + (i - 1)) % BUFSIZE]
    BY HeldIsSequence DEF HeldBytes
  <2>2. HeldBytes'
    BY <1>2, HeldIsSequence, PTL
  <2>3. /\ Held' \in Seq(Byte) /\ Len(Held') = n'
        /\ \A i \in 1 .. n' :
             Held'[i] = data'[(get_ptr' + (i - 1)) % BUFSIZE]
    BY <2>2 DEF HeldBytes
  <2> QED
    BY <1>2, <1>3, <2>1, <2>3
<1> HIDE DEF n, c
<1>8. Held' = Append(Held, c)
  <2>1. Held'[n + 1] = c
    <3>1. n + 1 \in 1 .. n + 1 /\ (n + 1) - 1 = n
      BY <1>4
    <3> QED
      BY <1>6, <1>7, <3>1
  <2>2. \A i \in 1 .. n : Held'[i] = Held[i]
    BY <1>4, <1>7
  <2>3. /\ Append(Held, c) \in Seq(Byte) /\ Len(Append(Held, c)) = n + 1
        /\ \A i \in 1 .. n : Append(Held, c)[i] = Held[i]
        /\ Append(Held, c)[n + 1] = c
    BY <1>1, <1>4, <1>7
  <2>4. \A i \in 1 .. Len(Held') : Held'[i] = Append(Held, c)[i]
    BY <1>4, <1>7, <2>1, <2>2, <2>3
  <2> QED
    BY <1>7, <2>3, <2>4, SeqEqual
<1> QED
  BY <1>1, <1>3, <1>5, <1>7, <1>8 DEF Fifo!Put

\* Moving get_ptr removes the byte that was loaded.
LEMMA GetAdvanceGets ==
  ASSUME IInv, GetAdvance
  PROVE  Fifo!Get
<1> DEFINE n == ringbuf_elements
<1>1. /\ IInv'
      /\ n > 0
      /\ n' = n - 1
      /\ \A i \in 0 .. n - 2 :
           (get_ptr' + i) % BUFSIZE = (get_ptr + (i + 1)) % BUFSIZE
  BY GetAdvancePreserves
<1>2. /\ taken' = getting[2]
      /\ getting[1] = "advance"
      /\ UNCHANGED <<data, accepted>>
  BY DEF GetAdvance
<1>3. /\ n \in 0 .. BUFSIZE - 1
      /\ get_ptr \in 0 .. BUFSIZE - 1
      /\ BUFSIZE \in Nat \ {0}
  BY Types DEF IInv
<1>4. data[(get_ptr + 0) % BUFSIZE] = taken'
  <2>1. (get_ptr + 0) % BUFSIZE = get_ptr
    BY <1>3, WrapOnce
  <2> QED
    BY <1>2, <2>1 DEF IInv, LoadedIsOldest
<1>5. /\ Held \in Seq(Byte) /\ Len(Held) = n
      /\ \A i \in 1 .. n : Held[i] = data[(get_ptr + (i - 1)) % BUFSIZE]
  BY HeldIsSequence DEF HeldBytes
<1>6. /\ Held' \in Seq(Byte) /\ Len(Held') = n'
      /\ \A i \in 1 .. n' : Held'[i] = data'[(get_ptr' + (i - 1)) % BUFSIZE]
  <2>1. HeldBytes'
    BY <1>1, HeldIsSequence, PTL
  <2> QED
    BY <2>1 DEF HeldBytes
<1> HIDE DEF n
<1>7. Head(Held) = taken' /\ Held # <<>>
  <2>1. 1 \in 1 .. n /\ 1 - 1 = 0
    BY <1>1, <1>3
  <2> QED
    BY <1>4, <1>5, <2>1
<1>8. \A i \in 1 .. n - 1 : Held'[i] = Held[i + 1]
  <2>1. TAKE i \in 1 .. n - 1
  <2>2. i \in 1 .. n' /\ i - 1 \in 0 .. n - 2 /\ i + 1 \in 1 .. n
        /\ (i - 1) + 1 = i /\ (i + 1) - 1 = i
    BY <1>1, <1>3
  <2>3. (get_ptr' + (i - 1)) % BUFSIZE = (get_ptr + i) % BUFSIZE
    BY <1>1, <2>2
  <2> QED
    BY <1>2, <1>5, <1>6, <2>2, <2>3
<1>9. Held' = Tail(Held)
  <2>1. /\ Tail(Held) \in Seq(Byte)
        /\ Len(Tail(Held)) = n - 1
        /\ \A i \in 1 .. n - 1 : Tail(Held)[i] = Held[i + 1]
    BY <1>3, <1>5, <1>7
  <2>2. Len(Held') = n - 1
    BY <1>1, <1>6
  <2>3. \A i \in 1 .. Len(Held') : Held'[i] = Tail(Held)[i]
    BY <1>8, <2>1, <2>2
  <2> QED
    BY <1>6, <2>1, <2>2, <2>3, SeqEqual
<1> QED
  BY <1>2, <1>7, <1>9 DEF Fifo!Get

\* A refusal finds the buffer as full as it can be, a `-1' finds it empty.
LEMMA TestAnswers ==
  ASSUME IInv
  PROVE  /\ \A c \in Byte : PutTest(c) =>
              Fifo!Refuse \/ UNCHANGED <<Held, taken, accepted>>
         /\ GetTest => Fifo!GetNothing \/ UNCHANGED <<Held, taken, accepted>>
<1>1. /\ Held \in Seq(Byte)
      /\ Len(Held) = ringbuf_elements
      /\ ringbuf_elements \in 0 .. BUFSIZE - 1
  BY HeldIsSequence, Types DEF IInv, HeldBytes
<1>2. ASSUME NEW c \in Byte, PutTest(c)
      PROVE  Fifo!Refuse \/ UNCHANGED <<Held, taken, accepted>>
  <2>1. UNCHANGED <<Held, taken>>
    BY <1>2 DEF PutTest, Held, ringbuf_elements
  <2>2. CASE Full
    BY <1>1, <1>2, <2>1, <2>2 DEF PutTest, Full, Fifo!Refuse
  <2>3. CASE ~Full
    BY <1>2, <2>1, <2>3 DEF PutTest
  <2> QED
    BY <2>2, <2>3
<1>3. ASSUME GetTest
      PROVE  Fifo!GetNothing \/ UNCHANGED <<Held, taken, accepted>>
  <2>1. UNCHANGED <<Held, accepted>>
    BY <1>3 DEF GetTest, Held, ringbuf_elements
  <2>2. CASE ringbuf_elements > 0
    BY <1>3, <2>1, <2>2 DEF GetTest
  <2>3. CASE ~(ringbuf_elements > 0)
    <3>1. Held = <<>>
      BY <1>1, <2>3
    <3> QED
      BY <1>3, <2>1, <2>3, <3>1 DEF GetTest, Fifo!GetNothing
  <2> QED
    BY <2>2, <2>3
<1> QED
  BY <1>2, <1>3

LEMMA NextImplements == IInv /\ [Next]_vars => [Fifo!Next]_(Fifo!vars)
<1> SUFFICES ASSUME IInv, [Next]_vars PROVE [Fifo!Next]_(Fifo!vars)
  OBVIOUS
<1>1. ASSUME NEW c \in Byte, PutTest(c)
      PROVE  [Fifo!Next]_(Fifo!vars)
  BY <1>1, TestAnswers DEF Fifo!Next, Fifo!vars
<1>2. CASE PutStore
  BY <1>2, PutStoreStutters DEF Fifo!vars
<1>3. CASE PutAdvance
  BY <1>3, PutAdvancePuts DEF Fifo!Next
<1>4. CASE GetTest
  BY <1>4, TestAnswers DEF Fifo!Next, Fifo!vars
<1>5. CASE GetLoad
  BY <1>5 DEF GetLoad, Held, ringbuf_elements, Fifo!vars
<1>6. CASE GetAdvance
  BY <1>6, GetAdvanceGets DEF Fifo!Next
<1>7. CASE UNCHANGED vars
  BY <1>7 DEF vars, Held, ringbuf_elements, Fifo!vars
<1> QED
  BY <1>1, <1>2, <1>3, <1>4, <1>5, <1>6, <1>7 DEF Next

LEMMA InitImplements == Init => Fifo!Init
<1> SUFFICES ASSUME Init PROVE Fifo!Init
  OBVIOUS
<1>1. IInv
  BY InitIInv
<1>2. ringbuf_elements = 0
  BY SizeAssumption, DistanceWraps DEF Init, ringbuf_elements
<1>3. Held = <<>>
  BY <1>1, <1>2, HeldIsSequence DEF HeldBytes
<1> QED
  BY <1>3 DEF Init, Fifo!Init

\* For every size of the ring, ringbuf_put and ringbuf_get without any lock are a
\* first-in first-out buffer of one byte less: nothing is lost, repeated, changed
\* or reordered, whichever of the two runs in an interrupt handler.
THEOREM RingIsFifo == Spec => ImplementsFifo
<1>1. Init => Fifo!Init
  BY InitImplements
<1>2. IInv /\ [Next]_vars => [Fifo!Next]_(Fifo!vars)
  BY NextImplements
<1> QED
  BY <1>1, <1>2, InvariantHolds, PTL DEF Spec, ImplementsFifo, Fifo!Spec

-----------------------------------------------------------------------------
(***************************************************************************)
(* core/dev/serial-line.c, for every size, every number of events, every   *)
(* number and length of lines: no announced line is mixed.                 *)
(*                                                                         *)
(* The argument follows the bytes.  What buf, the ring and ringbuf_put's   *)
(* caller hold is a piece of the input from which whole tails of lines may *)
(* be missing, and nothing else: a character is followed by the next one   *)
(* of its line or by an END, an END by a first character or an END.  The   *)
(* theorems about the ring above do not use LineAssumption.                *)
(***************************************************************************)

\* The byte i places behind the oldest in the ring.
HeldAt(i) == data[(get_ptr + i) % BUFSIZE]

\* c may come behind b.
Continues(b, c) ==
  \/ c = END
  \/ b = END /\ c[2] = 1
  \/ b # END /\ c = <<b[1], b[2] + 1>>

\* c may come behind what the process has in a buffer b up to p, and in place a.
Fits(c, b, p, a) ==
  \/ c = END
  \/ (a = "wait" \/ p = 0) /\ c[2] = 1
  \/ /\ a # "wait" /\ p # 0
     /\ c[1] = b[0][1]
     /\ p < BUFSIZE - 1 => c[2] = p + 1

\* c may come behind all that has been accepted.
ComesNext(c) ==
  IF ringbuf_elements = 0 THEN Fits(c, buf, ptr, at)
                          ELSE Continues(HeldAt(ringbuf_elements - 1), c)

\* What the sender has sent last.
Sent == IF char = 0 THEN END ELSE <<line, char>>

HeldInOrder ==
  /\ ringbuf_elements > 0 => Fits(HeldAt(0), buf, ptr, at)
  /\ \A i \in 1 .. ringbuf_elements - 1 : Continues(HeldAt(i - 1), HeldAt(i))

\* While the rest of a line is not being ignored, what the sender sends next
\* comes behind all that was accepted.
SenderInOrder ==
  /\ putting # <<"idle">> => putting[2] = Sent /\ ComesNext(Sent)
  /\ putting = <<"idle">> /\ ~overflow => ComesNext(<<line, char + 1>>)

BufferInOrder == \A i \in 0 .. ptr - 1 : buf[i] = <<buf[0][1], i + 1>>

\* Only what was sent is held.
SentHeld == ringbuf_elements > 0 \/ putting # <<"idle">> => MaxLine > 0

Beginning(text) ==
  \E n \in 1 .. MaxLine, k \in 0 .. MaxChar : text = [i \in 1 .. k |-> <<n, i>>]

LinesUnmixed ==
  \A i \in 1 .. Len(events) : events[i].ev = "line" => Beginning(events[i].text)

LineIInv ==
  /\ IInv /\ LineTypeOK
  /\ HeldInOrder /\ SenderInOrder /\ BufferInOrder /\ SentHeld /\ LinesUnmixed

\* What the constants and the types say.
LEMMA LineTypes ==
  ASSUME IInv, LineTypeOK
  PROVE  /\ BUFSIZE \in Nat /\ BUFSIZE >= 2 /\ MaxLine \in Nat /\ MaxChar \in Nat
         /\ NumEvents \in Nat
         /\ Byte = Char \cup {END} /\ END \notin Char /\ NUL \notin Char
         /\ ringbuf_elements \in 0 .. BUFSIZE - 1
         /\ get_ptr \in 0 .. BUFSIZE - 1 /\ put_ptr \in 0 .. BUFSIZE - 1
         /\ ptr \in 0 .. BUFSIZE - 1
         /\ buf \in [0 .. BUFSIZE - 1 -> Char \cup {NUL}]
<1>1. END \notin Char /\ NUL \notin Char
  BY DEF END, NUL, Char
<1> QED
  BY <1>1, Types, LineAssumption DEF IInv, LineTypeOK, LineByte

\* Every byte held was sent.
LEMMA HeldType ==
  ASSUME IInv, LineTypeOK
  PROVE  \A i \in 0 .. ringbuf_elements - 1 : HeldAt(i) \in Char \cup {END}
BY LineTypes DEF IInv, HeldIsPut, HeldAt

\* An END comes behind everything.
LEMMA EndComes == ComesNext(END)
BY DEF ComesNext, Fits, Continues

LEMMA LineInitIInv == ASSUME LineInit PROVE LineIInv
<1>1. IInv
  BY InitIInv DEF LineInit
<1>2. LineTypeOK
  <2>1. events \in Seq(Event) /\ Len(events) <= NumEvents
    BY LineAssumption DEF LineInit
  <2>2. buf \in [0 .. BUFSIZE - 1 -> Char \cup {NUL}]
    BY DEF LineInit
  <2>3. /\ ptr \in 0 .. BUFSIZE - 1
        /\ line \in 1 .. MaxLine + 1 /\ char \in 0 .. MaxChar
    <3>1. BUFSIZE \in Nat /\ BUFSIZE >= 2 /\ MaxLine \in Nat /\ MaxChar \in Nat
      BY LineAssumption, SizeAssumption
    <3>2. ptr = 0 /\ line = 1 /\ char = 0
      BY DEF LineInit
    <3> QED
      BY <3>1, <3>2
  <2>4. overflow \in BOOLEAN /\ polled \in BOOLEAN /\ at \in {"fill", "yield", "wait"}
    BY DEF LineInit
  <2> QED
    BY <2>1, <2>2, <2>3, <2>4 DEF LineTypeOK
<1>3. ringbuf_elements = 0
  BY SizeAssumption, DistanceWraps DEF LineInit, Init, ringbuf_elements
<1>4. HeldInOrder /\ BufferInOrder /\ LinesUnmixed
  BY <1>3 DEF LineInit, HeldInOrder, BufferInOrder, LinesUnmixed
<1>5. SenderInOrder /\ SentHeld
  BY <1>3 DEF LineInit, Init, SenderInOrder, SentHeld, ComesNext, Fits
<1> QED
  BY <1>1, <1>2, <1>4, <1>5 DEF LineIInv

\* Whether a byte comes next depends on the ring and the process only.
LEMMA ComesNextKept ==
  ASSUME UNCHANGED <<data, put_ptr, get_ptr, buf, ptr>>,
         at' = at \/ (at # "wait" /\ at' # "wait")
  PROVE  /\ \A c : Fits(c, buf, ptr, at)' = Fits(c, buf, ptr, at)
         /\ ringbuf_elements' = ringbuf_elements
         /\ \A i : HeldAt(i)' = HeldAt(i)
         /\ \A c : ComesNext(c)' = ComesNext(c)
         /\ HeldInOrder => HeldInOrder'
<1>1. \A c : Fits(c, buf, ptr, at)' = Fits(c, buf, ptr, at)
  BY DEF Fits
<1>2. ringbuf_elements' = ringbuf_elements
  BY DEF ringbuf_elements
<1>3. \A i : HeldAt(i)' = HeldAt(i)
  BY DEF HeldAt
<1>4. \A c : ComesNext(c)' = ComesNext(c)
  BY <1>1, <1>2, <1>3 DEF ComesNext
<1> QED
  BY <1>1, <1>2, <1>3, <1>4 DEF HeldInOrder


\* The receive interrupt begins: of the ring only the caller's place changes.
LEMMA InputKeeps ==
  ASSUME LineIInv, NEW c \in Byte, serial_line_input_byte(c), UNCHANGED processVars,
         c = END \/ c = <<line, char + 1>>,
         c = IF char' = 0 THEN END ELSE <<line', char'>>,
         MaxLine > 0, line' \in 1 .. MaxLine + 1, char' \in 0 .. MaxChar
  PROVE  LineIInv'
<1> USE DEF LineIInv
<1>1. /\ UNCHANGED <<data, put_ptr, get_ptr, getting, taken, buf, ptr, at, events>>
      /\ UNCHANGED vars \/ PutTest(c)
  BY DEF serial_line_input_byte, PutTest, vars, processVars
<1>2. IInv'
  BY <1>1, NextIInv DEF Next
<1>3. overflow' \in BOOLEAN /\ polled' \in BOOLEAN
  BY DEF serial_line_input_byte, WakeUp, LineTypeOK
<1>4. LineTypeOK'
  BY <1>1, <1>3 DEF LineTypeOK
<1>5. HeldInOrder' /\ BufferInOrder' /\ LinesUnmixed'
  BY <1>1, ComesNextKept DEF BufferInOrder, LinesUnmixed
<1>6. SentHeld'
  BY LineTypes, <1>1 DEF SentHeld
<1>7. c = Sent'
  BY DEF Sent
<1>8. \A d : ComesNext(d)' = ComesNext(d)
  BY <1>1, ComesNextKept
<1>9. CASE IsTried(c)
  <2>1. PutTest(c) /\ putting = <<"idle">>
    BY <1>9 DEF serial_line_input_byte, PutTest
  <2>2. putting' = <<"idle">> => overflow' = TRUE
    BY <1>9 DEF serial_line_input_byte
  <2>3. putting' = <<"idle">> \/ putting' = <<"store", c>>
    BY <2>1 DEF PutTest
  <2>4. ComesNext(c)
    <3>1. CASE c = END
      BY <3>1, EndComes
    <3>2. CASE c # END
      BY <1>9, <2>1, <3>2 DEF SenderInOrder, IsTried
    <3> QED
      BY <3>1, <3>2
  <2>5. putting' # <<"idle">> => putting'[2] = Sent' /\ ComesNext(Sent)'
    BY <1>7, <1>8, <2>3, <2>4
  <2> QED
    BY <1>2, <1>4, <1>5, <1>6, <2>2, <2>5 DEF SenderInOrder
<1>10. CASE ~IsTried(c)
  <2>1. putting' = <<"idle">> /\ overflow'
    BY <1>10 DEF serial_line_input_byte, IsTried, vars
  <2> QED
    BY <1>2, <1>4, <1>5, <1>6, <2>1 DEF SenderInOrder
<1> QED
  BY <1>9, <1>10

\* A character or the end of a line is received.
LEMMA ReceiveKeeps ==
  ASSUME LineIInv, ReceiveChar \/ ReceiveEnd
  PROVE  LineIInv'
<1> USE DEF LineIInv
<1>t. line \in 1 .. MaxLine + 1 /\ char \in 0 .. MaxChar
      /\ MaxLine \in Nat /\ MaxChar \in Nat
  BY LineTypes DEF LineTypeOK
<1>1. CASE ReceiveChar
  <2>1. PICK c : c = <<line, char + 1>>
    OBVIOUS
  <2>2. c \in Byte
    BY <1>t, <1>1, <2>1, LineTypes DEF ReceiveChar, Char
  <2>3. /\ line' = line /\ char' = char + 1 /\ char' # 0 /\ MaxLine > 0
        /\ line' \in 1 .. MaxLine + 1 /\ char' \in 0 .. MaxChar
    BY <1>t, <1>1 DEF ReceiveChar
  <2>4. serial_line_input_byte(c) /\ UNCHANGED processVars
    BY <1>1, <2>1 DEF ReceiveChar
  <2> QED
    BY <2>1, <2>2, <2>3, <2>4, InputKeeps
<1>2. CASE ReceiveEnd
  <2>1. END \in Byte
    BY LineTypes
  <2>2. /\ char' = 0 /\ MaxLine > 0
        /\ line' \in 1 .. MaxLine + 1 /\ char' \in 0 .. MaxChar
    BY <1>t, <1>2 DEF ReceiveEnd
  <2>3. serial_line_input_byte(END) /\ UNCHANGED processVars
    BY <1>2 DEF ReceiveEnd
  <2> QED
    BY <2>1, <2>2, <2>3, InputKeeps
<1> QED
  BY <1>1, <1>2

\* The byte is stored where nothing is held.
LEMMA StoresKeeps ==
  ASSUME LineIInv, ReceiveStores
  PROVE  LineIInv'
<1> USE DEF LineIInv
<1>1. PutStore /\ UNCHANGED <<inputVars, processVars>>
  BY DEF ReceiveStores
<1>2. IInv'
  BY <1>1, NextIInv DEF Next
<1>3. LineTypeOK'
  BY <1>1 DEF LineTypeOK, inputVars, processVars
<1>4. /\ putting # <<"idle">> /\ putting' = <<"advance", putting[2]>>
      /\ UNCHANGED <<put_ptr, get_ptr, buf, ptr, at, events, overflow, line, char>>
      /\ ringbuf_elements' = ringbuf_elements
  BY <1>1 DEF PutStore, inputVars, processVars, ringbuf_elements
<1>5. \A i \in 0 .. ringbuf_elements - 1 : HeldAt(i)' = HeldAt(i)
  <2>1. ~Full
    BY <1>4 DEF IInv, RoomWhenStoring
  <2>2. \A i \in 0 .. ringbuf_elements - 1 :
          /\ (get_ptr + i) % BUFSIZE # put_ptr
          /\ (get_ptr + i) % BUFSIZE \in Index
    BY <2>1, StoreOutside DEF IInv
  <2>3. data' = [data EXCEPT ![put_ptr] = putting[2]] /\ data \in [Index -> Byte \cup {Nothing}]
    BY <1>1 DEF PutStore, IInv, TypeOK
  <2> QED
    BY <1>4, <2>2, <2>3 DEF HeldAt
<1>6. \A c : Fits(c, buf, ptr, at)' = Fits(c, buf, ptr, at)
  BY <1>4 DEF Fits
<1>7. \A c : ComesNext(c)' = ComesNext(c)
  <2>1. ringbuf_elements = 0 \/ ringbuf_elements - 1 \in 0 .. ringbuf_elements - 1
    BY LineTypes
  <2>2. ringbuf_elements = 0 \/ HeldAt(ringbuf_elements - 1)' = HeldAt(ringbuf_elements - 1)
    BY <1>4, <1>5, <2>1 DEF HeldAt
  <2> QED
    BY <1>4, <1>6, <2>2 DEF ComesNext
<1>8. HeldInOrder'
  <2>1. ringbuf_elements' > 0 => Fits(HeldAt(0), buf, ptr, at)'
    <3>1. SUFFICES ASSUME ringbuf_elements > 0 PROVE Fits(HeldAt(0), buf, ptr, at)'
      BY <1>4
    <3>2. HeldAt(0)' = HeldAt(0)
      BY <1>5, <3>1, LineTypes
    <3>3. Fits(HeldAt(0), buf, ptr, at)
      BY <3>1 DEF HeldInOrder
    <3> QED
      BY <1>4, <3>2, <3>3 DEF Fits
  <2>2. ASSUME NEW i \in 1 .. ringbuf_elements - 1
        PROVE  Continues(HeldAt(i - 1), HeldAt(i))'
    <3>1. i \in 0 .. ringbuf_elements - 1 /\ i - 1 \in 0 .. ringbuf_elements - 1
      BY LineTypes
    <3>2. HeldAt(i - 1)' = HeldAt(i - 1) /\ HeldAt(i)' = HeldAt(i)
      BY <1>5, <3>1
    <3> QED
      BY <3>2 DEF HeldInOrder, Continues
  <2> QED
    BY <1>4, <2>1, <2>2 DEF HeldInOrder
<1>9. SenderInOrder'
  <2>1. putting[2] = Sent /\ ComesNext(Sent) /\ Sent' = Sent
    BY <1>4 DEF SenderInOrder, Sent
  <2>2. putting'[2] = putting[2] /\ putting' # <<"idle">>
    BY <1>4
  <2> QED
    BY <1>7, <2>1, <2>2 DEF SenderInOrder
<1>10. BufferInOrder' /\ SentHeld' /\ LinesUnmixed'
  BY <1>4 DEF BufferInOrder, SentHeld, LinesUnmixed
<1> QED
  BY <1>2, <1>3, <1>8, <1>9, <1>10


\* The byte becomes the youngest one held, and what the sender sends next comes
\* behind it.
LEMMA AddsKeeps ==
  ASSUME LineIInv, ReceiveAdds
  PROVE  LineIInv'
<1> USE DEF LineIInv
<1>1. /\ PutAdvance /\ polled' = TRUE /\ overflow' = FALSE
      /\ UNCHANGED <<line, char, buf, ptr, at, events>>
  BY DEF ReceiveAdds, WakeUp, processVars
<1>2. IInv' /\ ringbuf_elements' = ringbuf_elements + 1
  BY <1>1, PutAdvancePreserves
<1>3. LineTypeOK'
  BY <1>1 DEF LineTypeOK
<1>4. /\ putting # <<"idle">> /\ putting' = <<"idle">>
      /\ UNCHANGED <<data, get_ptr>>
      /\ data[put_ptr] = putting[2]
  BY <1>1 DEF PutAdvance, IInv, HeldIsPut
<1>5. \A i : HeldAt(i)' = HeldAt(i)
  BY <1>4 DEF HeldAt
<1>6. HeldAt(ringbuf_elements) = Sent
  <2>1. (get_ptr + ringbuf_elements) % BUFSIZE = put_ptr
    BY LineTypes, FrontOfRing, SizeAssumption DEF ringbuf_elements
  <2> QED
    BY <1>4, <2>1 DEF HeldAt, SenderInOrder
<1>7. ComesNext(Sent)
  BY <1>4 DEF SenderInOrder
<1>8. HeldInOrder'
  <2>1. Fits(HeldAt(0), buf, ptr, at)
    <3>1. CASE ringbuf_elements = 0
      BY <1>6, <1>7, <3>1 DEF ComesNext
    <3>2. CASE ringbuf_elements # 0
      BY <3>2, LineTypes DEF HeldInOrder
    <3> QED
      BY <3>1, <3>2
  <2>2. ASSUME NEW i \in 1 .. ringbuf_elements
        PROVE  Continues(HeldAt(i - 1), HeldAt(i))
    <3>1. CASE i = ringbuf_elements
      BY <1>6, <1>7, <3>1, LineTypes DEF ComesNext
    <3>2. CASE i # ringbuf_elements
      BY <3>2, LineTypes DEF HeldInOrder
    <3> QED
      BY <3>1, <3>2
  <2>3. Fits(HeldAt(0), buf, ptr, at)'
    BY <1>1, <1>5, <2>1 DEF Fits
  <2>4. \A i \in 1 .. ringbuf_elements' - 1 : Continues(HeldAt(i - 1), HeldAt(i))'
    BY <1>2, <1>5, <2>2, LineTypes DEF Continues
  <2> QED
    BY <2>3, <2>4 DEF HeldInOrder
<1>9. SenderInOrder'
  <2>1. ringbuf_elements' # 0 /\ ringbuf_elements' - 1 = ringbuf_elements
    BY <1>2, LineTypes
  <2>2. HeldAt(ringbuf_elements - 1)' = Sent
    BY <1>5, <1>6, <2>1 DEF HeldAt
  <2>3. Continues(Sent, <<line, char + 1>>)
    <3>1. <<line, char>> # END
      BY DEF END
    <3>2. CASE char = 0
      BY <3>2 DEF Continues, Sent
    <3>3. CASE char # 0
      BY <3>1, <3>3 DEF Continues, Sent
    <3> QED
      BY <3>2, <3>3
  <2> QED
    BY <1>1, <1>4, <2>1, <2>2, <2>3 DEF SenderInOrder, ComesNext, Continues
<1>10. BufferInOrder' /\ SentHeld' /\ LinesUnmixed'
  BY <1>1, <1>4 DEF BufferInOrder, SentHeld, LinesUnmixed
<1> QED
  BY <1>2, <1>3, <1>8, <1>9, <1>10


\* The kernel and the failed or begun ringbuf_get: neither the ring nor what may
\* come next for the process changes.
LEMMA MainKeeps ==
  ASSUME LineIInv, IInv', LineTypeOK', LinesUnmixed',
         UNCHANGED <<data, put_ptr, get_ptr, putting, overflow, line, char, buf>>,
         ptr' = ptr \/ ptr' = 0,
         \A c : Fits(c, buf', ptr', at') <=> Fits(c, buf, ptr, at)
  PROVE  LineIInv'
<1> USE DEF LineIInv
<1>1. /\ ringbuf_elements' = ringbuf_elements
      /\ \A i : HeldAt(i)' = HeldAt(i)
  BY DEF ringbuf_elements, HeldAt
<1>2. \A c : ComesNext(c)' <=> ComesNext(c)
  BY <1>1 DEF ComesNext
<1>3. HeldInOrder'
  BY <1>1 DEF HeldInOrder
<1>4. SenderInOrder'
  BY <1>2 DEF SenderInOrder, Sent
<1>5. BufferInOrder'
  BY DEF BufferInOrder
<1>6. SentHeld'
  BY <1>1 DEF SentHeld
<1> QED
  BY <1>3, <1>4, <1>5, <1>6

\* The test of ringbuf_get and the load.
LEMMA GetBegins ==
  ASSUME LineIInv, GetByte \/ LoadByte
  PROVE  LineIInv'
<1> USE DEF LineIInv
<1>1. /\ UNCHANGED <<data, put_ptr, get_ptr, putting, overflow, line, char, buf, ptr, events, polled>>
      /\ GetTest \/ GetLoad
      /\ at' \in {"fill", "yield"} /\ at = "fill"
  BY DEF GetByte, LoadByte, GetTest, GetLoad, inputVars, processVars, Running
<1>2. IInv'
  BY <1>1, NextIInv DEF Next
<1>3. LineTypeOK'
  BY <1>1 DEF LineTypeOK
<1>4. LinesUnmixed'
  BY <1>1 DEF LinesUnmixed
<1>5. \A c : Fits(c, buf', ptr', at') <=> Fits(c, buf, ptr, at)
  BY <1>1 DEF Fits
<1> QED
  BY <1>1, <1>2, <1>3, <1>4, <1>5, MainKeeps

\* The process takes the oldest byte; whatever comes behind that byte is what may
\* come next for the process.
LEMMA TakeKeeps ==
  ASSUME LineIInv, GetAdvance, UNCHANGED <<overflow, line, char>>,
         \A c : Continues(HeldAt(0), c) => Fits(c, buf', ptr', at')
  PROVE  HeldInOrder' /\ SenderInOrder' /\ SentHeld'
<1> USE DEF LineIInv
<1>1. /\ ringbuf_elements > 0
      /\ ringbuf_elements' = ringbuf_elements - 1
      /\ \A i \in 0 .. ringbuf_elements - 2 :
           (get_ptr' + i) % BUFSIZE = (get_ptr + (i + 1)) % BUFSIZE
  BY GetAdvancePreserves
<1>2. putting' = putting /\ data' = data
  BY DEF GetAdvance
<1>3. \A i \in 0 .. ringbuf_elements - 2 : HeldAt(i)' = HeldAt(i + 1)
  BY <1>1, <1>2 DEF HeldAt
<1>t. ringbuf_elements \in Nat
  BY LineTypes
<1>4. \A i \in 1 .. ringbuf_elements - 1 : Continues(HeldAt(i - 1), HeldAt(i))
  BY DEF HeldInOrder
<1>5. HeldInOrder'
  <2>1. ASSUME ringbuf_elements' > 0 PROVE Fits(HeldAt(0), buf, ptr, at)'
    <3>1. HeldAt(0)' = HeldAt(1)
      BY <1>1, <1>3, <1>t, <2>1
    <3>2. Continues(HeldAt(0), HeldAt(1))
      BY <1>1, <1>4, <1>t, <2>1
    <3>3. Fits(HeldAt(1), buf', ptr', at')
      BY <3>2
    <3> QED
      BY <3>1, <3>3
  <2>2. ASSUME NEW i \in 1 .. ringbuf_elements' - 1
        PROVE  Continues(HeldAt(i - 1), HeldAt(i))'
    <3>1. /\ i \in 0 .. ringbuf_elements - 2 /\ i - 1 \in 0 .. ringbuf_elements - 2
          /\ i + 1 \in 1 .. ringbuf_elements - 1 /\ (i + 1) - 1 = i /\ (i - 1) + 1 = i
      BY <1>1, <1>t
    <3>2. Continues(HeldAt(i), HeldAt(i + 1))
      BY <1>4, <3>1
    <3>3. HeldAt(i - 1)' = HeldAt(i) /\ HeldAt(i)' = HeldAt(i + 1)
      BY <1>3, <3>1
    <3> QED
      BY <3>2, <3>3 DEF Continues
  <2> QED
    BY <2>1, <2>2 DEF HeldInOrder
<1>6. ASSUME NEW c, ComesNext(c)
      PROVE  IF ringbuf_elements' = 0 THEN Fits(c, buf', ptr', at')
             ELSE Continues(HeldAt(ringbuf_elements - 1), c)
  <2>1. Continues(HeldAt(ringbuf_elements - 1), c)
    BY <1>1, <1>6 DEF ComesNext
  <2>2. CASE ringbuf_elements' = 0
    <3>1. ringbuf_elements - 1 = 0
      BY <1>1, <2>2
    <3> QED
      BY <2>1, <2>2, <3>1
  <2> QED
    BY <2>1, <2>2
<1>7. ringbuf_elements' # 0 => HeldAt(ringbuf_elements - 1)' = HeldAt(ringbuf_elements - 1)
  <2>1. SUFFICES ASSUME ringbuf_elements' # 0
                 PROVE  HeldAt(ringbuf_elements - 1)' = HeldAt(ringbuf_elements - 1)
    OBVIOUS
  <2>2. PICK m \in Nat : m = ringbuf_elements
    BY <1>t
  <2>3. m - 2 \in 0 .. ringbuf_elements - 2 /\ (m - 2) + 1 = m - 1 /\ ringbuf_elements' - 1 = m - 2
    BY <1>1, <2>1, <2>2
  <2>4. (get_ptr' + (m - 2)) % BUFSIZE = (get_ptr + (m - 1)) % BUFSIZE
    BY <1>1, <2>3
  <2> QED
    BY <1>2, <2>2, <2>3, <2>4 DEF HeldAt
<1>8. \A c : ComesNext(c) => (IF ringbuf_elements' = 0 THEN Fits(c, buf', ptr', at')
                              ELSE Continues(HeldAt(ringbuf_elements - 1)', c))
  BY <1>6, <1>7
<1>9. SenderInOrder'
  BY <1>2, <1>8 DEF SenderInOrder, Sent, ComesNext
<1>10. SentHeld'
  BY <1>1, <1>2 DEF SentHeld
<1> QED
  BY <1>5, <1>9, <1>10

\* The byte taken is the oldest one.
LEMMA TakenIsOldest ==
  ASSUME IInv, LineTypeOK, GetAdvance
  PROVE  /\ taken' = HeldAt(0) /\ ringbuf_elements > 0
         /\ HeldAt(0) \in Char \cup {END}
<1>1. getting[1] = "advance" /\ taken' = getting[2] /\ getting # <<"idle">>
  BY DEF GetAdvance
<1>2. data[get_ptr] = getting[2] /\ ringbuf_elements > 0
  BY <1>1 DEF IInv, LoadedIsOldest
<1>3. (get_ptr + 0) % BUFSIZE = get_ptr
  <2>1. get_ptr \in 0 .. BUFSIZE - 1 /\ BUFSIZE \in Nat \ {0} /\ 0 \in 0 .. BUFSIZE
    BY LineTypes, SizeAssumption
  <2>2. (get_ptr + 0) % BUFSIZE = IF get_ptr + 0 < BUFSIZE THEN get_ptr + 0
                                  ELSE get_ptr + 0 - BUFSIZE
    BY <2>1, WrapOnce
  <2> QED
    BY <2>1, <2>2
<1>4. 0 \in 0 .. ringbuf_elements - 1
  BY <1>2, LineTypes
<1> QED
  BY <1>1, <1>2, <1>3, <1>4, HeldType DEF HeldAt


\* A character is put behind the others of its line, or ignored if buf is full.
LEMMA FillsKeeps ==
  ASSUME LineIInv, FillBuffer
  PROVE  LineIInv'
<1> USE DEF LineIInv
<1> DEFINE b == HeldAt(0)
<1>1. /\ GetAdvance /\ b # END /\ b \in Char /\ at = "fill" /\ at' = "fill"
      /\ UNCHANGED <<overflow, line, char, events, polled>>
      /\ IF ptr < BUFSIZE - 1
         THEN buf' = [buf EXCEPT ![ptr] = b] /\ ptr' = ptr + 1
         ELSE UNCHANGED <<buf, ptr>>
      /\ Fits(b, buf, ptr, at)
  BY TakenIsOldest DEF FillBuffer, Running, inputVars, HeldInOrder
<1>2. IInv'
  BY <1>1, NextIInv DEF Next
<1>t. /\ BUFSIZE \in Nat /\ BUFSIZE >= 2 /\ ptr \in 0 .. BUFSIZE - 1
      /\ buf \in [0 .. BUFSIZE - 1 -> Char \cup {NUL}]
  BY LineTypes
<1>3. LineTypeOK'
  <2>1. ptr' \in 0 .. BUFSIZE - 1
    BY <1>1, <1>t
  <2>2. buf' \in [0 .. BUFSIZE - 1 -> Char \cup {NUL}]
    BY <1>1, <1>t
  <2> QED
    BY <1>1, <2>1, <2>2 DEF LineTypeOK
<1> HIDE DEF b
<1>b. PICK n, k : b = <<n, k>> /\ k \in Nat
  BY <1>1, LineTypes DEF Char
<1>4. CASE ptr < BUFSIZE - 1
  <2>1. b = <<IF ptr = 0 THEN n ELSE buf[0][1], ptr + 1>>
    BY <1>1, <1>4, <1>b, <1>t DEF Fits
  <2>2. /\ buf'[ptr] = b /\ ptr' = ptr + 1
        /\ \A i \in 0 .. ptr - 1 : buf'[i] = buf[i]
        /\ ptr # 0 => buf'[0] = buf[0]
    BY <1>1, <1>4, <1>t
  <2>3. buf'[0][1] = b[1]
    BY <2>1, <2>2, <1>b
  <2>4. BufferInOrder'
    <3>1. SUFFICES ASSUME NEW i \in 0 .. ptr PROVE buf'[i] = <<buf'[0][1], i + 1>>
      BY <1>t, <2>2 DEF BufferInOrder
    <3>2. CASE i = ptr
      BY <3>2, <2>1, <2>2, <2>3
    <3>3. CASE i # ptr
      <4>1. i \in 0 .. ptr - 1 /\ ptr # 0
        BY <3>3, <1>t
      <4> QED
        BY <4>1, <2>2 DEF BufferInOrder
    <3> QED
      BY <3>2, <3>3
  <2>5. ASSUME NEW c, Continues(b, c)
        PROVE  Fits(c, buf', ptr', at')
    <3>1. c = END \/ c = <<b[1], b[2] + 1>>
      BY <2>5, <1>1 DEF Continues
    <3>2. b[2] = ptr'
      BY <2>1, <2>2
    <3>3. ptr' # 0
      BY <1>t, <2>2
    <3> QED
      BY <3>1, <3>2, <3>3, <2>3, <1>1 DEF Fits
  <2>6. HeldInOrder' /\ SenderInOrder' /\ SentHeld'
    BY <1>1, <2>5, TakeKeeps DEF b
  <2> QED
    BY <1>1, <1>2, <1>3, <2>4, <2>6 DEF LinesUnmixed
<1>5. CASE ~(ptr < BUFSIZE - 1)
  <2>1. buf' = buf /\ ptr' = ptr /\ ptr # 0 /\ at' = at
    BY <1>1, <1>5, <1>t
  <2>2. b[1] = buf[0][1]
    BY <1>1, <2>1 DEF Fits
  <2>3. ASSUME NEW c, Continues(b, c)
        PROVE  Fits(c, buf', ptr', at')
    <3>1. c = END \/ c = <<b[1], b[2] + 1>>
      BY <2>3, <1>1 DEF Continues
    <3> QED
      BY <3>1, <2>1, <2>2, <1>1, <1>5 DEF Fits
  <2>4. HeldInOrder' /\ SenderInOrder' /\ SentHeld'
    BY <1>1, <2>3, TakeKeeps DEF b
  <2> QED
    BY <1>1, <1>2, <1>3, <2>1, <2>4 DEF LinesUnmixed, BufferInOrder
<1> QED
  BY <1>4, <1>5

\* What a reader of buf sees once the line is closed is the beginning of a line.
LEMMA TextBegins ==
  ASSUME LineIInv, MaxLine > 0, buf' = [buf EXCEPT ![ptr] = NUL]
  PROVE  Beginning(Text') /\ Text' \in Seq(Char)
<1> USE DEF LineIInv
<1>t. /\ BUFSIZE \in Nat /\ ptr \in 0 .. BUFSIZE - 1 /\ NUL \notin Char
      /\ buf \in [0 .. BUFSIZE - 1 -> Char \cup {NUL}]
      /\ MaxLine \in Nat /\ MaxChar \in Nat
  BY LineTypes
<1>1. /\ buf'[ptr] = NUL
      /\ \A j \in 0 .. ptr - 1 : buf'[j] = <<buf[0][1], j + 1>> /\ buf'[j] = buf[j]
  BY <1>t DEF BufferInOrder
<1>2. \A j \in 0 .. ptr - 1 : buf'[j] # NUL
  BY <1>1 DEF NUL
<1>3. \A j \in 0 .. ptr - 1 : buf'[j] \in Char
  BY <1>1, <1>2, <1>t
<1> DEFINE Stops(i) == /\ i = BUFSIZE \/ buf'[i] = NUL
                       /\ \A j \in 0 .. i - 1 : buf'[j] # NUL
           stop == CHOOSE i \in 0 .. BUFSIZE : Stops(i)
<1>4. Text' = [i \in 1 .. stop |-> buf'[i - 1]]
  BY DEF Text
<1>5. ptr \in 0 .. BUFSIZE /\ Stops(ptr)
  BY <1>1, <1>2, <1>t
<1>6. ASSUME NEW i \in 0 .. BUFSIZE, Stops(i) PROVE i = ptr
  <2>1. CASE i < ptr
    BY <1>2, <1>6, <1>t, <2>1
  <2>2. CASE i > ptr
    <3>1. ptr \in 0 .. i - 1
      BY <1>t, <2>2
    <3> QED
      BY <1>1, <1>6, <3>1
  <2> QED
    BY <2>1, <2>2, <1>t
<1>7. stop = ptr
  <2> HIDE DEF Stops
  <2>1. stop \in 0 .. BUFSIZE /\ Stops(stop)
    BY <1>5
  <2> QED
    BY <1>6, <2>1
<1>8. Text' = [i \in 1 .. ptr |-> buf'[i - 1]]
  BY <1>4, <1>7
<1> HIDE DEF stop, Stops
<1>9. Text' \in Seq(Char)
  <2>1. \A i \in 1 .. ptr : buf'[i - 1] \in Char
    BY <1>3, <1>t
  <2> QED
    BY <1>8, <1>t, <2>1
<1>10. PICK n \in 1 .. MaxLine : ptr # 0 => n = buf[0][1]
  <2>1. CASE ptr = 0
    BY <2>1, <1>t
  <2>2. CASE ptr # 0
    <3>1. buf'[0] \in Char /\ buf'[0] = buf[0]
      BY <1>1, <1>3, <1>t, <2>2
    <3>2. buf[0][1] \in 1 .. MaxLine
      BY <3>1 DEF Char
    <3> QED
      BY <3>2
  <2> QED
    BY <2>1, <2>2
<1>11. ptr \in 0 .. MaxChar
  <2>1. CASE ptr = 0
    BY <2>1, <1>t
  <2>2. CASE ptr # 0
    <3>1. ptr - 1 \in 0 .. ptr - 1 /\ (ptr - 1) + 1 = ptr
      BY <1>t, <2>2
    <3>2. <<buf[0][1], ptr>> \in Char
      BY <1>1, <1>3, <3>1
    <3>3. ptr \in 1 .. MaxChar
      BY <3>2 DEF Char
    <3> QED
      BY <3>3, <1>t
  <2> QED
    BY <2>1, <2>2
<1>12. Text' = [i \in 1 .. ptr |-> <<n, i>>]
  <2>1. \A i \in 1 .. ptr : buf'[i - 1] = <<n, i>>
    <3> SUFFICES ASSUME NEW i \in 1 .. ptr PROVE buf'[i - 1] = <<n, i>>
      OBVIOUS
    <3>1. i - 1 \in 0 .. ptr - 1 /\ (i - 1) + 1 = i /\ ptr # 0
      BY <1>t
    <3> QED
      BY <1>1, <1>10, <3>1
  <2> QED
    BY <1>8, <2>1
<1> QED
  BY <1>9, <1>11, <1>12 DEF Beginning


\* The lines in a queue of events are unmixed.
Unmixed(queued) ==
  \A i \in 1 .. Len(queued) : queued[i].ev = "line" => Beginning(queued[i].text)

\* A post adds its event or leaves the full queue alone.
LEMMA PostKeeps ==
  ASSUME NumEvents \in Nat, NEW queued \in Seq(Event), Len(queued) <= NumEvents,
         Unmixed(queued), NEW e \in Event, e.ev = "line" => Beginning(e.text)
  PROVE  /\ process_post(queued, e) \in Seq(Event)
         /\ Len(process_post(queued, e)) <= NumEvents
         /\ Unmixed(process_post(queued, e))
<1>1. CASE Len(queued) = NumEvents
  BY <1>1 DEF process_post
<1>2. CASE Len(queued) # NumEvents
  <2>1. process_post(queued, e) = Append(queued, e)
    BY <1>2 DEF process_post
  <2> DEFINE r == Append(queued, e)
  <2>2. /\ r \in Seq(Event) /\ Len(r) = Len(queued) + 1
        /\ r[Len(queued) + 1] = e
        /\ \A i \in 1 .. Len(queued) : r[i] = queued[i]
    OBVIOUS
  <2> HIDE DEF r
  <2>3. Len(queued) \in Nat
    OBVIOUS
  <2>4. Unmixed(r)
    <3>1. SUFFICES ASSUME NEW i \in 1 .. Len(queued) + 1, r[i].ev = "line"
                   PROVE  Beginning(r[i].text)
      BY <2>2 DEF Unmixed
    <3>2. CASE i = Len(queued) + 1
      BY <2>2, <3>1, <3>2
    <3>3. CASE i \in 1 .. Len(queued)
      BY <2>2, <3>1, <3>3 DEF Unmixed
    <3> QED
      BY <2>3, <3>2, <3>3
  <2>5. Len(r) <= NumEvents
    BY <1>2, <2>2, <2>3
  <2> QED
    BY <2>1, <2>2, <2>4, <2>5 DEF r
<1> QED
  BY <1>1, <1>2

\* Events without text.
LEMMA PostedType ==
  ASSUME NEW e \in {"continue", "other"}
  PROVE  Posted(e) \in Event /\ Posted(e).ev # "line"
BY DEF Posted, Event

\* The end of a line is taken: the line is announced as far as it fits into the
\* queue, and only the first byte of a line can follow.
LEMMA EndKeeps ==
  ASSUME LineIInv, EndLine
  PROVE  LineIInv'
<1> USE DEF LineIInv
<1> DEFINE e == [ev |-> "line", text |-> Text']
           broadcast == process_post(events, e)
<1>1. /\ GetAdvance /\ taken' = END /\ at = "fill"
      /\ buf' = [buf EXCEPT ![ptr] = NUL]
      /\ events' = process_post(broadcast, Posted("continue"))
      /\ (at' = "wait" /\ ptr' = ptr) \/ (ptr' = 0 /\ at' = at)
      /\ UNCHANGED <<overflow, polled, line, char>>
  BY DEF EndLine, Running, inputVars
<1>2. IInv'
  BY <1>1, NextIInv DEF Next
<1>3. HeldAt(0) = END /\ ringbuf_elements > 0
  BY <1>1, TakenIsOldest
<1>4. MaxLine > 0
  BY <1>3 DEF SentHeld
<1>5. Beginning(Text') /\ Text' \in Seq(Char)
  BY <1>1, <1>4, TextBegins
<1>6. e \in Event /\ e.ev = "line" /\ e.text = Text'
  BY <1>5 DEF Event
<1> HIDE DEF e
<1>7. /\ events \in Seq(Event) /\ Len(events) <= NumEvents /\ Unmixed(events)
      /\ NumEvents \in Nat
  BY LineAssumption DEF LineTypeOK, LinesUnmixed, Unmixed
<1>8. /\ broadcast \in Seq(Event) /\ Len(broadcast) <= NumEvents /\ Unmixed(broadcast)
  BY <1>5, <1>6, <1>7, PostKeeps
<1> HIDE DEF broadcast
<1>9. events' \in Seq(Event) /\ Len(events') <= NumEvents /\ Unmixed(events')
  BY <1>1, <1>7, <1>8, PostKeeps, PostedType
<1>10. /\ ptr' \in 0 .. BUFSIZE - 1
       /\ buf' \in [0 .. BUFSIZE - 1 -> Char \cup {NUL}]
       /\ at' \in {"fill", "wait"}
  BY <1>1, LineTypes
<1>11. LineTypeOK'
  BY <1>1, <1>9, <1>10 DEF LineTypeOK
<1>12. BufferInOrder'
  <2>1. CASE ptr' = 0
    BY <2>1 DEF BufferInOrder
  <2>2. CASE ptr' = ptr
    <3>1. \A i \in 0 .. ptr - 1 : buf'[i] = buf[i] /\ buf'[0] = buf[0]
      BY <1>1, LineTypes
    <3> QED
      BY <2>2, <3>1 DEF BufferInOrder
  <2> QED
    BY <1>1, <2>1, <2>2
<1>13. ASSUME NEW c, Continues(HeldAt(0), c)
       PROVE  Fits(c, buf', ptr', at')
  BY <1>1, <1>3, <1>13 DEF Continues, Fits
<1>14. HeldInOrder' /\ SenderInOrder' /\ SentHeld'
  BY <1>1, <1>13, TakeKeeps
<1> QED
  BY <1>2, <1>9, <1>11, <1>12, <1>14 DEF LinesUnmixed, Unmixed

\* The kernel calls the process: what was waited for begins a new line.
LEMMA ResumeKeeps ==
  ASSUME LineIInv, NEW e, Resume(e) \/ UNCHANGED <<at, ptr>>
  PROVE  /\ ptr' = ptr \/ ptr' = 0
         /\ ptr' \in 0 .. BUFSIZE - 1 /\ at' \in {"fill", "yield", "wait"}
         /\ buf' = buf => \A c : Fits(c, buf', ptr', at') <=> Fits(c, buf, ptr, at)
<1>1. ptr \in 0 .. BUFSIZE - 1 /\ 0 \in 0 .. BUFSIZE - 1 /\ at \in {"fill", "yield", "wait"}
  BY LineTypes DEF LineIInv, LineTypeOK
<1>2. \/ UNCHANGED <<at, ptr>>
      \/ at = "yield" /\ at' = "fill" /\ ptr' = ptr
      \/ at = "wait" /\ at' = "fill" /\ ptr' = 0
  BY DEF Resume
<1> QED
  BY <1>1, <1>2 DEF Fits

LEMMA KernelKeeps ==
  ASSUME LineIInv, Poll \/ Deliver \/ OtherPosts
  PROVE  LineIInv'
<1> USE DEF LineIInv
<1>1. /\ UNCHANGED <<vars, overflow, line, char, buf>>
      /\ polled' \in BOOLEAN
      /\ (\E e : Resume(e)) \/ UNCHANGED <<at, ptr>>
  BY DEF Poll, Deliver, OtherPosts, inputVars, LineTypeOK
<1>2. IInv'
  BY <1>1, NextIInv
<1>3. /\ ptr' = ptr \/ ptr' = 0
      /\ ptr' \in 0 .. BUFSIZE - 1 /\ at' \in {"fill", "yield", "wait"}
      /\ \A c : Fits(c, buf', ptr', at') <=> Fits(c, buf, ptr, at)
  BY <1>1, ResumeKeeps
<1>4. /\ events \in Seq(Event) /\ Len(events) <= NumEvents /\ Unmixed(events)
      /\ NumEvents \in Nat
  BY LineAssumption DEF LineTypeOK, LinesUnmixed, Unmixed
<1>5. events' \in Seq(Event) /\ Len(events') <= NumEvents /\ Unmixed(events')
  <2>1. CASE events' = events
    BY <2>1, <1>4
  <2>2. CASE OtherPosts
    BY <2>2, <1>4, PostKeeps, PostedType DEF OtherPosts
  <2>3. CASE Deliver
    <3>1. events # <<>> /\ events' = Tail(events)
      BY <2>3 DEF Deliver
    <3>2. /\ events' \in Seq(Event) /\ Len(events') = Len(events) - 1
          /\ Len(events) \in Nat
          /\ \A i \in 1 .. Len(events) - 1 : events'[i] = events[i + 1]
      BY <3>1, <1>4
    <3>3. \A i \in 1 .. Len(events) - 1 : i + 1 \in 1 .. Len(events)
      BY <3>2
    <3> QED
      BY <1>4, <3>2, <3>3 DEF Unmixed
  <2> QED
    BY <2>1, <2>2, <2>3 DEF Poll
<1>6. LineTypeOK'
  BY <1>1, <1>3, <1>5 DEF LineTypeOK
<1> QED
  BY <1>1, <1>2, <1>3, <1>5, <1>6, MainKeeps DEF vars, LinesUnmixed, Unmixed

LEMMA LineNextIInv == LineIInv /\ [LineNext]_lineVars => LineIInv'
<1> SUFFICES ASSUME LineIInv, [LineNext]_lineVars PROVE LineIInv'
  OBVIOUS
<1>1. CASE LineNext
  BY <1>1, ReceiveKeeps, StoresKeeps, AddsKeeps, GetBegins, FillsKeeps, EndKeeps,
     KernelKeeps
  DEF LineNext, Receive, Process
<1>2. CASE UNCHANGED lineVars
  <2>1. /\ UNCHANGED <<vars, overflow, polled, line, char, buf, ptr, at, events>>
        /\ UNCHANGED <<data, put_ptr, get_ptr, putting>>
    BY <1>2 DEF lineVars, inputVars, processVars, vars
  <2>2. IInv' /\ LineTypeOK' /\ LinesUnmixed'
    BY <2>1, NextIInv DEF LineIInv, LineTypeOK, LinesUnmixed
  <2> QED
    BY <2>1, <2>2, MainKeeps
<1> QED
  BY <1>1, <1>2

\* Whatever overflows, what is announced is the beginning of one line of the input
\* and never two of them mixed: for every size of rxbuf and buf, every length of
\* the kernel's queue and every input.
THEOREM LinesStayWhole == LineSpec => []NoMixedLine
<1>1. LineInit => LineIInv
  BY LineInitIInv
<1>2. LineIInv => NoMixedLine
  <2> SUFFICES ASSUME LineIInv, NEW text \in LinesQueued PROVE Beginning(text)
    BY DEF LineIInv, NoMixedLine, Beginning
  <2>1. DOMAIN events = 1 .. Len(events)
    BY DEF LineIInv, LineTypeOK
  <2>2. PICK j \in 1 .. Len(events) : events[j].ev = "line" /\ text = events[j].text
    BY <2>1 DEF LinesQueued
  <2> QED
    BY <2>2 DEF LineIInv, LinesUnmixed
<1> QED
  BY <1>1, <1>2, LineNextIInv, PTL DEF LineSpec

\* The receive interrupt and the process use the ring only as ringbuf_put and
\* ringbuf_get do, so between them it is the first-in first-out buffer.
THEOREM LineUsesFifo == LineSpec => ImplementsFifo
<1>1. LineInit => Init /\ LineIInv
  BY LineInitIInv DEF LineInit
<1>2. LineIInv /\ [LineNext]_lineVars => [Next]_vars
  <2> SUFFICES ASSUME LineIInv, [LineNext]_lineVars PROVE [Next]_vars
    OBVIOUS
  <2>1. ASSUME NEW c \in Byte, serial_line_input_byte(c) PROVE [Next]_vars
    BY <2>1 DEF serial_line_input_byte, Next
  <2>2. CASE ReceiveChar
    <3>1. line \in 1 .. MaxLine /\ char + 1 \in 1 .. MaxChar
      BY <2>2, LineTypes DEF ReceiveChar, LineIInv, LineTypeOK
    <3>2. <<line, char + 1>> \in Byte
      BY <3>1, LineTypes DEF LineIInv, Char
    <3> QED
      BY <2>1, <2>2, <3>2 DEF ReceiveChar
  <2>3. CASE ReceiveEnd
    <3>1. END \in Byte
      BY LineTypes DEF LineIInv
    <3> QED
      BY <2>1, <2>3, <3>1 DEF ReceiveEnd
  <2>4. CASE Receive \/ Process
    BY <2>4 DEF Receive, ReceiveStores, ReceiveAdds, Process, GetByte, LoadByte,
                FillBuffer, EndLine, Next
  <2>5. CASE Poll \/ Deliver \/ OtherPosts \/ UNCHANGED lineVars
    BY <2>5 DEF Poll, Deliver, OtherPosts, lineVars
  <2> QED
    BY <2>2, <2>3, <2>4, <2>5 DEF LineNext
<1>3. LineSpec => Spec
  BY <1>1, <1>2, LineNextIInv, PTL DEF LineSpec, Spec
<1> QED
  BY <1>3, RingIsFifo

-----------------------------------------------------------------------------
(***************************************************************************)
(* core/sys/rtimer.c over the port's rtimer-arch.c, for every set of       *)
(* tasks, times and delays: a task set while none ran is executed at its   *)
(* time, and nobody waits for more than a round of the counter. The        *)
(* invariant says where the next compare interrupt is, and that a call of  *)
(* rtimer_set ends before the time it was made for.                        *)
(***************************************************************************)

\* What the variables are.
RtimerTypes ==
  /\ TAR \in 0 .. CLOCK_RANGE - 1 /\ TACCR0 \in 0 .. CLOCK_RANGE - 1 /\ CCIFG \in BOOLEAN
  /\ next_rtimer \in Task \cup {NoTask} /\ time \in [Task -> 0 .. CLOCK_RANGE - 1]
  /\ call \in [at : {"idle", "store", "schedule"}, task : Task \cup {NoTask},
               time : 0 .. CLOCK_RANGE - 1, first : BOOLEAN, struck : BOOLEAN]
  /\ delay \in Nat /\ waited \in Nat /\ clean \in BOOLEAN

\* The ticks until the next compare interrupt.
ToCompare ==
  IF CCIFG THEN 0
  ELSE IF TACCR0 > TAR THEN TACCR0 - TAR ELSE TACCR0 - TAR + CLOCK_RANGE

\* The interrupt is there when the counter has met the register.
FlagMeans == CCIFG => TAR = TACCR0

\* The task set last is the one that waits, and the interrupt that will execute
\* it comes within a round of the time it was set.
AskedInRound ==
  /\ asked = next_rtimer
  /\ asked = NoTask => waited = 0
  /\ asked # NoTask => waited + ToCompare <= CLOCK_RANGE

\* The register is set to the task's time.
CleanCompare == clean /\ next_rtimer # NoTask => TACCR0 = time[next_rtimer]

\* The value the counter has a - delay ticks from now.
AheadOfNow(a) ==
  IF TAR + (a - delay) < CLOCK_RANGE THEN TAR + (a - delay)
  ELSE TAR + (a - delay) - CLOCK_RANGE

\* A rtimer_set of main comes to its end before the time it was called for.
CallComes ==
  call.at # "idle" =>
    /\ call.task \in Task /\ delay <= MaxDelay
    /\ \E a \in Ahead : call.time = AheadOfNow(a)
    /\ call.at = "schedule" => waited <= delay
    /\ call.at = "schedule" /\ ~call.struck => next_rtimer = call.task /\ time[call.task] = call.time

RtimerIInv == RtimerTypes /\ FlagMeans /\ AskedInRound /\ CleanCompare /\ CallComes

LEMMA RtimerTypesMean ==
  ASSUME RtimerTypes
  PROVE  /\ CLOCK_RANGE \in Nat \ {0} /\ TAR \in 0 .. CLOCK_RANGE - 1
         /\ TACCR0 \in 0 .. CLOCK_RANGE - 1
         /\ call.at \in {"idle", "store", "schedule"} /\ call.task \in Task \cup {NoTask}
         /\ call.time \in 0 .. CLOCK_RANGE - 1 /\ call.struck \in BOOLEAN
         /\ delay \in Nat /\ waited \in Nat /\ MaxDelay \in Nat
         /\ \A a \in Ahead : a \in MaxDelay + 1 .. CLOCK_RANGE - 1
  BY AheadAssumption DEF RtimerTypes

LEMMA RtimerStarts == RtimerInit => RtimerIInv
<1> SUFFICES ASSUME RtimerInit PROVE RtimerIInv
  OBVIOUS
<1>1. call = NoCall /\ call.at = "idle"
  BY DEF RtimerInit, NoCall
<1>2. NoCall \in [at : {"idle", "store", "schedule"}, task : Task \cup {NoTask},
                  time : 0 .. CLOCK_RANGE - 1, first : BOOLEAN, struck : BOOLEAN]
  BY AheadAssumption DEF NoCall
<1>3. RtimerTypes
  <2>1. 0 \in 0 .. CLOCK_RANGE - 1
    BY AheadAssumption
  <2>2. time \in [Task -> 0 .. CLOCK_RANGE - 1]
    BY <2>1 DEF RtimerInit
  <2> QED
    BY <1>1, <1>2, <2>1, <2>2 DEF RtimerInit, RtimerTypes
<1> QED
  BY <1>1, <1>3 DEF RtimerInit, RtimerIInv, FlagMeans, AskedInRound, CleanCompare, CallComes

LEMMA RtimerTickKeeps == RtimerIInv /\ RtimerTick => RtimerIInv'
<1> SUFFICES ASSUME RtimerIInv, RtimerTick PROVE RtimerIInv'
  OBVIOUS
<1>1. RtimerTypes /\ FlagMeans /\ AskedInRound /\ CleanCompare /\ CallComes
  BY DEF RtimerIInv
<1>2. /\ ~CCIFG /\ (call.at # "idle" => delay < MaxDelay)
      /\ TAR' = (TAR + 1) % CLOCK_RANGE /\ CCIFG' = (TAR' = TACCR0)
      /\ delay' = (IF call.at = "idle" THEN 0 ELSE delay + 1)
      /\ waited' = (IF asked = NoTask THEN 0 ELSE waited + 1)
      /\ UNCHANGED <<TACCR0, next_rtimer, time, call, asked, clean>>
  BY DEF RtimerTick
<1>3. TAR' = (IF TAR + 1 < CLOCK_RANGE THEN TAR + 1 ELSE 0) /\ TAR' \in 0 .. CLOCK_RANGE - 1
  <2>1. CLOCK_RANGE \in Nat \ {0} /\ TAR \in 0 .. CLOCK_RANGE - 1 /\ 1 \in 0 .. CLOCK_RANGE
    BY <1>1, RtimerTypesMean
  <2>2. /\ TAR' = IF TAR + 1 < CLOCK_RANGE THEN TAR + 1 ELSE TAR + 1 - CLOCK_RANGE
        /\ TAR' \in 0 .. CLOCK_RANGE - 1
    BY <1>2, <2>1, WrapOnce
  <2> QED
    BY <2>1, <2>2
<1>4. RtimerTypes'
  <2>1. delay' \in Nat /\ waited' \in Nat /\ CCIFG' \in BOOLEAN
    BY <1>1, <1>2, RtimerTypesMean
  <2> QED
    BY <1>1, <1>2, <1>3, <2>1 DEF RtimerTypes
<1>5. FlagMeans'
  BY <1>2 DEF FlagMeans
<1>6. AskedInRound'
  <2>1. PICK r \in Nat, t \in Int, c \in Int, u \in Int :
          /\ r = CLOCK_RANGE /\ t = TAR /\ c = TACCR0 /\ u = TAR'
          /\ t \in 0 .. r - 1 /\ c \in 0 .. r - 1 /\ u \in 0 .. r - 1
    BY <1>1, <1>3, RtimerTypesMean
  <2>2. ToCompare = IF c > t THEN c - t ELSE c - t + r
    BY <1>2, <2>1 DEF ToCompare
  <2>3. ToCompare' = IF u = c THEN 0 ELSE IF c > u THEN c - u ELSE c - u + r
    BY <1>2, <2>1 DEF ToCompare
  <2>4. u = IF t + 1 < r THEN t + 1 ELSE 0
    BY <1>3, <2>1
  <2>5. (IF c > t THEN c - t ELSE c - t + r)
          = (IF u = c THEN 0 ELSE IF c > u THEN c - u ELSE c - u + r) + 1
    BY <2>1, <2>4
  <2>6. (IF u = c THEN 0 ELSE IF c > u THEN c - u ELSE c - u + r) \in Nat
    <3>1. c \in 0 .. r - 1 /\ u \in 0 .. r - 1
      BY <2>1
    <3> QED
      BY <3>1
  <2>7. PICK e \in Nat : e = ToCompare' /\ ToCompare = e + 1
    BY <2>2, <2>3, <2>5, <2>6
  <2>8. PICK w \in Nat : w = waited
    BY <1>1, RtimerTypesMean
  <2>9. (w + 1) + e = w + (e + 1)
    OBVIOUS
  <2>10. asked' # NoTask => waited' + ToCompare' = waited + ToCompare
    <3>1. asked' # NoTask => waited' = w + 1
      BY <1>2, <2>8
    <3> QED
      BY <2>7, <2>8, <2>9, <3>1
  <2> QED
    BY <1>1, <1>2, <2>10 DEF AskedInRound
<1>7. CleanCompare'
  BY <1>1, <1>2 DEF CleanCompare
<1>8. CallComes'
  <2> SUFFICES ASSUME call.at # "idle"
               PROVE  /\ call.task \in Task /\ delay' <= MaxDelay
                      /\ \E a \in Ahead : call.time = AheadOfNow(a)'
                      /\ call.at = "schedule" => waited' <= delay'
                      /\ call.at = "schedule" /\ ~call.struck =>
                           next_rtimer = call.task /\ time[call.task] = call.time
    BY <1>2 DEF CallComes
  <2>1. delay' = delay + 1 /\ delay' <= MaxDelay /\ (waited' = waited + 1 \/ waited' = 0)
    BY <1>1, <1>2, RtimerTypesMean
  <2>2. PICK a \in Ahead : call.time = AheadOfNow(a)
    BY <1>1 DEF CallComes
  <2>3. AheadOfNow(a)' = AheadOfNow(a)
    <3>1. a \in MaxDelay + 1 .. CLOCK_RANGE - 1
      BY <1>1, RtimerTypesMean
    <3>2. a - delay' = a - delay - 1 /\ a - delay' >= 1 /\ a - delay \in Nat /\ a - delay < CLOCK_RANGE
      BY <1>1, <2>1, <3>1, RtimerTypesMean
    <3> QED
      BY <1>1, <1>3, <3>2, RtimerTypesMean DEF AheadOfNow
  <2>4. call.at = "schedule" => waited' <= delay'
    BY <1>1, <2>1, RtimerTypesMean DEF CallComes
  <2> QED
    BY <1>1, <2>1, <2>2, <2>3, <2>4 DEF CallComes
<1> QED
  BY <1>4, <1>5, <1>6, <1>7, <1>8 DEF RtimerIInv

LEMMA SetTestKeeps ==
  ASSUME RtimerIInv, NEW t \in Task, NEW ahead \in Ahead, SetTest(t, ahead)
  PROVE  RtimerIInv'
<1>1. RtimerTypes /\ FlagMeans /\ AskedInRound /\ CleanCompare
  BY DEF RtimerIInv
<1>2. /\ call' = [at |-> "store", task |-> t, time |-> (TAR + ahead) % CLOCK_RANGE,
                  first |-> next_rtimer = NoTask, struck |-> FALSE]
      /\ delay' = 0
      /\ UNCHANGED <<TAR, TACCR0, CCIFG, next_rtimer, time, asked, waited, clean>>
  BY DEF SetTest
<1>3. /\ call'.at = "store" /\ call'.task = t /\ call'.time = (TAR + ahead) % CLOCK_RANGE
  BY <1>2
<1>4. /\ (TAR + ahead) % CLOCK_RANGE
           = IF TAR + ahead < CLOCK_RANGE THEN TAR + ahead ELSE TAR + ahead - CLOCK_RANGE
      /\ (TAR + ahead) % CLOCK_RANGE \in 0 .. CLOCK_RANGE - 1
      /\ ahead \in Nat
  <2>1. ahead \in 0 .. CLOCK_RANGE /\ CLOCK_RANGE \in Nat \ {0} /\ TAR \in 0 .. CLOCK_RANGE - 1
    BY <1>1, RtimerTypesMean
  <2>2. ahead \in Nat
    BY <2>1
  <2> QED
    BY <2>1, <2>2, WrapOnce
<1>5. RtimerTypes'
  <2>1. (next_rtimer = NoTask) \in BOOLEAN
    OBVIOUS
  <2>2. call' \in [at : {"idle", "store", "schedule"}, task : Task \cup {NoTask},
                   time : 0 .. CLOCK_RANGE - 1, first : BOOLEAN, struck : BOOLEAN]
    BY <1>2, <1>4, <2>1
  <2> QED
    BY <1>1, <1>2, <2>2 DEF RtimerTypes
<1>6. FlagMeans' /\ AskedInRound' /\ CleanCompare'
  BY <1>1, <1>2 DEF FlagMeans, AskedInRound, ToCompare, CleanCompare
<1>7. CallComes'
  <2>1. AheadOfNow(ahead)' = (TAR + ahead) % CLOCK_RANGE
    <3>1. ahead - 0 = ahead
      BY <1>4
    <3> QED
      BY <1>2, <1>4, <3>1 DEF AheadOfNow
  <2>2. delay' <= MaxDelay
    BY <1>1, <1>2, RtimerTypesMean
  <2>3. \E a \in Ahead : call'.time = AheadOfNow(a)'
    BY <1>3, <2>1
  <2> QED
    BY <1>3, <2>2, <2>3 DEF CallComes
<1> QED
  BY <1>5, <1>6, <1>7 DEF RtimerIInv

LEMMA SetStoreKeeps == RtimerIInv /\ SetStore => RtimerIInv'
<1> SUFFICES ASSUME RtimerIInv, SetStore PROVE RtimerIInv'
  OBVIOUS
<1>1. RtimerTypes /\ FlagMeans /\ CallComes
  BY DEF RtimerIInv
<1>2. /\ call.at = "store" /\ ~CCIFG
      /\ time' = [time EXCEPT ![call.task] = call.time]
      /\ next_rtimer' = call.task
      /\ call' = (IF call.first THEN [call EXCEPT !.at = "schedule"] ELSE NoCall)
      /\ asked' = call.task /\ waited' = 0 /\ clean' = FALSE
      /\ UNCHANGED <<TAR, TACCR0, CCIFG, delay>>
  BY DEF SetStore
<1>3. call.task \in Task /\ time'[call.task] = call.time
  BY <1>1, <1>2 DEF CallComes, RtimerTypes
<1>4. /\ call'.at = "schedule" /\ call'.task = call.task /\ call'.time = call.time
      \/ call'.at = "idle"
  BY <1>1, <1>2 DEF RtimerTypes, NoCall
<1>5. RtimerTypes'
  <2>1. call' \in [at : {"idle", "store", "schedule"}, task : Task \cup {NoTask},
                   time : 0 .. CLOCK_RANGE - 1, first : BOOLEAN, struck : BOOLEAN]
    BY <1>1, <1>2, RtimerTypesMean DEF RtimerTypes, NoCall
  <2>2. time' \in [Task -> 0 .. CLOCK_RANGE - 1]
    BY <1>1, <1>2, RtimerTypesMean DEF RtimerTypes
  <2> QED
    BY <1>1, <1>2, <1>3, <2>1, <2>2 DEF RtimerTypes
<1>6. FlagMeans'
  BY <1>2 DEF FlagMeans
<1>7. AskedInRound'
  <2>1. ToCompare' \in 0 .. CLOCK_RANGE
    BY <1>1, <1>2, RtimerTypesMean DEF ToCompare
  <2>2. asked' # NoTask /\ 0 + ToCompare' <= CLOCK_RANGE
    BY <1>2, <1>3, <2>1, NoTaskAssumption
  <2> QED
    BY <1>2, <2>2 DEF AskedInRound
<1>8. CallComes'
  <2>1. CASE call'.at = "idle"
    BY <2>1 DEF CallComes
  <2>2. CASE call'.at = "schedule" /\ call'.task = call.task /\ call'.time = call.time
    <3>1. \A a \in Ahead : AheadOfNow(a)' = AheadOfNow(a)
      BY <1>2 DEF AheadOfNow
    <3>2. \E a \in Ahead : call'.time = AheadOfNow(a)'
      BY <1>1, <1>2, <2>2, <3>1 DEF CallComes
    <3>3. waited' <= delay' /\ delay' <= MaxDelay
      BY <1>1, <1>2, RtimerTypesMean DEF CallComes
    <3> QED
      BY <1>2, <1>3, <2>2, <3>2, <3>3 DEF CallComes
  <2> QED
    BY <1>4, <2>1, <2>2
<1> QED
  BY <1>2, <1>5, <1>6, <1>7, <1>8 DEF RtimerIInv, CleanCompare

LEMMA SetScheduleKeeps == RtimerIInv /\ SetSchedule => RtimerIInv'
<1> SUFFICES ASSUME RtimerIInv, SetSchedule PROVE RtimerIInv'
  OBVIOUS
<1>1. RtimerTypes /\ AskedInRound /\ CallComes
  BY DEF RtimerIInv
<1>2. /\ call.at = "schedule" /\ ~CCIFG
      /\ TACCR0' = call.time /\ clean' = ~call.struck /\ call' = NoCall
      /\ UNCHANGED <<TAR, CCIFG, next_rtimer, time, delay, asked, waited>>
  BY DEF SetSchedule
<1>3. PICK a \in Ahead : call.time = AheadOfNow(a)
  BY <1>1, <1>2 DEF CallComes
<1>4. RtimerTypes'
  <2>1. NoCall \in [at : {"idle", "store", "schedule"}, task : Task \cup {NoTask},
                    time : 0 .. CLOCK_RANGE - 1, first : BOOLEAN, struck : BOOLEAN]
    BY <1>1, RtimerTypesMean DEF NoCall
  <2>2. TACCR0' \in 0 .. CLOCK_RANGE - 1 /\ clean' \in BOOLEAN
    BY <1>1, <1>2, RtimerTypesMean
  <2> QED
    BY <1>1, <1>2, <2>1, <2>2 DEF RtimerTypes
<1>5. AskedInRound'
  <2>1. PICK d \in Nat : d = a - delay /\ d >= 1 /\ d < CLOCK_RANGE
    <3>1. a \in MaxDelay + 1 .. CLOCK_RANGE - 1 /\ delay <= MaxDelay
      BY <1>1, <1>2, RtimerTypesMean DEF CallComes
    <3>2. a - delay \in Nat /\ a - delay >= 1 /\ a - delay < CLOCK_RANGE
      BY <1>1, <3>1, RtimerTypesMean
    <3> QED
      BY <3>2
  <2>2. ToCompare' = d
    BY <1>1, <1>2, <1>3, <2>1, RtimerTypesMean DEF ToCompare, AheadOfNow
  <2>3. waited' + ToCompare' <= CLOCK_RANGE
    <3>1. waited <= delay /\ a < CLOCK_RANGE /\ a \in Int /\ delay + d = a
      BY <1>1, <1>2, <2>1, RtimerTypesMean DEF CallComes
    <3> QED
      BY <1>1, <1>2, <2>1, <2>2, <3>1, RtimerTypesMean
  <2> QED
    BY <1>1, <1>2, <2>3 DEF AskedInRound
<1>6. CleanCompare'
  BY <1>1, <1>2 DEF CleanCompare, CallComes
<1> QED
  BY <1>2, <1>4, <1>5, <1>6 DEF RtimerIInv, FlagMeans, CallComes, NoCall

LEMMA timera0Keeps == RtimerIInv /\ timera0 => RtimerIInv'
<1> SUFFICES ASSUME RtimerIInv, timera0 PROVE RtimerIInv'
  OBVIOUS
<1>1. RtimerTypes /\ FlagMeans /\ AskedInRound /\ CleanCompare /\ CallComes
  BY DEF RtimerIInv
<1>2. CCIFG /\ CCIFG' = FALSE /\ UNCHANGED <<TAR, delay>>
  BY DEF timera0
<1>3. FlagMeans'
  BY <1>2 DEF FlagMeans
<1>4. \A a \in Ahead : AheadOfNow(a)' = AheadOfNow(a)
  BY <1>2 DEF AheadOfNow
<1>5. CASE next_rtimer = NoTask
  <2>1. UNCHANGED <<TACCR0, next_rtimer, time, call, asked, waited, clean>>
    BY <1>5 DEF timera0
  <2> QED
    BY <1>1, <1>2, <1>3, <1>4, <1>5, <2>1
    DEF RtimerIInv, RtimerTypes, AskedInRound, CleanCompare, CallComes
<1>6. CASE next_rtimer # NoTask
  <2>1. /\ waited' = 0
        /\ call' = (IF call.at = "schedule" THEN [call EXCEPT !.struck = TRUE] ELSE call)
    BY <1>6 DEF timera0
  <2>2. /\ next_rtimer' = NoTask /\ asked' = NoTask /\ clean' = FALSE
        /\ UNCHANGED <<TACCR0, time>>
        \/ \E ahead \in Ahead :
             /\ time' = [time EXCEPT ![next_rtimer] = (TAR + ahead) % CLOCK_RANGE]
             /\ next_rtimer' = next_rtimer
             /\ TACCR0' = time'[next_rtimer]
             /\ asked' = next_rtimer
             /\ clean' = (call.at # "schedule")
    BY <1>6 DEF timera0, AfterCall
  <2>3. next_rtimer \in Task
    BY <1>1, <1>6 DEF RtimerTypes
  <2>4. /\ next_rtimer' \in Task \cup {NoTask} /\ asked' = next_rtimer' /\ clean' \in BOOLEAN
        /\ time' \in [Task -> 0 .. CLOCK_RANGE - 1] /\ TACCR0' \in 0 .. CLOCK_RANGE - 1
        /\ clean' /\ next_rtimer' # NoTask => TACCR0' = time'[next_rtimer']
    <3>1. CASE next_rtimer' = NoTask /\ asked' = NoTask /\ clean' = FALSE
               /\ UNCHANGED <<TACCR0, time>>
      BY <1>1, <3>1 DEF RtimerTypes
    <3>2. ASSUME NEW ahead \in Ahead,
                 time' = [time EXCEPT ![next_rtimer] = (TAR + ahead) % CLOCK_RANGE],
                 next_rtimer' = next_rtimer, TACCR0' = time'[next_rtimer],
                 asked' = next_rtimer, clean' = (call.at # "schedule")
          PROVE  /\ time' \in [Task -> 0 .. CLOCK_RANGE - 1]
                 /\ TACCR0' \in 0 .. CLOCK_RANGE - 1 /\ clean' \in BOOLEAN
      <4>1. (TAR + ahead) % CLOCK_RANGE \in 0 .. CLOCK_RANGE - 1
        <5>1. ahead \in 0 .. CLOCK_RANGE /\ CLOCK_RANGE \in Nat \ {0} /\ TAR \in 0 .. CLOCK_RANGE - 1
          BY <1>1, RtimerTypesMean
        <5> QED
          BY <5>1, WrapOnce
      <4>2. time' \in [Task -> 0 .. CLOCK_RANGE - 1]
        BY <1>1, <3>2, <4>1 DEF RtimerTypes
      <4>3. (call.at # "schedule") \in BOOLEAN
        OBVIOUS
      <4> QED
        BY <2>3, <3>2, <4>2, <4>3
    <3> QED
      BY <2>2, <2>3, <3>1, <3>2
  <2>5. /\ call' \in [at : {"idle", "store", "schedule"}, task : Task \cup {NoTask},
                      time : 0 .. CLOCK_RANGE - 1, first : BOOLEAN, struck : BOOLEAN]
        /\ call'.at = call.at /\ call'.task = call.task /\ call'.time = call.time
        /\ call.at = "schedule" => call'.struck
    BY <1>1, <2>1 DEF RtimerTypes
  <2>6. RtimerTypes'
    BY <1>1, <1>2, <2>1, <2>4, <2>5 DEF RtimerTypes
  <2>7. AskedInRound'
    <3>1. ToCompare' \in 0 .. CLOCK_RANGE
      <4>1. PICK r \in Nat, t \in Int, c \in Int :
              /\ r = CLOCK_RANGE /\ t = TAR' /\ c = TACCR0'
              /\ t \in 0 .. r - 1 /\ c \in 0 .. r - 1
        BY <2>6, AheadAssumption DEF RtimerTypes
      <4>2. ToCompare' = IF c > t THEN c - t ELSE c - t + r
        BY <1>2, <4>1 DEF ToCompare
      <4>3. (IF c > t THEN c - t ELSE c - t + r) \in 0 .. r
        <5>1. t \in 0 .. r - 1 /\ c \in 0 .. r - 1
          BY <4>1
        <5> QED
          BY <5>1
      <4> QED
        BY <4>1, <4>2, <4>3
    <3>2. 0 + ToCompare' <= CLOCK_RANGE
      BY <3>1
    <3> QED
      BY <2>1, <2>4, <3>2 DEF AskedInRound
  <2>8. CleanCompare'
    BY <2>4 DEF CleanCompare
  <2>9. CallComes'
    <3>1. 0 <= delay
      BY <1>1, RtimerTypesMean
    <3> QED
      BY <1>1, <1>2, <1>4, <2>1, <2>5, <3>1 DEF CallComes
  <2> QED
    BY <1>3, <2>6, <2>7, <2>8, <2>9 DEF RtimerIInv
<1> QED
  BY <1>5, <1>6

\* No step of the counter, of main or of the handler breaks it.
LEMMA RtimerKeeps == RtimerIInv /\ [RtimerNext]_rtimerVars => RtimerIInv'
<1> SUFFICES ASSUME RtimerIInv, [RtimerNext]_rtimerVars PROVE RtimerIInv'
  OBVIOUS
<1>1. CASE UNCHANGED rtimerVars
  BY <1>1 DEF rtimerVars, RtimerIInv, RtimerTypes, FlagMeans, AskedInRound, ToCompare,
              CleanCompare, CallComes, AheadOfNow
<1>2. CASE RtimerNext
  BY <1>2, RtimerTickKeeps, SetTestKeeps, SetStoreKeeps, SetScheduleKeeps, timera0Keeps
  DEF RtimerNext
<1> QED
  BY <1>1, <1>2

\* What the invariant says of a step: the handler of a task set cleanly comes at
\* the task's time, and nobody has waited for more than a round.
LEMMA TaskInTime ==
  ASSUME RtimerIInv, RtimerIInv'
  PROVE  /\ timera0 /\ next_rtimer # NoTask /\ clean => TAR = time[next_rtimer]
         /\ waited' <= CLOCK_RANGE
<1>1. timera0 /\ next_rtimer # NoTask /\ clean => TAR = time[next_rtimer]
  BY DEF timera0, RtimerIInv, FlagMeans, CleanCompare
<1>2. waited' <= CLOCK_RANGE
  <2>1. PICK r \in Nat, t \in Int, c \in Int, w \in Nat :
          /\ r = CLOCK_RANGE /\ t = TAR' /\ c = TACCR0' /\ w = waited'
          /\ t \in 0 .. r - 1 /\ c \in 0 .. r - 1
    BY AheadAssumption DEF RtimerIInv, RtimerTypes
  <2>2. PICK d \in Nat : d = ToCompare'
    <3>1. ToCompare' = IF CCIFG' THEN 0 ELSE IF c > t THEN c - t ELSE c - t + r
      BY <2>1 DEF ToCompare
    <3>2. (IF CCIFG' THEN 0 ELSE IF c > t THEN c - t ELSE c - t + r) \in Nat
      <4>1. (IF c > t THEN c - t ELSE c - t + r) \in Nat
        <5>1. t \in 0 .. r - 1 /\ c \in 0 .. r - 1
          BY <2>1
        <5> QED
          BY <5>1
      <4> QED
        BY <4>1
    <3> QED
      BY <3>1, <3>2
  <2>3. asked' = NoTask => waited' = 0
    BY DEF RtimerIInv, AskedInRound
  <2>4. asked' # NoTask => waited' + ToCompare' <= CLOCK_RANGE
    BY DEF RtimerIInv, AskedInRound
  <2>5. w + d <= r => w <= r
    <3>1. w \in Nat /\ d \in Nat /\ r \in Nat
      BY <2>1, <2>2
    <3> QED
      BY <3>1
  <2>6. asked' # NoTask => w + d <= r
    BY <2>1, <2>2, <2>4
  <2>7. 0 <= r
    OBVIOUS
  <2> QED
    BY <2>1, <2>3, <2>5, <2>6, <2>7
<1> QED
  BY <1>1, <1>2

-----------------------------------------------------------------------------
(***************************************************************************)
(* core/sys/timer.c and stimer.c, for every range of the clock and every   *)
(* set of intervals. The invariant: the end of an interval and the clock   *)
(* are as far apart as the ticks that are left, but for whole rounds, and  *)
(* the user comes back within the time that each kind allows.              *)
(***************************************************************************)

\* A number congruent to one of the range's values has that remainder.
LEMMA RemainderIs ==
  ASSUME NEW n \in Nat \ {0}, NEW d \in 0 .. n - 1, NEW x \in Int,
         \/ x = d - 2 * n \/ x = d - n \/ x = d \/ x = d + n \/ x = d + 2 * n
  PROVE  x % n = d
  OBVIOUS

\* What the timers and the histories of their users are.
TimersTypes ==
  /\ now \in 0 .. TIME_RANGE - 1
  /\ timer \in [Kind -> [start : 0 .. TIME_RANGE - 1, interval : Interval]]
  /\ left \in [Kind -> Int]

\* The end of an interval and the clock are as far apart as the ticks that are
\* left, but for rounds of the clock.
EndOf(k) == timer[k].start + timer[k].interval
EndIsLeft(k) ==
  \/ EndOf(k) - now = left[k] - TIME_RANGE
  \/ EndOf(k) - now = left[k]
  \/ EndOf(k) - now = left[k] + TIME_RANGE
  \/ EndOf(k) - now = left[k] + 2 * TIME_RANGE

\* The user comes back in time: see MayPass and MayReset.
UserInTime ==
  /\ timer["timer"].interval - left["timer"] \in 0 .. TIME_RANGE - 1
  /\ - left["stimer"] < (TIME_RANGE - 1) \div 2
  /\ 2 * left["stimer"] < TIME_RANGE

TimersIInv == TimersTypes /\ UserInTime /\ \A k \in Kind : EndIsLeft(k)

\* Half of the range, in both ways it is written.
LEMMA Halves ==
  /\ TIME_RANGE \in Nat \ {0} /\ TIME_RANGE >= 4
  /\ (TIME_RANGE - 1) \div 2 \in Nat
  /\ 2 * ((TIME_RANGE - 1) \div 2) <= TIME_RANGE - 1
  /\ TIME_RANGE - 2 <= 2 * ((TIME_RANGE - 1) \div 2)
  /\ TIME_RANGE \div 2 \in Nat /\ 2 * (TIME_RANGE \div 2) <= TIME_RANGE
  /\ \A i \in Interval : i \in Nat \ {0} /\ 2 * i < TIME_RANGE
  BY IntervalAssumption

LEMMA TimerTypes ==
  ASSUME TimersTypes, NEW k \in Kind
  PROVE  /\ timer[k].start \in 0 .. TIME_RANGE - 1 /\ timer[k].interval \in Interval
         /\ timer[k].interval \in Nat \ {0} /\ 2 * timer[k].interval < TIME_RANGE
         /\ left[k] \in Int /\ now \in 0 .. TIME_RANGE - 1 /\ EndOf(k) \in Int
         /\ timer[k] \in [start : 0 .. TIME_RANGE - 1, interval : Interval]
<1>1. timer[k] \in [start : 0 .. TIME_RANGE - 1, interval : Interval]
  BY DEF TimersTypes
<1>2. timer[k].start \in 0 .. TIME_RANGE - 1 /\ timer[k].interval \in Interval
  BY <1>1
<1>3. timer[k].interval \in Nat \ {0} /\ 2 * timer[k].interval < TIME_RANGE
  BY <1>2, Halves
<1> QED
  BY <1>1, <1>2, <1>3, Halves DEF TimersTypes, EndOf

LEMMA TimersStart == TimersInit => TimersIInv
<1> SUFFICES ASSUME TimersInit PROVE TimersIInv
  OBVIOUS
<1>1. PICK i \in Interval : /\ timer = [k \in Kind |-> [start |-> 0, interval |-> i]]
                            /\ left = [k \in Kind |-> i]
  BY DEF TimersInit
<1>2. now = 0 /\ i \in Nat \ {0} /\ 2 * i < TIME_RANGE
  BY Halves DEF TimersInit
<1>3. \A k \in Kind : timer[k].start = 0 /\ timer[k].interval = i /\ left[k] = i
  BY <1>1
<1>4. TimersTypes
  BY <1>1, <1>2, Halves DEF TimersTypes
<1>5. \A k \in Kind : EndIsLeft(k)
  BY <1>2, <1>3 DEF EndIsLeft, EndOf
<1>6. UserInTime
  <2>1. 0 \in 0 .. TIME_RANGE - 1
    BY Halves
  <2>2. - i < (TIME_RANGE - 1) \div 2
    BY <1>2, Halves
  <2> QED
    BY <1>2, <1>3, <2>1, <2>2 DEF UserInTime, Kind
<1> QED
  BY <1>4, <1>5, <1>6 DEF TimersIInv

\* The clock goes on by a tick.
LEMMA TimersTickKeeps == TimersIInv /\ TimersTick => TimersIInv'
<1> SUFFICES ASSUME TimersIInv, TimersTick PROVE TimersIInv'
  OBVIOUS
<1>1. TimersTypes /\ UserInTime /\ \A k \in Kind : EndIsLeft(k)
  BY DEF TimersIInv
<1>2. /\ \A k \in Kind : MayPass(k)
      /\ now' = (now + 1) % TIME_RANGE
      /\ left' = [k \in Kind |-> left[k] - 1] /\ timer' = timer
  BY DEF TimersTick
<1>3. \A k \in Kind : left'[k] = left[k] - 1
  BY <1>2
<1>4. /\ now' = now + 1 \/ now' = now + 1 - TIME_RANGE
      /\ now' \in 0 .. TIME_RANGE - 1
  <2>1. TIME_RANGE \in Nat \ {0} /\ now \in 0 .. TIME_RANGE - 1 /\ 1 \in 0 .. TIME_RANGE
    BY <1>1, Halves DEF TimersTypes
  <2> QED
    BY <1>2, <2>1, WrapOnce
<1>5. TimersTypes'
  <2>1. left' \in [Kind -> Int]
    BY <1>1, <1>2 DEF TimersTypes
  <2> QED
    BY <1>1, <1>2, <1>4, <2>1 DEF TimersTypes
<1>6. UserInTime'
  <2>1. /\ timer["timer"].interval - left["timer"] < TIME_RANGE - 1
        /\ - left["stimer"] < (TIME_RANGE - 1) \div 2 - 1
    BY <1>2 DEF MayPass, Kind
  <2>2. /\ left["timer"] \in Int /\ left["stimer"] \in Int /\ timer["timer"].interval \in Int
        /\ TIME_RANGE \in Int /\ (TIME_RANGE - 1) \div 2 \in Int
    BY <1>1, Halves, TimerTypes DEF Kind
  <2>3. timer["timer"].interval - (left["timer"] - 1) \in 0 .. TIME_RANGE - 1
    BY <1>1, <2>1, <2>2 DEF UserInTime
  <2>4. /\ - (left["stimer"] - 1) < (TIME_RANGE - 1) \div 2
        /\ 2 * (left["stimer"] - 1) < TIME_RANGE
    BY <1>1, <2>1, <2>2 DEF UserInTime
  <2> QED
    BY <1>2, <1>3, <2>3, <2>4 DEF UserInTime, Kind
<1>7. ASSUME NEW k \in Kind PROVE EndIsLeft(k)'
  <2>1. PICK r \in Nat, l \in Int, e \in Int, n \in Int :
          r = TIME_RANGE /\ l = left[k] /\ e = EndOf(k) /\ n = now
    BY <1>1, Halves, TimerTypes
  <2>2. /\ e < r + r \div 2 + 1 /\ e >= 0 /\ n \in 0 .. r - 1 /\ now' \in 0 .. r - 1
        /\ 2 * l < r /\ l > - r
    <3>1. CASE k = "timer"
      BY <1>1, <1>4, <2>1, <3>1, TimerTypes DEF UserInTime, EndOf
    <3>2. CASE k = "stimer"
      BY <1>1, <1>4, <2>1, <3>2, TimerTypes, Halves DEF UserInTime, EndOf
    <3> QED
      BY <3>1, <3>2 DEF Kind
  <2> QED
    BY <1>1, <1>2, <1>3, <1>4, <2>1, <2>2 DEF EndIsLeft, EndOf
<1> QED
  BY <1>5, <1>6, <1>7 DEF TimersIInv


\* A timer set to the present, or moved on by its interval: the other is left alone.
LEMMA TimerChanges ==
  ASSUME TimersIInv, NEW k \in Kind, NEW s \in 0 .. TIME_RANGE - 1, NEW i \in Interval,
         NEW l \in Int, now' = now,
         timer' = [timer EXCEPT ![k] = [start |-> s, interval |-> i]],
         left' = [left EXCEPT ![k] = l],
         \/ s + i - now = l - TIME_RANGE \/ s + i - now = l
         \/ s + i - now = l + TIME_RANGE \/ s + i - now = l + 2 * TIME_RANGE,
         k = "timer" => i - l \in 0 .. TIME_RANGE - 1,
         k = "stimer" => - l < (TIME_RANGE - 1) \div 2 /\ 2 * l < TIME_RANGE
  PROVE  TimersIInv'
<1>1. TimersTypes /\ UserInTime /\ \A j \in Kind : EndIsLeft(j)
  BY DEF TimersIInv
<1>2. /\ timer'[k] = [start |-> s, interval |-> i] /\ left'[k] = l
      /\ \A j \in Kind \ {k} : timer'[j] = timer[j] /\ left'[j] = left[j]
  BY <1>1 DEF TimersTypes
<1>3. TimersTypes'
  BY <1>1 DEF TimersTypes
<1>4. UserInTime'
  BY <1>1, <1>2 DEF UserInTime, Kind
<1>5. ASSUME NEW j \in Kind PROVE EndIsLeft(j)'
  <2>1. CASE j = k
    <3>1. timer'[j].start = s /\ timer'[j].interval = i /\ left'[j] = l
      BY <1>2, <2>1
    <3>2. s \in Int /\ i \in Int /\ now \in Int /\ TIME_RANGE \in Int
      BY <1>1, Halves DEF TimersTypes
    <3> QED
      BY <3>1, <3>2 DEF EndIsLeft, EndOf
  <2>2. CASE j # k
    BY <1>1, <1>2, <2>2 DEF EndIsLeft, EndOf
  <2> QED
    BY <2>1, <2>2
<1> QED
  BY <1>3, <1>4, <1>5 DEF TimersIInv

\* A timer with another start.
LEMMA StartChanged ==
  ASSUME TimersTypes, NEW k \in Kind, NEW s
  PROVE  [timer EXCEPT ![k].start = s]
           = [timer EXCEPT ![k] = [start |-> s, interval |-> timer[k].interval]]
<1>1. PICK t \in [start : 0 .. TIME_RANGE - 1, interval : Interval] : t = timer[k]
  BY TimerTypes
<1>2. [t EXCEPT !.start = s] = [start |-> s, interval |-> t.interval]
  OBVIOUS
<1> QED
  BY <1>1, <1>2

\* timer_set and timer_restart.
LEMMA TimerSetKeeps ==
  ASSUME TimersIInv, NEW k \in Kind, NEW i \in Interval, now' = now,
         timer' = [timer EXCEPT ![k] = [start |-> now, interval |-> i]],
         left' = [left EXCEPT ![k] = i]
  PROVE  TimersIInv'
<1>1. now \in 0 .. TIME_RANGE - 1
  BY DEF TimersIInv, TimersTypes
<1>2. i \in Nat \ {0} /\ 2 * i < TIME_RANGE
  BY Halves
<1>3. now + i - now = i /\ i - i \in 0 .. TIME_RANGE - 1 /\ - i < (TIME_RANGE - 1) \div 2
  BY <1>1, <1>2, Halves
<1>4. /\ k = "timer" => i - i \in 0 .. TIME_RANGE - 1
      /\ k = "stimer" => - i < (TIME_RANGE - 1) \div 2 /\ 2 * i < TIME_RANGE
      /\ i \in Int
  BY <1>2, <1>3
<1>5. \/ now + i - now = i - TIME_RANGE \/ now + i - now = i
      \/ now + i - now = i + TIME_RANGE \/ now + i - now = i + 2 * TIME_RANGE
  BY <1>3
<1> QED
  BY <1>1, <1>4, <1>5, TimerChanges

LEMMA TimerRestartKeeps ==
  ASSUME TimersIInv, NEW k \in Kind, timer_restart(k)
  PROVE  TimersIInv'
<1>1. TimersTypes
  BY DEF TimersIInv
<1>2. timer[k].interval \in Interval
  BY <1>1, TimerTypes
<1>3. timer' = [timer EXCEPT ![k] = [start |-> now, interval |-> timer[k].interval]]
  BY <1>1, StartChanged DEF timer_restart
<1> QED
  BY <1>2, <1>3, TimerSetKeeps DEF timer_restart

LEMMA TimerResetKeeps ==
  ASSUME TimersIInv, NEW k \in Kind, timer_reset(k)
  PROVE  TimersIInv'
<1>1. TimersTypes /\ UserInTime /\ EndIsLeft(k)
  BY DEF TimersIInv
<1>2. PICK r \in Nat \ {0}, s \in Int, i \in Interval, l \in Int, n \in Int :
        /\ r = TIME_RANGE /\ s = timer[k].start /\ i = timer[k].interval /\ l = left[k]
        /\ n = now /\ s \in 0 .. r - 1 /\ n \in 0 .. r - 1
  BY <1>1, Halves, TimerTypes
<1>3. i \in Nat /\ 2 * i < r
  BY <1>2, Halves
<1>4. PICK p \in 0 .. r - 1 : p = (s + i) % r /\ (p = s + i \/ p = s + i - r)
  <2>1. i \in 0 .. r
    BY <1>3
  <2> QED
    BY <1>2, <2>1, WrapOnce
<1>5. /\ timer' = [timer EXCEPT ![k] = [start |-> p, interval |-> i]]
      /\ left' = [left EXCEPT ![k] = l + i] /\ now' = now
  <2>1. /\ timer' = [timer EXCEPT ![k].start = (timer[k].start + timer[k].interval) % TIME_RANGE]
        /\ left' = [left EXCEPT ![k] = left[k] + timer[k].interval] /\ now' = now
    BY DEF timer_reset
  <2>2. timer' = [timer EXCEPT ![k].start = p]
    BY <1>2, <1>4, <2>1
  <2> QED
    BY <1>1, <1>2, <2>1, <2>2, StartChanged
<1>6. k = "timer" => i - (l + i) \in 0 .. r - 1
  <2> SUFFICES ASSUME k = "timer" PROVE i - (l + i) \in 0 .. r - 1
    OBVIOUS
  <2>1. l <= 0 /\ i - l \in 0 .. r - 1
    BY <1>1, <1>2 DEF timer_reset, MayReset, UserInTime
  <2> QED
    BY <1>3, <2>1
<1>7. k = "stimer" => - (l + i) < (r - 1) \div 2 /\ 2 * (l + i) < r
  <2> SUFFICES ASSUME k = "stimer" PROVE - (l + i) < (r - 1) \div 2 /\ 2 * (l + i) < r
    OBVIOUS
  <2>1. l + i < r \div 2 /\ - l < (r - 1) \div 2
    BY <1>1, <1>2 DEF timer_reset, MayReset, UserInTime
  <2> QED
    BY <1>2, <1>3, <2>1, Halves
<1>8. \/ s + i - n = l - r \/ s + i - n = l
      \/ s + i - n = l + r \/ s + i - n = l + 2 * r
  <2>1. EndOf(k) = s + i
    BY <1>2 DEF EndOf
  <2> QED
    BY <1>1, <1>2, <1>3, <2>1 DEF EndIsLeft
<1>11. 2 * (l + i) < r
  <2>1. CASE k = "timer"
    <3>1. l <= 0
      BY <1>2, <2>1 DEF timer_reset, MayReset
    <3> QED
      BY <1>3, <3>1
  <2>2. CASE k = "stimer"
    BY <1>7, <2>2
  <2> QED
    BY <2>1, <2>2 DEF Kind
<1>9. l < r /\ l > - r
  <2>1. CASE k = "timer"
    BY <1>1, <1>2, <1>3, <2>1 DEF UserInTime
  <2>2. CASE k = "stimer"
    BY <1>1, <1>2, <2>2, Halves DEF UserInTime
  <2> QED
    BY <2>1, <2>2 DEF Kind
<1>10. \/ p + i - n = (l + i) - r \/ p + i - n = l + i
       \/ p + i - n = (l + i) + r \/ p + i - n = (l + i) + 2 * r
  <2>1. n \in 0 .. r - 1
    BY <1>2
  <2>2. CASE p = s + i
    BY <1>3, <1>8, <1>9, <1>11, <2>1, <2>2
  <2>3. CASE p = s + i - r
    BY <1>3, <1>8, <1>9, <1>11, <2>1, <2>3
  <2> QED
    BY <1>4, <2>2, <2>3
<1>12. /\ p \in 0 .. TIME_RANGE - 1 /\ l + i \in Int
       /\ \/ p + i - now = (l + i) - TIME_RANGE \/ p + i - now = l + i
          \/ p + i - now = (l + i) + TIME_RANGE \/ p + i - now = (l + i) + 2 * TIME_RANGE
  BY <1>2, <1>3, <1>10
<1>13. /\ k = "timer" => i - (l + i) \in 0 .. TIME_RANGE - 1
       /\ k = "stimer" => - (l + i) < (TIME_RANGE - 1) \div 2 /\ 2 * (l + i) < TIME_RANGE
  BY <1>2, <1>6, <1>7
<1> QED
  BY <1>5, <1>12, <1>13, TimerChanges

LEMMA TimersKeep == TimersIInv /\ [TimersNext]_timersVars => TimersIInv'
<1> SUFFICES ASSUME TimersIInv, [TimersNext]_timersVars PROVE TimersIInv'
  OBVIOUS
<1>1. CASE UNCHANGED timersVars
  BY <1>1 DEF timersVars, TimersIInv, TimersTypes, UserInTime, EndIsLeft, EndOf
<1>2. ASSUME NEW k \in Kind, NEW i \in Interval, timer_set(k, i)
      PROVE  TimersIInv'
  BY <1>2, TimerSetKeeps DEF timer_set
<1>3. CASE TimersNext
  BY <1>2, <1>3, TimersTickKeeps, TimerResetKeeps, TimerRestartKeeps DEF TimersNext
<1> QED
  BY <1>1, <1>3

\* So the timers tell the time that is left.
LEMMA TimersDoTell == TimersIInv => TimersTell
<1> SUFFICES ASSUME TimersIInv, NEW k \in Kind
             PROVE  /\ Expired(k) <=> left[k] <= 0
                    /\ left[k] >= 0 => timer_remaining(timer[k]) = left[k]
  BY DEF TimersTell
<1>1. TimersTypes /\ UserInTime /\ EndIsLeft(k)
  BY DEF TimersIInv
<1>2. PICK r \in Nat \ {0}, s \in Int, i \in Int, l \in Int, n \in Int :
        /\ r = TIME_RANGE /\ s = timer[k].start /\ i = timer[k].interval /\ l = left[k]
        /\ n = now /\ s \in 0 .. r - 1 /\ n \in 0 .. r - 1 /\ i \in Nat \ {0} /\ 2 * i < r
  <2>1. TIME_RANGE \in Nat \ {0}
    BY Halves
  <2>2. /\ timer[k].start \in 0 .. TIME_RANGE - 1 /\ timer[k].interval \in Nat \ {0}
        /\ 2 * timer[k].interval < TIME_RANGE /\ left[k] \in Int /\ now \in 0 .. TIME_RANGE - 1
    BY <1>1, TimerTypes
  <2> QED
    BY <2>1, <2>2
<1>3. \/ s + i - n = l - r \/ s + i - n = l
      \/ s + i - n = l + r \/ s + i - n = l + 2 * r
  BY <1>1, <1>2 DEF EndIsLeft, EndOf
<1>4. /\ k = "timer" => i - l \in 0 .. r - 1
      /\ k = "stimer" => - l < (r - 1) \div 2
      /\ 2 * l < r
  BY <1>1, <1>2, Halves DEF UserInTime, Kind
<1>5. l >= 0 => timer_remaining(timer[k]) = l
  <2> SUFFICES ASSUME l >= 0 PROVE ((s + i) - n) % r = l
    BY <1>2 DEF timer_remaining
  <2>1. l \in 0 .. r - 1 /\ s + i - n \in Int
    BY <1>2, <1>4
  <2>2. PICK x \in Int : x = s + i - n
    BY <2>1
  <2>3. \/ x = l - 2 * r \/ x = l - r \/ x = l \/ x = l + r \/ x = l + 2 * r
    BY <1>3, <2>2
  <2>4. x % r = l
    BY <2>1, <2>3, RemainderIs
  <2> QED
    BY <2>2, <2>4
<1>6. CASE k = "timer"
  <2>1. PICK d \in 0 .. r - 1 : d = i - l
    BY <1>2, <1>4, <1>6
  <2>2. PICK x \in Int : x = n - s
    BY <1>2
  <2>3. \/ x = d - 2 * r \/ x = d - r \/ x = d \/ x = d + r \/ x = d + 2 * r
    BY <1>2, <1>3, <2>1, <2>2
  <2>4. x % r = d
    BY <2>1, <2>3, RemainderIs
  <2>5. Expired(k) <=> d >= i
    BY <1>2, <1>6, <2>2, <2>4 DEF Expired, timer_expired, Since
  <2> QED
    BY <1>2, <1>5, <2>1, <2>5
<1>7. CASE k = "stimer"
  <2>1. PICK x \in Int : x = n - (s + i)
    BY <1>2
  <2>2. PICK d \in 0 .. r - 1 : d = IF l <= 0 THEN - l ELSE r - l
    <3>1. l > - r /\ l < r
      BY <1>2, <1>4, <1>7, Halves
    <3>2. (IF l <= 0 THEN - l ELSE r - l) \in 0 .. r - 1
      BY <1>2, <3>1
    <3> QED
      BY <3>2
  <2>3. \/ x = d - 2 * r \/ x = d - r \/ x = d \/ x = d + r \/ x = d + 2 * r
    BY <1>2, <1>3, <2>1, <2>2
  <2>4. x % r = d
    BY <2>2, <2>3, RemainderIs
  <2>5. Expired(k) <=> d < (r - 1) \div 2
    BY <1>2, <1>7, <2>1, <2>4 DEF Expired, stimer_expired
  <2>6. d < (r - 1) \div 2 <=> l <= 0
    BY <1>2, <1>4, <1>7, <2>2, Halves
  <2> QED
    BY <1>2, <1>5, <2>5, <2>6
<1> QED
  BY <1>6, <1>7 DEF Kind

-----------------------------------------------------------------------------
(***************************************************************************)
(* The time base of drivers/timer.c, for every number of values of TAR and *)
(* of master_time: the time that timer_mastertime and timer_time tell,     *)
(* with an overflow whose handler is late, is the ticks since the start or *)
(* behind by whole rounds of master_time.                                  *)
(***************************************************************************)

\* What the registers and variables of the time base are.  While timer_start
\* works, the timer has not overflowed, and no interrupt can come.
Starting ==
  {<<>>, <<"source">>, StartStores, <<"MC", "TAIE", "master_time">>,
   <<"TAIE", "master_time">>, <<"master_time">>}
Round == OVERFLOW * MASTER_RANGE
TimebaseTypes ==
  /\ TACTL \in [source : BOOLEAN, MC : BOOLEAN, TAIE : BOOLEAN, TAIFG : BOOLEAN]
  /\ tar_a \in 0 .. OVERFLOW - 1 /\ master_time \in 0 .. MASTER_RANGE - 1
  /\ since \in 0 .. Round - 1
  /\ starting \in Starting
StartUndisturbed ==
  /\ starting # <<>> => since = tar_a /\ ~TACTL.TAIFG
  /\ TACTL.TAIE => starting \in {<<>>, <<"master_time">>}

\* The time that the two functions tell: no remainder is needed to say that it is
\* right, for it is behind by at most one round.
TimeOf(master, over, tick) == (master + (IF over THEN 1 ELSE 0)) * OVERFLOW + tick
TimeTold == TimeOf(master_time, TACTL.TAIFG, tar_a)
ToldIsSince == TACTL.TAIE /\ starting = <<>> => since = TimeTold \/ since = TimeTold - Round

TimebaseIInv == TimebaseTypes /\ StartUndisturbed /\ ToldIsSince

Control == [source : BOOLEAN, MC : BOOLEAN, TAIE : BOOLEAN, TAIFG : BOOLEAN]

\* The sizes, and the products that are made of them.
LEMMA RoundIs ==
  /\ OVERFLOW \in Nat \ {0} /\ MASTER_RANGE \in Nat \ {0} /\ Round \in Nat \ {0}
  /\ OVERFLOW <= Round /\ Round = MASTER_RANGE * OVERFLOW
  /\ \A m \in Nat : m * OVERFLOW \in Nat /\ (m + 1) * OVERFLOW = m * OVERFLOW + OVERFLOW
<1>1. OVERFLOW \in Nat \ {0} /\ MASTER_RANGE \in Nat \ {0}
  BY PeripheralsAssumption
<1>2. PICK o \in Nat \ {0}, n \in Nat : o = OVERFLOW /\ MASTER_RANGE = n + 1
  <2>1. MASTER_RANGE - 1 \in Nat /\ MASTER_RANGE = (MASTER_RANGE - 1) + 1
    BY <1>1
  <2> QED
    BY <1>1, <2>1
<1>3. o * (n + 1) = o * n + o /\ (n + 1) * o = o * n + o /\ o * n \in Nat
  OBVIOUS
<1>4. \A m \in Nat : m * o \in Nat /\ (m + 1) * o = m * o + o
  OBVIOUS
<1> QED
  BY <1>1, <1>2, <1>3, <1>4 DEF Round

LEMMA TimeOfIs ==
  ASSUME NEW m \in 0 .. MASTER_RANGE - 1, NEW p \in BOOLEAN, NEW a \in 0 .. OVERFLOW - 1
  PROVE  /\ TimeOf(m, p, a) \in Nat /\ TimeOf(m, p, a) < Round + OVERFLOW
         /\ ~p => TimeOf(m, p, a) = m * OVERFLOW + a
         /\ p => TimeOf(m, p, a) = (m * OVERFLOW + OVERFLOW) + a
         /\ m * OVERFLOW \in Nat /\ m * OVERFLOW + OVERFLOW <= Round
         /\ m = MASTER_RANGE - 1 => m * OVERFLOW + OVERFLOW = Round
<1>1. PICK o \in Nat \ {0}, l \in Nat, n \in Nat :
        /\ o = OVERFLOW /\ l = m /\ MASTER_RANGE = (l + n) + 1
  <2>1. MASTER_RANGE - 1 - m \in Nat /\ m \in Nat
        /\ MASTER_RANGE = (m + (MASTER_RANGE - 1 - m)) + 1
    BY RoundIs
  <2> QED
    BY <2>1, RoundIs
<1>2. /\ l * o \in Nat /\ (l + 1) * o = l * o + o /\ (l + 0) * o = l * o
      /\ ((l + n) + 1) * o = (l * o + o) + n * o /\ n * o \in Nat
      /\ n = 0 => n * o = 0
  OBVIOUS
<1>3. Round = (l * o + o) + n * o
  BY <1>1, <1>2, RoundIs
<1>4. a \in Nat
  BY RoundIs
<1>5. /\ ~p => TimeOf(m, p, a) = l * o + a
      /\ p => TimeOf(m, p, a) = (l * o + o) + a
  BY <1>1, <1>2 DEF TimeOf
<1>6. l * o + o <= Round
  BY <1>2, <1>3
<1>7. l = MASTER_RANGE - 1 => l * o + o = Round
  BY <1>1, <1>2, <1>3
<1>8. TimeOf(m, p, a) \in Nat /\ TimeOf(m, p, a) < Round + OVERFLOW
  <2>1. a < o /\ o \in Nat /\ Round \in Nat /\ l * o + o <= Round
    BY <1>1, <1>6, RoundIs
  <2> QED
    BY <1>1, <1>2, <1>4, <1>5, <2>1
<1> QED
  BY <1>1, <1>2, <1>5, <1>6, <1>7, <1>8

LEMMA TimeToldIs ==
  ASSUME TimebaseTypes
  PROVE  /\ TimeTold \in Nat
         /\ ~TACTL.TAIFG => TimeTold = master_time * OVERFLOW + tar_a
         /\ TACTL.TAIFG => TimeTold = (master_time * OVERFLOW + OVERFLOW) + tar_a
         /\ master_time * OVERFLOW \in Nat /\ master_time * OVERFLOW + OVERFLOW <= Round
         /\ master_time = MASTER_RANGE - 1 => master_time * OVERFLOW + OVERFLOW = Round
  BY TimeOfIs DEF TimebaseTypes, TimeTold

LEMMA TimeToldNext ==
  ASSUME TimebaseTypes'
  PROVE  /\ TimeTold' \in Nat /\ TimeTold' < Round + OVERFLOW
         /\ ~TACTL'.TAIFG => TimeTold' = master_time' * OVERFLOW + tar_a'
         /\ TACTL'.TAIFG => TimeTold' = (master_time' * OVERFLOW + OVERFLOW) + tar_a'
  BY TimeOfIs DEF TimebaseTypes, TimeTold

LEMMA TimebaseStarts == timer_init => TimebaseIInv
<1> SUFFICES ASSUME timer_init PROVE TimebaseIInv
  OBVIOUS
<1>1. 0 \in 0 .. OVERFLOW - 1 /\ 0 \in 0 .. MASTER_RANGE - 1 /\ 0 \in 0 .. Round - 1
  BY RoundIs
<1>2. TimebaseTypes
  BY <1>1 DEF timer_init, TimerCleared, TimebaseTypes, Starting
<1> QED
  BY <1>2 DEF timer_init, TimerCleared, TimebaseIInv, StartUndisturbed, ToldIsSince

\* TAR counts.
LEMMA TimebaseTickKeeps == TimebaseIInv /\ TimerTick => TimebaseIInv'
<1> SUFFICES ASSUME TimebaseIInv, TimerTick PROVE TimebaseIInv'
  OBVIOUS
<1>1. TimebaseTypes /\ StartUndisturbed /\ ToldIsSince
  BY DEF TimebaseIInv
<1>2. /\ (TACTL.TAIFG /\ TACTL.TAIE) \/ starting # <<>> => tar_a < OVERFLOW - 1
      /\ tar_a' = (tar_a + 1) % OVERFLOW
      /\ TACTL' = [TACTL EXCEPT !.TAIFG = TACTL.TAIFG \/ tar_a' = 0]
      /\ since' = (since + 1) % Round
      /\ UNCHANGED <<master_time, starting>>
  BY DEF TimerTick, Round
<1>3. /\ tar_a' = (IF tar_a + 1 < OVERFLOW THEN tar_a + 1 ELSE tar_a + 1 - OVERFLOW)
      /\ tar_a' \in 0 .. OVERFLOW - 1
  <2>1. tar_a \in 0 .. OVERFLOW - 1 /\ 1 \in 0 .. OVERFLOW
    BY <1>1, RoundIs DEF TimebaseTypes
  <2> QED
    BY <1>2, <2>1, RoundIs, WrapOnce
<1>4. /\ since' = (IF since + 1 < Round THEN since + 1 ELSE since + 1 - Round)
      /\ since' \in 0 .. Round - 1
  <2>1. since \in 0 .. Round - 1 /\ 1 \in 0 .. Round
    BY <1>1, RoundIs DEF TimebaseTypes
  <2> HIDE DEF Round
  <2> QED
    BY <1>2, <2>1, RoundIs, WrapOnce
<1>5. /\ TACTL' \in Control /\ TACTL'.TAIE = TACTL.TAIE
      /\ TACTL'.TAIFG = (TACTL.TAIFG \/ tar_a' = 0)
  <2>1. (TACTL.TAIFG \/ tar_a' = 0) \in BOOLEAN
    OBVIOUS
  <2> QED
    BY <1>1, <1>2, <2>1 DEF TimebaseTypes, Control
<1>6. TimebaseTypes'
  BY <1>1, <1>2, <1>3, <1>4, <1>5 DEF TimebaseTypes, Control, Round
<1>7. PICK o \in Nat \ {0}, r \in Nat \ {0}, a \in Nat, s \in Nat :
        o = OVERFLOW /\ r = Round /\ a = tar_a /\ s = since /\ a < o /\ s < r /\ o <= r
  BY <1>1, RoundIs DEF TimebaseTypes
<1>8. ASSUME a + 1 < o
      PROVE  tar_a' = a + 1 /\ tar_a' # 0 /\ (TACTL'.TAIFG <=> TACTL.TAIFG)
  <2>1. tar_a' = a + 1 /\ a + 1 # 0
    BY <1>3, <1>7, <1>8
  <2> QED
    BY <1>1, <1>5, <2>1 DEF TimebaseTypes
<1>9. StartUndisturbed'
  <2>1. ASSUME starting # <<>> PROVE since' = tar_a' /\ ~TACTL'.TAIFG
    <3>1. a + 1 < o /\ s = a /\ ~TACTL.TAIFG
      BY <1>1, <1>2, <1>7, <2>1 DEF StartUndisturbed
    <3>2. s + 1 < r
      BY <1>7, <3>1
    <3> QED
      BY <1>4, <1>7, <1>8, <3>1, <3>2
  <2> QED
    BY <1>1, <1>2, <1>5, <2>1 DEF StartUndisturbed
<1>10. ToldIsSince'
  <2> SUFFICES ASSUME TACTL.TAIE, starting = <<>>
               PROVE  since' = TimeTold' \/ since' = TimeTold' - Round
    BY <1>2, <1>5 DEF ToldIsSince, Round
  <2>1. PICK x \in Nat : x = TimeTold /\ (s = x \/ s = x - r)
    BY <1>1, <1>7, TimeToldIs DEF ToldIsSince
  <2>2. TimeTold' = x + 1
    <3>1. PICK b \in Nat : b = master_time * OVERFLOW /\ b = master_time' * OVERFLOW
      BY <1>1, <1>2, TimeToldIs
    <3>2. CASE a + 1 < o
      <4>1. tar_a' = a + 1 /\ (TACTL'.TAIFG <=> TACTL.TAIFG)
        BY <1>8, <3>2
      <4>2. CASE TACTL.TAIFG
        <5>1. x = (b + o) + a
          BY <1>1, <1>7, <2>1, <3>1, <4>2, TimeToldIs
        <5>2. TimeTold' = (b + o) + (a + 1)
          BY <1>6, <1>7, <3>1, <4>1, <4>2, TimeToldNext
        <5> QED
          BY <5>1, <5>2
      <4>3. CASE ~TACTL.TAIFG
        <5>1. x = b + a
          BY <1>1, <1>7, <2>1, <3>1, <4>3, TimeToldIs
        <5>2. TimeTold' = b + (a + 1)
          BY <1>6, <1>7, <3>1, <4>1, <4>3, TimeToldNext
        <5> QED
          BY <5>1, <5>2
      <4> QED
        BY <4>2, <4>3
    <3>3. CASE ~(a + 1 < o)
      <4>1. a + 1 = o
        BY <1>7, <3>3
      <4>2. ~TACTL.TAIFG
        BY <1>2, <1>7, <4>1
      <4>3. tar_a' = 0 /\ TACTL'.TAIFG
        <5>1. tar_a' = a + 1 - o
          BY <1>3, <1>7, <3>3
        <5>2. tar_a' = 0
          BY <4>1, <5>1
        <5> QED
          BY <1>5, <5>2
      <4>4. x = b + a
        BY <1>1, <1>7, <2>1, <3>1, <4>2, TimeToldIs
      <4>5. TimeTold' = (b + o) + 0
        BY <1>6, <1>7, <3>1, <4>3, TimeToldNext
      <4> QED
        BY <4>1, <4>4, <4>5
    <3> QED
      BY <3>2, <3>3
  <2>3. since' = (IF s + 1 < r THEN s + 1 ELSE s + 1 - r)
    BY <1>4, <1>7
  <2>4. x + 1 < r + o
    BY <1>6, <1>7, <2>2, TimeToldNext
  <2>5. since' = x + 1 \/ since' = (x + 1) - r
    <3>1. s < r /\ o <= r /\ (s = x \/ s = x - r)
      BY <1>7, <2>1
    <3>2. CASE s + 1 < r
      BY <2>3, <3>1, <3>2
    <3>3. CASE s + 1 = r
      <4>1. since' = 0
        BY <2>3, <3>3
      <4>2. x + 1 = r \/ x + 1 = r + r
        BY <3>1, <3>3
      <4>4. CASE x + 1 = r
        <5>1. (x + 1) - r = 0
          BY <4>4
        <5> QED
          BY <4>1, <5>1
      <4>3. x + 1 # r + r
        BY <2>4, <3>1
      <4> QED
        BY <4>2, <4>3, <4>4
    <3> QED
      BY <3>1, <3>2, <3>3
  <2> QED
    BY <1>7, <2>2, <2>5
<1> QED
  BY <1>6, <1>9, <1>10 DEF TimebaseIInv

LEMMA ClearTimerKeeps ==
  ASSUME TimebaseIInv, NEW stores \in Starting, ClearTimer(stores)
  PROVE  TimebaseIInv'
<1>1. 0 \in 0 .. OVERFLOW - 1 /\ 0 \in 0 .. Round - 1
  BY RoundIs
<1>2. /\ TACTL' = TimerCleared /\ tar_a' = 0 /\ since' = 0 /\ starting' = stores
      /\ master_time' = master_time
  BY DEF ClearTimer
<1>3. TimebaseTypes'
  BY <1>1, <1>2 DEF TimebaseIInv, TimebaseTypes, TimerCleared, Round
<1> QED
  BY <1>2, <1>3 DEF TimebaseIInv, StartUndisturbed, ToldIsSince, TimerCleared

LEMMA TimerStartKeeps == TimebaseIInv /\ timer_start => TimebaseIInv'
<1> SUFFICES ASSUME TimebaseIInv, timer_start PROVE TimebaseIInv'
  OBVIOUS
<1>1. PICK n \in {0, 1, Len(StartStores)} : ClearTimer(SubSeq(StartStores, 1, n))
  BY DEF timer_start
<1>2. SubSeq(StartStores, 1, n) \in Starting
  <2>1. Len(StartStores) = 4 /\ SubSeq(StartStores, 1, 0) = <<>>
    BY DEF StartStores
  <2>2. SubSeq(StartStores, 1, 1) = <<"source">>
    <3> DEFINE s == StartStores
    <3>1. s \in Seq({"source", "MC", "TAIE", "master_time"}) /\ Len(s) = 4 /\ s[1] = "source"
      BY DEF StartStores
    <3> HIDE DEF s
    <3>2. SubSeq(s, 1, 1) = <<s[1]>>
      <4>1. s[1] \in {"source"}
        BY <3>1
      <4>2. \A i \in 1 .. 1 : s[i] \in {"source"}
        BY <4>1
      <4>3. /\ SubSeq(s, 1, 1) \in Seq({"source"}) /\ Len(SubSeq(s, 1, 1)) = 1
            /\ SubSeq(s, 1, 1)[1] = s[1]
        BY <4>2, SubSeqProperties
      <4>4. /\ <<s[1]>> \in Seq({"source"}) /\ Len(<<s[1]>>) = 1 /\ <<s[1]>>[1] = s[1]
        BY <4>1
      <4>5. SubSeq(s, 1, 1) = <<s[1]>>
        <5> DEFINE p == SubSeq(s, 1, 1)
                   q == <<s[1]>>
        <5>1. \A i \in 1 .. 1 : p[i] = q[i]
          BY <4>3, <4>4
        <5>2. p \in Seq({"source"}) /\ q \in Seq({"source"}) /\ Len(p) = 1 /\ Len(q) = 1
          BY <4>3, <4>4
        <5> HIDE DEF p, q
        <5>3. p = q
          BY <5>1, <5>2, SeqEqual
        <5> QED
          BY <5>3 DEF p, q
      <4> QED
        BY <4>5
    <3> QED
      BY <3>1, <3>2 DEF s
  <2>3. SubSeq(StartStores, 1, 4) = StartStores
    <3> DEFINE s == StartStores
    <3>1. s \in Seq({"source", "MC", "TAIE", "master_time"}) /\ Len(s) = 4
      BY DEF StartStores
    <3> HIDE DEF s
    <3>2. SubSeq(s, 1, Len(s)) = s
      BY <3>1
    <3> QED
      BY <3>1, <3>2 DEF s
  <2> QED
    BY <2>1, <2>2, <2>3 DEF Starting
<1> QED
  BY <1>1, <1>2, ClearTimerKeeps

LEMMA StartStoreKeeps == TimebaseIInv /\ StartStore => TimebaseIInv'
<1> SUFFICES ASSUME TimebaseIInv, StartStore PROVE TimebaseIInv'
  OBVIOUS
<1>1. TimebaseTypes /\ StartUndisturbed
  BY DEF TimebaseIInv
<1>2. /\ starting # <<>> /\ starting' = Tail(starting) /\ UNCHANGED <<tar_a, since>>
      /\ IF Head(starting) = "master_time"
         THEN master_time' = 0 /\ TACTL' = TACTL
         ELSE TACTL' = [TACTL EXCEPT ![Head(starting)] = TRUE] /\ master_time' = master_time
  BY DEF StartStore
<1>3. since = tar_a /\ ~TACTL.TAIFG
  BY <1>1, <1>2 DEF StartUndisturbed
<1>4. 0 \in 0 .. MASTER_RANGE - 1
  BY RoundIs
<1>5. CASE starting = <<"master_time">>
  <2>1. starting' = <<>> /\ master_time' = 0 /\ TACTL' = TACTL
    BY <1>2, <1>5
  <2>2. TimebaseTypes'
    BY <1>1, <1>2, <1>4, <2>1 DEF TimebaseTypes, Starting, Round
  <2>3. TimeTold' = tar_a
    <3>1. ~TACTL'.TAIFG /\ tar_a' = tar_a /\ tar_a \in Nat /\ OVERFLOW \in Nat
      BY <1>1, <1>2, <1>3, <2>1, RoundIs DEF TimebaseTypes
    <3>2. (0 + 0) * OVERFLOW + tar_a = tar_a
      BY <3>1
    <3> QED
      BY <2>1, <3>1, <3>2 DEF TimeTold, TimeOf
  <2> QED
    BY <1>2, <1>3, <2>1, <2>2, <2>3 DEF TimebaseIInv, StartUndisturbed, ToldIsSince
<1>6. CASE starting # <<"master_time">>
  <2>1. Head(starting) \in {"source", "MC", "TAIE"} /\ starting' \in Starting
        /\ (Head(starting) = "TAIE" => starting' = <<"master_time">>)
        /\ (starting' = <<>> => Head(starting) = "source")
    <3>1. starting \in Starting /\ starting # <<>> /\ starting' = Tail(starting)
      BY <1>1, <1>2 DEF TimebaseTypes
    <3>2. CASE starting = <<"source">>
      <4>1. Head(starting) = "source" /\ Tail(starting) = <<>>
        BY <3>2
      <4> QED
        BY <3>1, <4>1 DEF Starting
    <3>3. CASE starting = StartStores
      <4>1. Head(starting) = "source" /\ Tail(starting) = <<"MC", "TAIE", "master_time">>
        BY <3>3 DEF StartStores
      <4> QED
        BY <3>1, <4>1 DEF Starting
    <3>4. CASE starting = <<"MC", "TAIE", "master_time">>
      <4>1. Head(starting) = "MC" /\ Tail(starting) = <<"TAIE", "master_time">>
        BY <3>4
      <4>2. <<"TAIE", "master_time">> # <<>>
        OBVIOUS
      <4> QED
        BY <3>1, <4>1, <4>2 DEF Starting
    <3>5. CASE starting = <<"TAIE", "master_time">>
      <4>1. Head(starting) = "TAIE" /\ Tail(starting) = <<"master_time">>
        BY <3>5
      <4>2. <<"master_time">> # <<>>
        OBVIOUS
      <4> QED
        BY <3>1, <4>1, <4>2 DEF Starting
    <3> QED
      BY <1>6, <3>1, <3>2, <3>3, <3>4, <3>5 DEF Starting
  <2>2. /\ TACTL' = [TACTL EXCEPT ![Head(starting)] = TRUE] /\ master_time' = master_time
    BY <1>2, <2>1
  <2>3. /\ TACTL' \in Control /\ TACTL'.TAIFG = TACTL.TAIFG
        /\ Head(starting) # "TAIE" => TACTL'.TAIE = TACTL.TAIE
    BY <1>1, <2>1, <2>2 DEF TimebaseTypes, Control
  <2>4. TimebaseTypes'
    BY <1>1, <1>2, <2>1, <2>2, <2>3 DEF TimebaseTypes, Control, Round
  <2>5. Head(starting) # "TAIE" => ~TACTL'.TAIE
    BY <1>1, <1>2, <1>6, <2>3 DEF StartUndisturbed
  <2> QED
    BY <1>2, <1>3, <2>1, <2>3, <2>4, <2>5 DEF TimebaseIInv, StartUndisturbed, ToldIsSince
<1> QED
  BY <1>5, <1>6

LEMMA CountsKeeps ==
  ASSUME TimebaseIInv, NEW on \in BOOLEAN, Counts(on)
  PROVE  TimebaseIInv'
<1>1. /\ TACTL' = [TACTL EXCEPT !.MC = on]
      /\ UNCHANGED <<tar_a, master_time, starting, since>>
  BY DEF Counts
<1>2. TACTL' \in Control /\ TACTL'.TAIE = TACTL.TAIE /\ TACTL'.TAIFG = TACTL.TAIFG
  BY <1>1 DEF TimebaseIInv, TimebaseTypes, Control
<1> QED
  BY <1>1, <1>2
  DEF TimebaseIInv, TimebaseTypes, StartUndisturbed, ToldIsSince, TimeTold, TimeOf, Control, Round

\* The handler of the overflow: its count goes from the flag to master_time.
LEMMA OverflowHandled == TimebaseIInv /\ timer1irq => TimebaseIInv'
<1> SUFFICES ASSUME TimebaseIInv, timer1irq PROVE TimebaseIInv'
  OBVIOUS
<1>1. TimebaseTypes /\ StartUndisturbed /\ ToldIsSince
  BY DEF TimebaseIInv
<1>2. /\ TACTL.TAIE /\ TACTL.TAIFG /\ TACTL' = [TACTL EXCEPT !.TAIFG = FALSE]
      /\ master_time' = (master_time + 1) % MASTER_RANGE
      /\ UNCHANGED <<tar_a, starting, since>>
  BY DEF timer1irq
<1>3. TACTL' \in Control /\ TACTL'.TAIE = TACTL.TAIE /\ ~TACTL'.TAIFG
  BY <1>1, <1>2 DEF TimebaseTypes, Control
<1>4. /\ master_time' = (IF master_time + 1 < MASTER_RANGE THEN master_time + 1
                         ELSE master_time + 1 - MASTER_RANGE)
      /\ master_time' \in 0 .. MASTER_RANGE - 1
  <2>1. master_time \in 0 .. MASTER_RANGE - 1 /\ 1 \in 0 .. MASTER_RANGE
    BY <1>1, RoundIs DEF TimebaseTypes
  <2> QED
    BY <1>2, <2>1, RoundIs, WrapOnce
<1>5. TimebaseTypes'
  BY <1>1, <1>2, <1>3, <1>4 DEF TimebaseTypes, Control, Round
<1>6. starting = <<>>
  BY <1>1, <1>2 DEF StartUndisturbed
<1>7. TimeTold' = TimeTold \/ TimeTold' = TimeTold - Round
  <2>1. PICK o \in Nat, b \in Nat, r \in Nat, a \in Nat, m \in Nat, n \in Nat :
          /\ o = OVERFLOW /\ b = master_time * OVERFLOW /\ r = Round /\ a = tar_a
          /\ m = master_time /\ n = MASTER_RANGE /\ m < n
    BY <1>1, RoundIs, TimeToldIs DEF TimebaseTypes
  <2>2. TimeTold = (b + o) + a
    BY <1>1, <1>2, <2>1, TimeToldIs
  <2>3. TimeTold' = master_time' * OVERFLOW + a
    BY <1>2, <1>3, <1>5, <2>1, TimeToldNext
  <2>4. CASE m + 1 < n
    <3>1. master_time' * OVERFLOW = b + o
      BY <1>4, <2>1, <2>4, RoundIs
    <3> QED
      BY <2>2, <2>3, <3>1
  <2>5. CASE m = n - 1
    <3>1. master_time' = 0 /\ b + o = r
      BY <1>1, <1>4, <2>1, <2>5, TimeToldIs
    <3>2. 0 * o = 0
      OBVIOUS
    <3>3. TimeTold' = a /\ TimeTold = r + a
      BY <2>1, <2>2, <2>3, <3>1, <3>2
    <3> QED
      BY <2>1, <3>3
  <2> QED
    BY <2>1, <2>4, <2>5
<1>8. ToldIsSince'
  <2>1. PICK x \in Nat, r \in Nat, s \in Nat : x = TimeTold /\ r = Round /\ s = since /\ s < r
    BY <1>1, TimeToldIs, RoundIs DEF TimebaseTypes
  <2>2. s = x \/ s = x - r
    BY <1>1, <1>2, <1>6, <2>1 DEF ToldIsSince
  <2>3. PICK y \in Nat : y = TimeTold' /\ (y = x \/ y = x - r)
    BY <1>5, <1>7, <2>1, TimeToldNext
  <2>4. s = y \/ s = y - r
    <3>1. CASE y = x
      BY <2>2, <3>1
    <3>2. CASE y = x - r
      <4>1. s < r /\ y >= 0
        BY <2>1
      <4> QED
        BY <2>2, <3>2, <4>1
    <3> QED
      BY <2>3, <3>1, <3>2
  <2> QED
    BY <1>2, <2>1, <2>3, <2>4 DEF ToldIsSince, Round
<1> QED
  BY <1>2, <1>3, <1>5, <1>6, <1>8 DEF TimebaseIInv, StartUndisturbed

LEMMA TimebaseKeeps == TimebaseIInv /\ [TimebaseNext]_timebaseVars => TimebaseIInv'
<1> SUFFICES ASSUME TimebaseIInv, [TimebaseNext]_timebaseVars PROVE TimebaseIInv'
  OBVIOUS
<1>1. CASE UNCHANGED timebaseVars
  BY <1>1 DEF timebaseVars, TimebaseIInv, TimebaseTypes, StartUndisturbed, ToldIsSince, TimeTold,
              TimeOf, Round
<1>2. timer_stop => TimebaseIInv'
  BY ClearTimerKeeps DEF timer_stop, Starting
<1>3. CASE TimebaseNext
  BY <1>2, <1>3, TimebaseTickKeeps, TimerStartKeeps, StartStoreKeeps, CountsKeeps,
     OverflowHandled
  DEF TimebaseNext
<1> QED
  BY <1>1, <1>3

LEMMA TimebaseTells == TimebaseIInv => MasterTimeTells
<1> SUFFICES ASSUME TimebaseIInv, TACTL.TAIE, starting = <<>>
             PROVE  TimeTold % Round = since
  BY DEF MasterTimeTells, TimeTold, TimeOf, Round
<1>1. PICK x \in Nat, r \in Nat \ {0}, s \in Nat :
        x = TimeTold /\ r = Round /\ s = since /\ s \in 0 .. r - 1 /\ (s = x \/ s = x - r)
  BY RoundIs, TimeToldIs DEF TimebaseIInv, TimebaseTypes, ToldIsSince
<1>2. x % r = s
  <2>1. x \in Int /\ (x = s \/ x = s + r)
    BY <1>1
  <2> QED
    BY <1>1, <2>1, RemainderIs
<1> QED
  BY <1>1, <1>2

-----------------------------------------------------------------------------
(***************************************************************************)
(* drivers/rtc.c. The invariant says where a second that is over and not   *)
(* yet counted is on its way: in the interrupt's flag, in the change of    *)
(* the frequency or in rtc_resume. With one alarm on the list, the one     *)
(* that waits is the next; with two the list loses alarms.                 *)
(***************************************************************************)

\* What the registers, the calls and the list are.
RtcTypes ==
  /\ tbr \in Nat /\ TBCCR0 \in Nat /\ frequency \in Nat
  /\ TBIFG \in BOOLEAN /\ spoilt \in BOOLEAN /\ MC_UPTO_CCR0 \in BOOLEAN
  /\ untold \in Int /\ elapsed_left \in Nat /\ time_seconds \in Int
  /\ doing \in {"nothing", "compare", "frequency", "resume"}
  /\ date \in [Alarm -> Int]
  /\ next_alarm \in Alarm \cup {NoAlarm}
  /\ alarm_next \in [Alarm -> Alarm \cup {NoAlarm}]
  /\ setting \in Alarm \cup {NoAlarm} /\ pending \subseteq Alarm

\* Where a second that is over and not in time_seconds is on its way: the interrupt,
\* the change of the frequency, the resume.  No other call finds the counter beyond
\* its last value, and the timer stands still while rtc_resume calls the handler.
OnTheWay ==
  (IF TBIFG THEN 1 ELSE 0) + (IF doing = "compare" /\ tbr > TBCCR0 THEN 1 ELSE 0)
    + (IF doing = "resume" THEN elapsed_left ELSE 0)
SecondsOnTheWay ==
  /\ untold = IF spoilt THEN 0 ELSE OnTheWay
  /\ doing # "compare" => tbr <= TBCCR0
  /\ doing = "resume" => ~MC_UPTO_CCR0 /\ ~TBIFG

\* An alarm that waits is the next, and its date is to come.
AlarmWaits ==
  \A a \in pending : next_alarm = a /\ (a \notin skipped => date[a] > time_seconds)

RtcIInv == RtcTypes /\ SecondsOnTheWay /\ AlarmWaits

LEMMA RtcStarts == RtcInit => RtcIInv
<1> SUFFICES ASSUME RtcInit PROVE RtcIInv
  OBVIOUS
<1>1. DEFAULT_FREQUENCY \in Nat \ {0}
  BY FrequencyAssumption
<1>2. RtcTypes
  <2>1. date \in [Alarm -> Int] /\ alarm_next \in [Alarm -> Alarm \cup {NoAlarm}]
    BY DEF RtcInit
  <2>2. pending \subseteq Alarm /\ setting \in Alarm \cup {NoAlarm}
    BY DEF RtcInit
  <2>3. /\ MC_UPTO_CCR0 \in BOOLEAN /\ TBIFG \in BOOLEAN /\ spoilt \in BOOLEAN
        /\ next_alarm \in Alarm \cup {NoAlarm}
    BY DEF RtcInit
  <2>4. /\ tbr \in Nat /\ TBCCR0 \in Nat /\ frequency \in Nat
        /\ time_seconds \in Int /\ untold \in Int /\ elapsed_left \in Nat
    BY <1>1 DEF RtcInit
  <2>5. doing \in {"nothing", "compare", "frequency", "resume"}
    BY DEF RtcInit
  <2> QED
    BY <2>1, <2>2, <2>3, <2>4, <2>5 DEF RtcTypes
<1>3. SecondsOnTheWay
  BY <1>1 DEF RtcInit, SecondsOnTheWay, OnTheWay
<1> QED
  BY <1>2, <1>3 DEF RtcInit, RtcIInv, AlarmWaits

\* What a call of the handler does to the list and to time_seconds.
LEMMA SecondPasses ==
  ASSUME RtcIInv, NEW a, Alarm = {a}, timerb0irq
  PROVE  /\ time_seconds' = time_seconds + 1 /\ time_seconds' \in Int
         /\ date' \in [Alarm -> Int] /\ next_alarm' \in Alarm \cup {NoAlarm}
         /\ alarm_next' \in [Alarm -> Alarm \cup {NoAlarm}]
         /\ pending' \subseteq Alarm
         /\ AlarmWaits'
<1>1. RtcTypes /\ AlarmWaits /\ time_seconds' = time_seconds + 1 /\ time_seconds \in Int
  BY DEF RtcIInv, RtcTypes, timerb0irq
<1>2. CASE ~DueAlarm /\ UNCHANGED alarmVars
  <2>1. UNCHANGED <<next_alarm, alarm_next, date, pending, skipped>>
    BY <1>2 DEF alarmVars
  <2>2. ASSUME NEW b \in pending, b \notin skipped PROVE date[b] > time_seconds + 1
    <3>1. next_alarm = b /\ date[b] > time_seconds
      BY <1>1, <2>2 DEF AlarmWaits
    <3>2. b \in Alarm
      BY <1>1 DEF RtcTypes
    <3>3. date[b] \in Int /\ date[b] # time_seconds + 1
      BY <1>1, <1>2, <3>1, <3>2, AlarmAssumption DEF RtcTypes, DueAlarm
    <3> QED
      BY <1>1, <3>1, <3>3
  <2>3. AlarmWaits'
    BY <1>1, <2>1, <2>2 DEF AlarmWaits
  <2> QED
    BY <1>1, <2>1, <2>3 DEF RtcTypes
<1>3. CASE DueAlarm /\ Rings
  <2>1. /\ next_alarm = a /\ pending' = pending \ {a} /\ skipped' = skipped \ {a}
        /\ next_alarm' = alarm_next[a] /\ UNCHANGED <<alarm_next, date>>
    BY <1>1, <1>3 DEF DueAlarm, Rings, RtcTypes
  <2>2. pending' = {}
    BY <1>1, <2>1 DEF AlarmWaits
  <2> QED
    BY <1>1, <2>1, <2>2 DEF RtcTypes, AlarmWaits
<1>4. ASSUME DueAlarm, NEW d \in Delay, RingsAgain(d)
      PROVE  /\ date' \in [Alarm -> Int] /\ next_alarm' \in Alarm \cup {NoAlarm}
             /\ alarm_next' \in [Alarm -> Alarm \cup {NoAlarm}]
             /\ pending' \subseteq Alarm /\ AlarmWaits'
  <2>1. next_alarm = a
    BY <1>1, <1>4 DEF DueAlarm, RtcTypes
  <2>2. /\ d > 0 /\ d \in Nat /\ date' = [date EXCEPT ![a] = time_seconds + 1 + d]
        /\ alarm_next' = [Unlinked(a) EXCEPT ![a] = a] /\ next_alarm' = a
        /\ pending' = pending \cup {a} /\ skipped' = skipped \ {a}
    BY <1>4, <2>1, AlarmAssumption DEF RingsAgain
  <2>3. date' \in [Alarm -> Int] /\ date'[a] = time_seconds + 1 + d
    BY <1>1, <2>2 DEF RtcTypes
  <2>4. alarm_next' \in [Alarm -> Alarm \cup {NoAlarm}]
    BY <1>1, <2>2 DEF RtcTypes, Unlinked
  <2>5. \A b \in pending' : b = a
    BY <1>1, <2>1, <2>2 DEF AlarmWaits
  <2>6. date'[a] > time_seconds'
    BY <1>1, <2>2, <2>3
  <2> QED
    BY <2>2, <2>3, <2>4, <2>5, <2>6 DEF AlarmWaits
<1>5. /\ date' \in [Alarm -> Int] /\ next_alarm' \in Alarm \cup {NoAlarm}
      /\ alarm_next' \in [Alarm -> Alarm \cup {NoAlarm}]
      /\ pending' \subseteq Alarm /\ AlarmWaits'
  BY <1>2, <1>3, <1>4 DEF timerb0irq
<1> QED
  BY <1>1, <1>5

\* What else a step does not touch.
LEMMA AlarmsKept ==
  ASSUME RtcIInv, UNCHANGED <<time_seconds, alarmVars>>
  PROVE  /\ time_seconds' \in Int /\ date' \in [Alarm -> Int]
         /\ next_alarm' \in Alarm \cup {NoAlarm}
         /\ alarm_next' \in [Alarm -> Alarm \cup {NoAlarm}]
         /\ pending' \subseteq Alarm
         /\ AlarmWaits'
  BY DEF RtcIInv, RtcTypes, AlarmWaits, alarmVars

\* The search on a list of one alarm ends at it.
LEMMA SearchEnds ==
  ASSUME NEW a, Alarm = {a}, next_alarm = a, NEW dates \in [Alarm -> Int], NEW links
  PROVE  Search(a, dates, links) = a
<1> DEFINE n == Cardinality(Alarm)
           F(g) == [i \in 0 .. n |->
                     IF i = 0 THEN next_alarm
                     ELSE IF links[g[i - 1]] # NoAlarm /\ dates[g[i - 1]] < dates[a]
                          THEN links[g[i - 1]]
                          ELSE g[i - 1]]
           place == CHOOSE g : g = F(g)
           still == [i \in 0 .. n |-> a]
<1>1. n = 1
  BY FS_Singleton
<1>2. ~(dates[a] < dates[a])
  OBVIOUS
<1>3. still = F(still)
  <2>1. \A i \in 0 .. n : i = 0 \/ (i # 0 /\ still[i - 1] = a)
    BY <1>1
  <2> QED
    BY <1>2, <2>1
<1>4. place = F(place)
  <2> HIDE DEF F, still
  <2> QED
    BY <1>3
<1>5. place[0] = a /\ place[1] = a
  <2> HIDE DEF place
  <2>1. place[0] = a
    BY <1>1, <1>4
  <2>2. place[1] = IF links[place[0]] # NoAlarm /\ dates[place[0]] < dates[a] THEN links[place[0]] ELSE place[0]
    BY <1>1, <1>4
  <2> QED
    BY <1>2, <2>1, <2>2
<1> QED
  BY <1>1, <1>5 DEF Search

\* What keeps SecondsOnTheWay: it does not look at the alarms.
Wayless == UNCHANGED <<tbr, TBCCR0, MC_UPTO_CCR0, TBIFG, frequency, untold, spoilt,
                       doing, elapsed_left>>

LEMMA WayKept ==
  ASSUME RtcIInv, Wayless
  PROVE  /\ tbr' \in Nat /\ TBCCR0' \in Nat /\ frequency' \in Nat
         /\ TBIFG' \in BOOLEAN /\ spoilt' \in BOOLEAN /\ MC_UPTO_CCR0' \in BOOLEAN
         /\ untold' \in Int /\ elapsed_left' \in Nat
         /\ doing' \in {"nothing", "compare", "frequency", "resume"}
         /\ SecondsOnTheWay'
  BY DEF RtcIInv, RtcTypes, SecondsOnTheWay, OnTheWay, Wayless

\* main sets the alarm.
LEMMA SetAlarmKeeps ==
  ASSUME RtcIInv, NEW a \in Alarm, NEW d \in Delay, SetAlarm(a, d)
  PROVE  RtcIInv'
<1>1. RtcTypes /\ AlarmWaits /\ d \in Nat
  BY AlarmAssumption DEF RtcIInv
<1>2. /\ a \notin pending /\ setting' = a
      /\ date' = [date EXCEPT ![a] = time_seconds + d] /\ alarm_next' = Unlinked(a)
      /\ UNCHANGED <<time_seconds, next_alarm, pending, skipped>> /\ Wayless
  BY DEF SetAlarm, timerVars, Wayless
<1>3. date' \in [Alarm -> Int] /\ alarm_next' \in [Alarm -> Alarm \cup {NoAlarm}]
  BY <1>1, <1>2 DEF RtcTypes, Unlinked
<1>4. AlarmWaits'
  <2> SUFFICES ASSUME NEW b \in pending
               PROVE  next_alarm = b /\ (b \notin skipped => date'[b] > time_seconds)
    BY <1>2 DEF AlarmWaits
  <2>1. b # a /\ b \in Alarm
    BY <1>1, <1>2 DEF RtcTypes
  <2>2. date'[b] = date[b]
    BY <1>1, <1>2, <2>1 DEF RtcTypes
  <2> QED
    BY <1>1, <2>2 DEF AlarmWaits
<1> QED
  BY <1>1, <1>2, <1>3, <1>4, WayKept DEF RtcIInv, RtcTypes

LEMMA TestDateKeeps == RtcIInv /\ TestDate => RtcIInv'
<1> SUFFICES ASSUME RtcIInv, TestDate PROVE RtcIInv'
  OBVIOUS
<1>1. /\ UNCHANGED <<time_seconds, alarmVars>> /\ Wayless
      /\ setting' \in {setting, NoAlarm}
  BY DEF TestDate, timerVars, Wayless
<1>2. setting' \in Alarm \cup {NoAlarm}
  BY <1>1 DEF RtcIInv, RtcTypes
<1> QED
  BY <1>1, <1>2, WayKept, AlarmsKept DEF RtcIInv, RtcTypes

LEMMA PlaceAlarmKeeps ==
  ASSUME RtcIInv, NEW a, Alarm = {a}, PlaceAlarm
  PROVE  RtcIInv'
<1>1. RtcTypes /\ AlarmWaits
  BY DEF RtcIInv
<1>2. /\ setting # NoAlarm /\ Insert(setting, date, alarm_next)
      /\ setting' = NoAlarm /\ pending' = pending \cup {setting}
      /\ skipped' = (IF date[setting] <= time_seconds THEN skipped \cup {setting} ELSE skipped)
      /\ UNCHANGED <<time_seconds, date>> /\ Wayless
  BY DEF PlaceAlarm, timerVars, Wayless
<1>3. setting = a
  BY <1>1, <1>2 DEF RtcTypes
<1>4. next_alarm' = a /\ alarm_next' \in [Alarm -> Alarm \cup {NoAlarm}]
  <2>1. CASE next_alarm = NoAlarm \/ date[next_alarm] > date[a]
    <3>1. next_alarm' = a /\ alarm_next' = [alarm_next EXCEPT ![a] = a]
      BY <1>2, <1>3, <2>1 DEF Insert
    <3> QED
      BY <1>1, <3>1 DEF RtcTypes
  <2>2. CASE ~(next_alarm = NoAlarm \/ date[next_alarm] > date[a])
    <3>1. next_alarm = a
      BY <1>1, <2>2 DEF RtcTypes
    <3>2. Search(a, date, alarm_next) = a
      BY <1>1, <3>1, SearchEnds DEF RtcTypes
    <3>3. /\ next_alarm' = next_alarm
          /\ \/ alarm_next' = alarm_next
             \/ alarm_next' = [[alarm_next EXCEPT ![a] = alarm_next[a]] EXCEPT ![a] = a]
      BY <1>2, <1>3, <2>2, <3>2 DEF Insert
    <3> QED
      BY <1>1, <3>1, <3>3 DEF RtcTypes
  <2> QED
    BY <2>1, <2>2
<1>5. AlarmWaits'
  <2> SUFFICES ASSUME NEW b \in pending'
               PROVE  next_alarm' = b /\ (b \notin skipped' => date[b] > time_seconds)
    BY <1>2 DEF AlarmWaits
  <2>1. b = a
    BY <1>1, <1>2, <1>3 DEF RtcTypes
  <2>2. date[a] \in Int /\ time_seconds \in Int
    BY <1>1 DEF RtcTypes
  <2> QED
    BY <1>2, <1>3, <1>4, <2>1, <2>2
<1> QED
  BY <1>1, <1>2, <1>3, <1>4, <1>5, WayKept DEF RtcIInv, RtcTypes

\* Timer B.
LEMMA RtcTickKeeps == RtcIInv /\ Tick => RtcIInv'
<1> SUFFICES ASSUME RtcIInv, Tick PROVE RtcIInv'
  OBVIOUS
<1>1. RtcTypes /\ SecondsOnTheWay
  BY DEF RtcIInv
<1> DEFINE over == tbr' = TBCCR0 /\ tbr < TBCCR0
<1>2. /\ MC_UPTO_CCR0
      /\ \/ tbr < TBCCR0 /\ tbr' = tbr + 1
         \/ tbr >= TBCCR0 /\ tbr' = 0
         \/ tbr > TBCCR0 /\ tbr' = tbr + 1
      /\ (over => ~TBIFG)
      /\ TBIFG' = (TBIFG \/ over)
      /\ spoilt' = (spoilt \/ tbr > TBCCR0)
      /\ untold' = (IF spoilt' THEN 0 ELSE IF over THEN untold + 1 ELSE untold)
      /\ UNCHANGED <<TBCCR0, MC_UPTO_CCR0, frequency, time_seconds, alarmVars, setting,
                     doing, elapsed_left>>
  BY DEF Tick
<1>3. tbr' \in Nat /\ TBIFG' \in BOOLEAN /\ spoilt' \in BOOLEAN /\ untold' \in Int
  <2>1. over \in BOOLEAN /\ (tbr > TBCCR0) \in BOOLEAN
    OBVIOUS
  <2> HIDE DEF over
  <2>2. TBIFG' \in BOOLEAN /\ spoilt' \in BOOLEAN
    BY <1>1, <1>2, <2>1 DEF RtcTypes
  <2> QED
    BY <1>1, <1>2, <2>2 DEF RtcTypes
<1>4. SecondsOnTheWay'
  <2>1. CASE spoilt'
    <3>1. ASSUME doing # "compare" PROVE tbr' <= TBCCR0
      <4>1. tbr \in Nat /\ TBCCR0 \in Nat /\ tbr <= TBCCR0
        BY <1>1, <3>1 DEF RtcTypes, SecondsOnTheWay
      <4>2. (tbr < TBCCR0 /\ tbr' = tbr + 1) \/ tbr' = 0
        BY <1>2, <4>1
      <4> QED
        BY <4>1, <4>2
    <3>2. doing # "resume"
      BY <1>1, <1>2 DEF SecondsOnTheWay
    <3> QED
      BY <1>2, <2>1, <3>1, <3>2 DEF SecondsOnTheWay
  <2>2. CASE ~spoilt'
    <3>1. ~spoilt /\ tbr <= TBCCR0 /\ doing # "resume"
      <4>1. ~spoilt /\ ~(tbr > TBCCR0)
        BY <1>2, <2>2
      <4>2. tbr \in Nat /\ TBCCR0 \in Nat
        BY <1>1 DEF RtcTypes
      <4>3. doing # "resume"
        BY <1>1, <1>2 DEF SecondsOnTheWay
      <4> QED
        BY <4>1, <4>2, <4>3
    <3>2. tbr' <= TBCCR0
      BY <1>1, <1>2, <3>1 DEF RtcTypes
    <3>3. untold = (IF TBIFG THEN 1 ELSE 0)
      BY <1>1, <3>1 DEF RtcTypes, SecondsOnTheWay, OnTheWay
    <3>4. untold' = (IF TBIFG' THEN 1 ELSE 0)
      <4>1. CASE over
        <5>1. ~TBIFG /\ TBIFG'
          BY <1>2, <4>1
        <5> QED
          BY <1>2, <2>2, <3>3, <4>1, <5>1
      <4>2. CASE ~over
        BY <1>2, <2>2, <3>3, <4>2
      <4> QED
        BY <4>1, <4>2
    <3>5. OnTheWay' = (IF TBIFG' THEN 1 ELSE 0)
      <4>1. ~(tbr' > TBCCR0)
        BY <1>1, <1>3, <3>2 DEF RtcTypes
      <4> QED
        BY <1>2, <3>1, <4>1 DEF OnTheWay
    <3> QED
      BY <1>2, <2>2, <3>1, <3>2, <3>4, <3>5 DEF SecondsOnTheWay
  <2> QED
    BY <2>1, <2>2
<1> QED
  BY <1>1, <1>2, <1>3, <1>4, AlarmsKept DEF RtcIInv, RtcTypes

\* The interrupt.
LEMMA RtcInterruptKeeps ==
  ASSUME RtcIInv, NEW a, Alarm = {a}, Interrupt
  PROVE  RtcIInv'
<1>1. RtcTypes /\ SecondsOnTheWay
  BY DEF RtcIInv
<1>2. /\ TBIFG /\ TBIFG' = FALSE /\ timerb0irq
      /\ untold' = (IF spoilt THEN 0 ELSE untold - 1)
      /\ UNCHANGED <<tbr, TBCCR0, MC_UPTO_CCR0, frequency, spoilt, setting, doing, elapsed_left>>
  BY DEF Interrupt, Told, callVars
<1>3. SecondsOnTheWay'
  <2>1. ~spoilt => untold - 1 = OnTheWay'
    <3>1. PICK c \in {0, 1} : c = (IF doing = "compare" /\ tbr > TBCCR0 THEN 1 ELSE 0)
      OBVIOUS
    <3>2. PICK e \in Nat : e = (IF doing = "resume" THEN elapsed_left ELSE 0)
      BY <1>1 DEF RtcTypes
    <3>3. OnTheWay = 1 + c + e /\ OnTheWay' = 0 + c + e
      BY <1>2, <3>1, <3>2 DEF OnTheWay
    <3> QED
      BY <1>1, <3>3 DEF SecondsOnTheWay
  <2> QED
    BY <1>1, <1>2, <2>1 DEF SecondsOnTheWay
<1>4. untold' \in Int
  BY <1>1, <1>2 DEF RtcTypes
<1> QED
  BY <1>1, <1>2, <1>3, <1>4, SecondPasses DEF RtcIInv, RtcTypes

\* The frequency is changed.
LEMMA SetFrequencyKeeps ==
  ASSUME RtcIInv, NEW freq \in Frequency, rtc_set_aclk_frequency(freq)
  PROVE  RtcIInv'
<1>1. RtcTypes /\ SecondsOnTheWay /\ freq \in Nat
  BY FrequencyAssumption DEF RtcIInv
<1>2. /\ ~TBIFG /\ doing = "nothing" /\ TBCCR0' = freq /\ doing' = "compare"
      /\ spoilt' = (spoilt \/ tbr = TBCCR0 \/ tbr = freq)
      /\ untold' = (IF spoilt' THEN 0 ELSE IF tbr > freq THEN untold + 1 ELSE untold)
      /\ UNCHANGED <<tbr, MC_UPTO_CCR0, TBIFG, frequency, time_seconds, alarmVars, setting,
                     elapsed_left>>
  BY DEF rtc_set_aclk_frequency, MayBegin, InCall
<1>3. spoilt' \in BOOLEAN /\ untold' \in Int
  <2>1. (spoilt \/ tbr = TBCCR0 \/ tbr = freq) \in BOOLEAN
    OBVIOUS
  <2> QED
    BY <1>1, <1>2, <2>1 DEF RtcTypes
<1>4. SecondsOnTheWay'
  <2>1. ~spoilt' => untold = 0
    BY <1>1, <1>2 DEF SecondsOnTheWay, OnTheWay
  <2>2. OnTheWay' = (IF tbr > freq THEN 1 ELSE 0)
    BY <1>2 DEF OnTheWay
  <2> QED
    BY <1>2, <2>1, <2>2 DEF SecondsOnTheWay
<1> QED
  BY <1>1, <1>2, <1>3, <1>4, AlarmsKept DEF RtcIInv, RtcTypes

LEMMA ComparePeriodKeeps ==
  ASSUME RtcIInv, NEW a, Alarm = {a}, ComparePeriod
  PROVE  RtcIInv'
<1>1. RtcTypes /\ SecondsOnTheWay
  BY DEF RtcIInv
<1>2. /\ doing = "compare" /\ ~TBIFG /\ doing' = "frequency"
      /\ UNCHANGED <<TBCCR0, MC_UPTO_CCR0, TBIFG, frequency, spoilt, setting, elapsed_left>>
  BY DEF ComparePeriod
<1>3. CASE tbr > TBCCR0
  <2>1. tbr' = 0 /\ timerb0irq /\ untold' = (IF spoilt THEN 0 ELSE untold - 1)
    BY <1>3 DEF ComparePeriod, Told
  <2>2. ~spoilt => untold = 1
    BY <1>1, <1>2, <1>3 DEF SecondsOnTheWay, OnTheWay
  <2>3. OnTheWay' = 0 /\ 0 <= TBCCR0
    BY <1>1, <1>2, <2>1 DEF OnTheWay, RtcTypes
  <2>4. SecondsOnTheWay'
    BY <1>2, <2>1, <2>2, <2>3 DEF SecondsOnTheWay
  <2>5. untold' \in Int /\ tbr' \in Nat
    BY <1>1, <2>1 DEF RtcTypes
  <2>6. /\ time_seconds' \in Int /\ date' \in [Alarm -> Int]
        /\ next_alarm' \in Alarm \cup {NoAlarm}
        /\ alarm_next' \in [Alarm -> Alarm \cup {NoAlarm}]
        /\ pending' \subseteq Alarm /\ AlarmWaits'
    BY <2>1, SecondPasses
  <2>7. RtcTypes'
    BY <1>1, <1>2, <2>5, <2>6 DEF RtcTypes
  <2> QED
    BY <2>4, <2>6, <2>7 DEF RtcIInv
<1>4. CASE ~(tbr > TBCCR0)
  <2>1. UNCHANGED <<tbr, untold, time_seconds, alarmVars>>
    BY <1>4 DEF ComparePeriod
  <2>2. tbr <= TBCCR0
    BY <1>1, <1>4 DEF RtcTypes
  <2>3. SecondsOnTheWay'
    BY <1>1, <1>2, <1>4, <2>1, <2>2 DEF SecondsOnTheWay, OnTheWay
  <2> QED
    BY <1>1, <1>2, <2>1, <2>3, AlarmsKept DEF RtcIInv, RtcTypes
<1> QED
  BY <1>3, <1>4

LEMMA StoreFrequencyKeeps == RtcIInv /\ StoreFrequency => RtcIInv'
<1> SUFFICES ASSUME RtcIInv, StoreFrequency PROVE RtcIInv'
  OBVIOUS
<1>1. RtcTypes /\ SecondsOnTheWay
  BY DEF RtcIInv
<1>2. /\ doing = "frequency" /\ doing' = "nothing" /\ frequency' = TBCCR0
      /\ UNCHANGED <<tbr, TBCCR0, MC_UPTO_CCR0, TBIFG, untold, spoilt, time_seconds, alarmVars,
                     setting, elapsed_left>>
  BY DEF StoreFrequency
<1>3. SecondsOnTheWay'
  BY <1>1, <1>2 DEF SecondsOnTheWay, OnTheWay
<1> QED
  BY <1>1, <1>2, <1>3, AlarmsKept DEF RtcIInv, RtcTypes

\* The clock is set, stopped and started.
LEMMA SetTimeKeeps ==
  ASSUME RtcIInv, NEW date_set \in Time, rtc_set_time(date_set)
  PROVE  RtcIInv'
<1>1. RtcTypes /\ SecondsOnTheWay /\ AlarmWaits /\ date_set \in Nat
  BY AlarmAssumption DEF RtcIInv
<1>2. /\ ~TBIFG /\ doing = "nothing" /\ time_seconds' = date_set
      /\ skipped' = skipped \cup {a \in pending : date[a] <= date_set}
      /\ spoilt' = FALSE
      /\ UNCHANGED <<tbr, TBCCR0, MC_UPTO_CCR0, TBIFG, frequency, untold, next_alarm,
                     alarm_next, date, pending, setting, doing, elapsed_left>>
  BY DEF rtc_set_time, MayBegin, InCall, callVars
<1>3. SecondsOnTheWay'
  <2>1. untold = 0 /\ OnTheWay' = 0
    BY <1>1, <1>2 DEF SecondsOnTheWay, OnTheWay
  <2> QED
    BY <1>1, <1>2, <2>1 DEF SecondsOnTheWay
<1>4. AlarmWaits'
  <2> SUFFICES ASSUME NEW b \in pending
               PROVE  next_alarm = b /\ (b \notin skipped' => date[b] > date_set)
    BY <1>2 DEF AlarmWaits
  <2>1. date[b] \in Int
    BY <1>1 DEF RtcTypes
  <2> QED
    BY <1>1, <1>2, <2>1 DEF AlarmWaits
<1>5. time_seconds' \in Int /\ pending' \subseteq Alarm
  BY <1>1, <1>2 DEF RtcTypes
<1>6. RtcTypes'
  BY <1>1, <1>2, <1>5 DEF RtcTypes
<1> QED
  BY <1>3, <1>4, <1>6 DEF RtcIInv

LEMMA HaltKeeps == RtcIInv /\ rtc_halt => RtcIInv'
<1> SUFFICES ASSUME RtcIInv, rtc_halt PROVE RtcIInv'
  OBVIOUS
<1>1. RtcTypes /\ SecondsOnTheWay
  BY DEF RtcIInv
<1>2. /\ doing = "nothing" /\ MC_UPTO_CCR0' = FALSE /\ tbr' = 0
      /\ UNCHANGED <<TBCCR0, TBIFG, frequency, untold, spoilt, time_seconds, alarmVars,
                     setting, doing, elapsed_left>>
  BY DEF rtc_halt, MayBegin, InCall, callVars
<1>3. SecondsOnTheWay'
  BY <1>1, <1>2 DEF SecondsOnTheWay, OnTheWay, RtcTypes
<1> QED
  BY <1>1, <1>2, <1>3, AlarmsKept DEF RtcIInv, RtcTypes

LEMMA RtcResumeKeeps ==
  ASSUME RtcIInv, NEW passed \in 0 .. MaxElapsed, rtc_resume(passed)
  PROVE  RtcIInv'
<1>1. RtcTypes /\ SecondsOnTheWay /\ passed \in Nat
  BY AlarmAssumption DEF RtcIInv
<1>2. /\ ~TBIFG /\ doing = "nothing" /\ ~MC_UPTO_CCR0 /\ doing' = "resume"
      /\ elapsed_left' = passed /\ untold' = (IF spoilt THEN 0 ELSE untold + passed)
      /\ UNCHANGED <<tbr, TBCCR0, MC_UPTO_CCR0, TBIFG, frequency, spoilt, time_seconds,
                     alarmVars, setting>>
  BY DEF rtc_resume, MayBegin, InCall
<1>3. SecondsOnTheWay'
  <2>1. ~spoilt => untold = 0
    BY <1>1, <1>2 DEF SecondsOnTheWay, OnTheWay
  <2>2. OnTheWay' = passed
    BY <1>1, <1>2 DEF OnTheWay
  <2>3. tbr <= TBCCR0
    BY <1>1, <1>2 DEF SecondsOnTheWay
  <2> QED
    BY <1>1, <1>2, <2>1, <2>2, <2>3 DEF SecondsOnTheWay
<1>4. untold' \in Int
  BY <1>1, <1>2 DEF RtcTypes
<1> QED
  BY <1>1, <1>2, <1>3, <1>4, AlarmsKept DEF RtcIInv, RtcTypes

LEMMA ResumeLoopKeeps ==
  ASSUME RtcIInv, NEW a, Alarm = {a}, ResumeLoop
  PROVE  RtcIInv'
<1>1. RtcTypes /\ SecondsOnTheWay
  BY DEF RtcIInv
<1>2. /\ doing = "resume" /\ elapsed_left > 0 /\ timerb0irq
      /\ untold' = (IF spoilt THEN 0 ELSE untold - 1) /\ elapsed_left' = elapsed_left - 1
      /\ UNCHANGED <<tbr, TBCCR0, MC_UPTO_CCR0, TBIFG, frequency, spoilt, setting, doing>>
  BY DEF ResumeLoop, Told
<1>3. elapsed_left' \in Nat /\ untold' \in Int
  BY <1>1, <1>2 DEF RtcTypes
<1>4. SecondsOnTheWay'
  <2>1. OnTheWay = elapsed_left /\ OnTheWay' = elapsed_left - 1
    BY <1>1, <1>2 DEF RtcTypes, SecondsOnTheWay, OnTheWay
  <2> QED
    BY <1>1, <1>2, <2>1 DEF SecondsOnTheWay
<1> QED
  BY <1>1, <1>2, <1>3, <1>4, SecondPasses DEF RtcIInv, RtcTypes

LEMMA StartTimerKeeps == RtcIInv /\ StartTimer => RtcIInv'
<1> SUFFICES ASSUME RtcIInv, StartTimer PROVE RtcIInv'
  OBVIOUS
<1>1. RtcTypes /\ SecondsOnTheWay
  BY DEF RtcIInv
<1>2. /\ doing = "resume" /\ elapsed_left = 0 /\ doing' = "nothing"
      /\ tbr' = 0 /\ TBCCR0' = frequency /\ MC_UPTO_CCR0' = TRUE /\ TBIFG' = FALSE
      /\ UNCHANGED <<frequency, untold, spoilt, time_seconds, alarmVars, setting, elapsed_left>>
  BY DEF StartTimer
<1>3. SecondsOnTheWay'
  BY <1>1, <1>2 DEF RtcTypes, SecondsOnTheWay, OnTheWay
<1> QED
  BY <1>1, <1>2, <1>3, AlarmsKept DEF RtcIInv, RtcTypes

LEMMA RtcKeeps ==
  ASSUME NEW a, Alarm = {a}, RtcIInv, [RtcNext]_rtcVars
  PROVE  RtcIInv'
<1>1. CASE UNCHANGED rtcVars
  <2>1. Wayless /\ UNCHANGED <<time_seconds, alarmVars, setting>>
    BY <1>1 DEF rtcVars, timerVars, callVars, Wayless
  <2> QED
    BY <2>1, WayKept, AlarmsKept DEF RtcIInv, RtcTypes
<1>2. CASE RtcNext
  <2>1. CASE \E b \in Alarm, d \in Delay : SetAlarm(b, d)
    BY <2>1, SetAlarmKeeps
  <2>2. CASE TestDate \/ PlaceAlarm \/ Tick \/ Interrupt
    BY <2>2, TestDateKeeps, PlaceAlarmKeeps, RtcTickKeeps, RtcInterruptKeeps
  <2>3. CASE (\E freq \in Frequency : rtc_set_aclk_frequency(freq)) \/ ComparePeriod \/ StoreFrequency
    BY <2>3, SetFrequencyKeeps, ComparePeriodKeeps, StoreFrequencyKeeps
  <2>4. CASE (\E date_set \in Time : rtc_set_time(date_set)) \/ rtc_halt
    BY <2>4, SetTimeKeeps, HaltKeeps
  <2>5. CASE (\E passed \in 0 .. MaxElapsed : rtc_resume(passed)) \/ ResumeLoop \/ StartTimer
    BY <2>5, RtcResumeKeeps, ResumeLoopKeeps, StartTimerKeeps
  <2> QED
    BY <1>2, <2>1, <2>2, <2>3, <2>4, <2>5 DEF RtcNext
<1> QED
  BY <1>1, <1>2

LEMMA RtcDoesKeepTime == RtcIInv => RtcKeepsTime
<1> SUFFICES ASSUME RtcIInv PROVE RtcKeepsTime
  OBVIOUS
<1>1. ~spoilt /\ ~TBIFG /\ ~InCall => untold = 0
  BY DEF RtcIInv, SecondsOnTheWay, OnTheWay, InCall
<1>2. \A a \in pending \ skipped : date[a] > time_seconds
  BY DEF RtcIInv, AlarmWaits
<1> QED
  BY <1>1, <1>2 DEF RtcKeepsTime

-----------------------------------------------------------------------------
(***************************************************************************)
(* A step of the services is a step of one part, and the others wait: what *)
(* the steps of a part preserve holds in every behaviour of the services.  *)
(***************************************************************************)

\* Which step a step of the part s is.
StepOf(s) ==
  /\ s = "packetbuf" => PacketbufNext
  /\ s = "mmem" => MmemNext
  /\ s = "rtimer" => RtimerNext
  /\ s = "list" => LinkedListNext
  /\ s = "clock" => ClockNext
  /\ s = "timers" => TimersNext
  /\ s = "protothread" => ProtothreadNext
  /\ s = "uart" => UartNext
  /\ s = "codes" => CodesNext
  /\ s = "rand" => RandNext
  /\ s = "mt" => MtNext
  /\ s = "vlosync" => VloNext
  /\ s = "radiobus" => RadioBusNext
  /\ s = "host" => HostNext
  /\ s = "robot" => RobotNext
  /\ s = "rtc" => RtcNext
  /\ s = "timebase" => TimebaseNext
  /\ s = "adc" => AdcNext
  /\ s = "button" => ButtonNext
  /\ s = "board" => BoardNext

LEMMA StepOfOne ==
  ServicesNext => \E s \in Service : Only(s) /\ StepOf(s)
<1> SUFFICES ASSUME ServicesNext PROVE \E s \in Service : Only(s) /\ StepOf(s)
  OBVIOUS
<1> USE DEF StepOf, Service
<1>1. CASE PacketbufStep \/ MmemStep \/ RtimerStep \/ ListStep \/ ClockStep
  BY <1>1 DEF PacketbufStep, MmemStep, RtimerStep, ListStep, ClockStep
<1>2. CASE TimersStep \/ ProtothreadStep \/ UartStep \/ CodesStep \/ RandStep
  BY <1>2 DEF TimersStep, ProtothreadStep, UartStep, CodesStep, RandStep
<1>3. CASE MtStep \/ VloStep \/ RadioBusStep \/ HostStep \/ RobotStep
  BY <1>3 DEF MtStep, VloStep, RadioBusStep, HostStep, RobotStep
<1>4. CASE RtcStep \/ TimebaseStep \/ AdcStep \/ ButtonStep \/ BoardStep
  BY <1>4 DEF RtcStep, TimebaseStep, AdcStep, ButtonStep, BoardStep
<1> QED
  BY <1>1, <1>2, <1>3, <1>4 DEF ServicesNext

LEMMA OthersWait ==
  ASSUME NEW s, Only(s)
  PROVE  /\ s # "packetbuf" => UNCHANGED packetbufVars
         /\ s # "mmem" => UNCHANGED mmemVars
         /\ s # "rtimer" => UNCHANGED rtimerVars
         /\ s # "list" => UNCHANGED listVars
         /\ s # "clock" => UNCHANGED clockVars
         /\ s # "timers" => UNCHANGED timersVars
         /\ s # "protothread" => UNCHANGED ptVars
         /\ s # "uart" => UNCHANGED uartVars
         /\ s # "codes" => UNCHANGED codesVars
         /\ s # "rand" => UNCHANGED randVars
         /\ s # "mt" => UNCHANGED mtVars
         /\ s # "vlosync" => UNCHANGED vloVars
         /\ s # "radiobus" => UNCHANGED radioBusVars
         /\ s # "host" => UNCHANGED hostVars
         /\ s # "robot" => UNCHANGED robotVars
         /\ s # "rtc" => UNCHANGED rtcVars
         /\ s # "timebase" => UNCHANGED timebaseVars
         /\ s # "adc" => UNCHANGED adcVars
         /\ s # "button" => UNCHANGED buttonVars
         /\ s # "board" => UNCHANGED boardVars
BY DEF Only, Unless

servicesVars ==
  <<service, packetbufVars, mmemVars, rtimerVars, listVars, clockVars, timersVars, ptVars,
    uartVars, codesVars, randVars, mtVars, vloVars, radioBusVars, hostVars, robotVars,
    rtcVars, timebaseVars, adcVars, buttonVars, boardVars>>

\* Each part takes steps of its own, or none.
LEMMA StepsOfParts ==
  ASSUME [ServicesNext]_servicesVars
  PROVE  /\ [PacketbufNext]_packetbufVars
         /\ [MmemNext]_mmemVars
         /\ [RtimerNext]_rtimerVars
         /\ [LinkedListNext]_listVars
         /\ [ClockNext]_clockVars
         /\ [TimersNext]_timersVars
         /\ [ProtothreadNext]_ptVars
         /\ [UartNext]_uartVars
         /\ [CodesNext]_codesVars
         /\ [RandNext]_randVars
         /\ [MtNext]_mtVars
         /\ [VloNext]_vloVars
         /\ [RadioBusNext]_radioBusVars
         /\ [HostNext]_hostVars
         /\ [RobotNext]_robotVars
         /\ [RtcNext]_rtcVars
         /\ [TimebaseNext]_timebaseVars
         /\ [AdcNext]_adcVars
         /\ [ButtonNext]_buttonVars
         /\ [BoardNext]_boardVars
<1>1. CASE ServicesNext
  <2>1. PICK s \in Service : Only(s) /\ StepOf(s)
    BY <1>1, StepOfOne
  <2> QED
    BY <2>1, OthersWait DEF StepOf
<1>2. CASE UNCHANGED servicesVars
  BY <1>2 DEF servicesVars
<1> QED
  BY <1>1, <1>2

-----------------------------------------------------------------------------
(***************************************************************************)
(* What the parts promise, the services promise.                           *)
(***************************************************************************)

\* What each of these parts keeps true.
PeripheralsIInv ==
  /\ VloTypes /\ VloStages /\ VloCounts
  /\ SampleComes /\ FlagTells /\ ClocksKept

\* lib/vlo_sync.c, drivers/adc.c, button.c and clock.c: whoever asks for a measurement
\* or a watch is called with what was asked for, and whoever sets the clocks gets
\* them: for every length of the ticks and the second, every delay of a handler,
\* and every set of functions, frequencies and divisions.
THEOREM PeripheralsDoAnswer == ServicesSpec => []PeripheralsAnswer
<1>1. ServicesInit => PeripheralsIInv
  BY SecondStaysMeasured, SamplesStayAnswered, ClicksStayReported, ClocksStayAsSet
  DEF ServicesInit, PeripheralsIInv
<1>2. PeripheralsIInv /\ [ServicesNext]_servicesVars => PeripheralsIInv'
  <2> SUFFICES ASSUME PeripheralsIInv, [ServicesNext]_servicesVars PROVE PeripheralsIInv'
    OBVIOUS
  <2>1. [VloNext]_vloVars /\ [AdcNext]_adcVars /\ [ButtonNext]_buttonVars /\ [BoardNext]_boardVars
    BY StepsOfParts
  <2> QED
    BY <2>1, SecondStaysMeasured, SamplesStayAnswered, ClicksStayReported, ClocksStayAsSet
    DEF PeripheralsIInv
<1>3. PeripheralsIInv => PeripheralsAnswer
  BY SecondStaysMeasured, SamplesStayAnswered, ClicksStayReported, ClocksStayAsSet
  DEF PeripheralsIInv, PeripheralsAnswer
<1> QED
  BY <1>1, <1>2, <1>3, PTL DEF ServicesSpec, servicesVars

ThreadsIInv == PtIInv /\ MtIInv /\ MainKnown

\* pt.h and pt-sem.h, mt.c and watchdog.c: the protothreads keep the buffer within its
\* bounds and one of them inside, one thread at a time has the processor, and main
\* is on watch where it runs: for every size of the buffer, every set of threads and
\* every limit of the watchdog.
THEOREM ThreadsDoAlternate == ServicesSpec => []ThreadsAlternate
<1>1. ServicesInit => ThreadsIInv
  BY PtInitial, ThreadsKeepTurns, WatchdogStaysOnWatch DEF ServicesInit, ThreadsIInv
<1>2. ThreadsIInv /\ [ServicesNext]_servicesVars => ThreadsIInv'
  <2> SUFFICES ASSUME ThreadsIInv, [ServicesNext]_servicesVars PROVE ThreadsIInv'
    OBVIOUS
  <2>1. [ProtothreadNext]_ptVars /\ [MtNext]_mtVars /\ [BoardNext]_boardVars
    BY StepsOfParts
  <2> QED
    BY <2>1, PtStep, ThreadsKeepTurns, WatchdogStaysOnWatch DEF ThreadsIInv
<1>3. ThreadsIInv => ThreadsAlternate
  BY PtShared, ThreadsKeepTurns, WatchdogStaysOnWatch DEF ThreadsIInv, ThreadsAlternate
<1> QED
  BY <1>1, <1>2, <1>3, PTL DEF ServicesSpec, servicesVars

\* drivers/usci.c of both systems and the packet printer: each octet that comes is
\* given to the callback and none is sent over another, and the packet received
\* last is printed from end to end: for every length of an octet and a packet.
THEOREM PortPassesAll == ServicesSpec => []OctetsAndPacketsPass
<1>1. ServicesInit => UartIInv
  BY UartKeepsAll DEF ServicesInit
<1>2. UartIInv /\ [ServicesNext]_servicesVars => UartIInv'
  BY UartKeepsAll, StepsOfParts
<1>3. UartIInv => OctetsAndPacketsPass
  BY UartKeepsAll
<1> QED
  BY <1>1, <1>2, <1>3, PTL DEF ServicesSpec, servicesVars

\* core/sys/rtimer.c: a task set while no other waits is executed at its time, and
\* the one set last within a round of the counter, however the interrupt falls on
\* rtimer_set: for every set of tasks, range of the counter and length of a call.
THEOREM TasksAreExecuted == ServicesSpec => TaskExecuted
<1>1. ServicesInit => RtimerIInv
  BY RtimerStarts DEF ServicesInit
<1>2. RtimerIInv /\ [ServicesNext]_servicesVars => RtimerIInv'
  BY RtimerKeeps, StepsOfParts
<1>3. RtimerIInv /\ RtimerIInv'
        => [/\ timera0 /\ next_rtimer # NoTask /\ clean => TAR = time[next_rtimer]
            /\ waited' <= CLOCK_RANGE]_rtimerVars
  BY TaskInTime
<1> QED
  BY <1>1, <1>2, <1>3, PTL DEF ServicesSpec, servicesVars, TaskExecuted

\* vizual/robot.py: the parts of the robot stay together, its legs are mirrored, and
\* each walk carries it a full stride forward, however many it does; a rotation too
\* many at its end leaves it lower and farther by just that one.
THEOREM RobotStaysUpright == ServicesSpec => []WalksUpright
<1>1. ServicesInit => RobotIInv
  BY RobotKeepsUpright DEF ServicesInit
<1>2. RobotIInv /\ [ServicesNext]_servicesVars => RobotIInv'
  BY RobotKeepsUpright, StepsOfParts
<1>3. RobotIInv => WalksUpright
  BY RobotKeepsUpright
<1> QED
  BY <1>1, <1>2, <1>3, PTL DEF ServicesSpec, servicesVars

\* spi_drv.c and radio.c of the port: a command to the radio does what it is for
\* unless another runs within its frame, the frame and the octets of both end with
\* them, and nobody waits for an octet that cannot come: for every set of registers,
\* values and strobes, however the interrupt falls.
THEOREM CommandsDoArrive == ServicesSpec => []CommandsArrive
<1>1. ServicesInit => SpiIInv
  BY RadioBusKeeps DEF ServicesInit
<1>2. SpiIInv /\ [ServicesNext]_servicesVars => SpiIInv'
  BY RadioBusKeeps, StepsOfParts
<1>3. SpiIInv => CommandsArrive
  BY RadioBusKeeps
<1> QED
  BY <1>1, <1>2, <1>3, PTL DEF ServicesSpec, servicesVars

-----------------------------------------------------------------------------
(***************************************************************************)
(* core/net/rime/packetbuf.c and queuebuf.c, for every size: what the      *)
(* detailed packet buffer, with its array, its pointer and its reference   *)
(* into a buffer of the caller, makes of a packet is what the abstract     *)
(* packet, a header and a sequence of data, says; each operation is one of *)
(* the packet's or leaves it as it is. The invariant that every pointer    *)
(* stays inside its array is what makes the bytes read the bytes written;  *)
(* that a copied packet in the queue is all data is what makes its         *)
(* restoring a step of the abstract packet.                                *)
(***************************************************************************)

USE SizesAssumption, OctetAssumption

\* Reading and writing a buffer.
Bytes(b, from, len) == [k \in 1 .. len |-> b[from + k - 1]]
Put(b, to, s) ==
  [k \in Place |-> IF k \in to .. to + Len(s) - 1 THEN s[k - to + 1] ELSE b[k]]
Buffer == [Place -> Octet]
Room == PACKETBUF_HDR_SIZE + PACKETBUF_SIZE

\* A queued packet that was copied is all data.
QueuedWhole == \A i \in 1 .. Len(qbuf) : qbuf[i].copied => qbuf[i].hdr = <<>>

\* A function on the numbers up to n is a sequence of n elements.
LEMMA IsSequence ==
  ASSUME NEW n \in Nat, NEW S, NEW q \in [1 .. n -> S]
  PROVE  q \in Seq(S) /\ Len(q) = n
  OBVIOUS

LEMMA BytesAre ==
  ASSUME NEW b \in Buffer, NEW from \in Nat, NEW len \in Nat, from + len <= Room
  PROVE  /\ Bytes(b, from, len) \in Seq(Octet) /\ Len(Bytes(b, from, len)) = len
         /\ \A k \in 1 .. len : Bytes(b, from, len)[k] = b[from + k - 1]
<1>1. \A k \in 1 .. len : from + k - 1 \in Place
  BY DEF Place, Room
<1>2. Bytes(b, from, len) \in [1 .. len -> Octet]
  BY <1>1 DEF Bytes, Buffer
<1>3. Bytes(b, from, len) \in Seq(Octet) /\ Len(Bytes(b, from, len)) = len
  <2> HIDE DEF Bytes
  <2> QED
    BY <1>2, IsSequence
<1> QED
  BY <1>3 DEF Bytes

LEMMA PutIs ==
  ASSUME NEW b \in Buffer, NEW to \in Nat, NEW s \in Seq(Octet), to + Len(s) <= Room
  PROVE  /\ Put(b, to, s) \in Buffer
         /\ Bytes(Put(b, to, s), to, Len(s)) = s
<1> DEFINE c == Put(b, to, s)
<1>1. c \in Buffer
  <2> SUFFICES ASSUME NEW k \in Place, k \in to .. to + Len(s) - 1
               PROVE  s[k - to + 1] \in Octet
    BY DEF Put, Buffer
  <2>1. k - to + 1 \in 1 .. Len(s)
    BY DEF Place
  <2> QED
    BY <2>1
<1>2. \A k \in 1 .. Len(s) : c[to + k - 1] = s[k]
  <2> TAKE k \in 1 .. Len(s)
  <2>1. to + k - 1 \in Place /\ to + k - 1 \in to .. to + Len(s) - 1 /\ (to + k - 1) - to + 1 = k
    BY DEF Place, Room
  <2> QED
    BY <2>1 DEF Put
<1> HIDE DEF c
<1>3. /\ Bytes(c, to, Len(s)) \in Seq(Octet) /\ Len(Bytes(c, to, Len(s))) = Len(s)
      /\ \A k \in 1 .. Len(s) : Bytes(c, to, Len(s))[k] = c[to + k - 1]
  BY <1>1, BytesAre, Len(s) \in Nat
<1>4. Bytes(c, to, Len(s)) = s
  BY <1>2, <1>3, SeqEqual
<1> QED
  BY <1>1, <1>4 DEF c

\* What does not overlap is left as it was.
LEMMA PutApart ==
  ASSUME NEW b, NEW to \in Nat, NEW s \in Seq(Octet),
         NEW from \in Nat, NEW len \in Nat, from + len <= Room,
         from + len <= to \/ to + Len(s) <= from
  PROVE  Bytes(Put(b, to, s), from, len) = Bytes(b, from, len)
<1> SUFFICES ASSUME NEW k \in 1 .. len
             PROVE  Put(b, to, s)[from + k - 1] = b[from + k - 1]
  BY DEF Bytes
<1>1. from + k - 1 \in Place /\ from + k - 1 \notin to .. to + Len(s) - 1
  BY Len(s) \in Nat DEF Place, Room
<1> QED
  BY <1>1 DEF Put

LEMMA BytesJoined ==
  ASSUME NEW b \in Buffer, NEW from \in Nat, NEW m \in Nat, NEW n \in Nat,
         from + m + n <= Room
  PROVE  Bytes(b, from, m + n) = Bytes(b, from, m) \o Bytes(b, from + m, n)
<1> DEFINE s == Bytes(b, from, m)
           t == Bytes(b, from + m, n)
           w == Bytes(b, from, m + n)
<1>1. /\ s \in Seq(Octet) /\ Len(s) = m /\ \A k \in 1 .. m : s[k] = b[from + k - 1]
      /\ t \in Seq(Octet) /\ Len(t) = n /\ \A k \in 1 .. n : t[k] = b[from + m + k - 1]
      /\ w \in Seq(Octet) /\ Len(w) = m + n /\ \A k \in 1 .. m + n : w[k] = b[from + k - 1]
  <2>1. /\ from + m \in Nat /\ m + n \in Nat /\ from + m <= Room
        /\ from + (m + n) <= Room
    BY DEF Room
  <2>2. /\ s \in Seq(Octet) /\ Len(s) = m /\ \A k \in 1 .. m : s[k] = b[from + k - 1]
    BY <2>1, BytesAre
  <2>3. /\ t \in Seq(Octet) /\ Len(t) = n /\ \A k \in 1 .. n : t[k] = b[from + m + k - 1]
    BY <2>1, BytesAre
  <2>4. /\ w \in Seq(Octet) /\ Len(w) = m + n /\ \A k \in 1 .. m + n : w[k] = b[from + k - 1]
    <3> PICK l \in Nat : l = m + n
      BY <2>1
    <3> QED
      BY <2>1, BytesAre
  <2> QED
    BY <2>2, <2>3, <2>4
<1> HIDE DEF s, t, w
<1>2. /\ s \o t \in Seq(Octet) /\ Len(s \o t) = m + n
      /\ \A i \in 1 .. m + n : (s \o t)[i] = IF i <= m THEN s[i] ELSE t[i - m]
  BY <1>1, ConcatProperties
<1>3. \A i \in 1 .. m + n : (s \o t)[i] = w[i]
  <2> TAKE i \in 1 .. m + n
  <2>1. CASE i <= m
    <3>1. i \in 1 .. m
      BY <2>1
    <3> QED
      BY <1>1, <1>2, <2>1, <3>1
  <2>2. CASE i > m
    <3>1. i - m \in 1 .. n /\ from + m + (i - m) - 1 = from + i - 1
      BY <2>2
    <3>2. (s \o t)[i] = t[i - m]
      BY <1>2, <2>2
    <3>3. t[i - m] = b[from + i - 1]
      BY <1>1, <3>1
    <3>4. w[i] = b[from + i - 1]
      BY <1>1
    <3> QED
      BY <3>2, <3>3, <3>4
  <2>3. i <= m \/ i > m
    OBVIOUS
  <2> QED
    BY <2>1, <2>2, <2>3
<1>4. w = s \o t
  BY <1>1, <1>2, <1>3, SeqEqual
<1> QED
  BY <1>4 DEF s, t, w

LEMMA BytesCut ==
  ASSUME NEW b \in Buffer, NEW from \in Nat, NEW m \in Nat, NEW n \in 0 .. m,
         from + m <= Room
  PROVE  SubSeq(Bytes(b, from, m), n + 1, m) = Bytes(b, from + n, m - n)
<1> DEFINE w == Bytes(b, from, m)
           t == Bytes(b, from + n, m - n)
           u == SubSeq(w, n + 1, m)
<1>1. /\ w \in Seq(Octet) /\ Len(w) = m /\ \A k \in 1 .. m : w[k] = b[from + k - 1]
      /\ t \in Seq(Octet) /\ Len(t) = m - n /\ \A k \in 1 .. m - n : t[k] = b[from + n + k - 1]
  BY BytesAre, from + n \in Nat, m - n \in Nat
<1> HIDE DEF w, t
<1>2. /\ u \in Seq(Octet) /\ Len(u) = m - n
      /\ \A i \in 1 .. m - n : u[i] = w[n + i]
  <2>1. \A i \in n + 1 .. m : w[i] \in Octet
    BY <1>1
  <2>2. /\ u \in Seq(Octet) /\ Len(u) = IF n + 1 <= m THEN m - (n + 1) + 1 ELSE 0
        /\ \A i \in 1 .. m - (n + 1) + 1 : u[i] = w[n + 1 + i - 1]
    BY <2>1, SubSeqProperties
  <2>3. m - (n + 1) + 1 = m - n /\ (n + 1 <= m \/ m - n = 0)
    OBVIOUS
  <2>4. \A i \in 1 .. m - n : n + 1 + i - 1 = n + i
    OBVIOUS
  <2>5. Len(u) = m - n
    BY <2>2, <2>3
  <2> HIDE DEF u
  <2> QED
    BY <2>2, <2>3, <2>4, <2>5
<1> HIDE DEF u
<1>3. \A i \in 1 .. m - n : u[i] = t[i]
  <2> TAKE i \in 1 .. m - n
  <2>1. n + i \in 1 .. m /\ from + (n + i) - 1 = from + n + i - 1
    OBVIOUS
  <2> QED
    BY <1>1, <1>2, <2>1
<1>4. u = t
  BY <1>1, <1>2, <1>3, SeqEqual
<1> QED
  BY <1>4 DEF u, t, w

LEMMA AllOf ==
  ASSUME NEW s \in Seq(Octet)
  PROVE  SubSeq(s, 1, Len(s)) = s
<1>1. /\ SubSeq(s, 1, Len(s)) \in Seq(Octet) /\ Len(SubSeq(s, 1, Len(s))) = Len(s)
      /\ \A i \in 1 .. Len(s) : SubSeq(s, 1, Len(s))[i] = s[i]
  OBVIOUS
<1> QED
  BY <1>1, SeqEqual

LEMMA Clipped ==
  ASSUME NEW s \in Seq(Octet)
  PROVE  /\ Packet!Clip(s) = Fitting(s)
         /\ Len(s) <= PACKETBUF_SIZE => Fitting(s) = s
<1>1. Packet!Clip(s) = Fitting(s)
  <2>1. CASE Len(s) < PACKETBUF_SIZE
    BY <2>1 DEF Packet!Clip, Fitting
  <2>2. CASE Len(s) = PACKETBUF_SIZE
    BY <2>2 DEF Packet!Clip, Fitting
  <2>3. CASE Len(s) > PACKETBUF_SIZE
    BY <2>3 DEF Packet!Clip, Fitting
  <2> QED
    BY <2>1, <2>2, <2>3
<1>2. Len(s) <= PACKETBUF_SIZE => Fitting(s) = s
  BY AllOf DEF Fitting
<1> QED
  BY <1>1, <1>2

\* Where the header and the data lie, now and after a step.
LEMMA WhereBytesLie ==
  /\ HdrBytes = Bytes(packetbuf, hdrptr, PACKETBUF_HDR_SIZE - hdrptr)
  /\ ~packetbuf_is_reference =>
       DataBytes = Bytes(packetbuf, PACKETBUF_HDR_SIZE + bufptr, buflen)
  /\ packetbuf_is_reference =>
       DataBytes = SubSeq(packetbufptr, bufptr + 1, bufptr + buflen)
  /\ HdrBytes' = Bytes(packetbuf', hdrptr', PACKETBUF_HDR_SIZE - hdrptr')
  /\ packetbufptr' = NoReference =>
       DataBytes' = Bytes(packetbuf', PACKETBUF_HDR_SIZE + bufptr', buflen')
  /\ packetbufptr' # NoReference =>
       DataBytes' = SubSeq(packetbufptr', bufptr' + 1, bufptr' + buflen')
  /\ \A to, s : Written(to, s) = Put(packetbuf, to, s)
BY DEF HdrBytes, DataBytes, BytesAt, Bytes, packetbuf_hdrlen, packetbuf_is_reference,
       Written, Put

LEMMA BoundsAre ==
  ASSUME InBounds
  PROVE  /\ packetbuf \in Buffer
         /\ hdrptr \in 0 .. PACKETBUF_HDR_SIZE /\ buflen \in Nat /\ bufptr \in Nat
         /\ ~packetbuf_is_reference => bufptr + buflen <= PACKETBUF_SIZE
         /\ packetbuf_is_reference =>
              /\ bufptr = 0 /\ buflen = Len(packetbufptr)
              /\ packetbufptr \in Seq(Octet) /\ DataBytes = packetbufptr
              /\ SubSeq(packetbufptr, 1, buflen) = packetbufptr
         /\ packetbuf_addrs \in Addresses
<1>1. ASSUME packetbuf_is_reference
      PROVE  /\ bufptr = 0 /\ buflen = Len(packetbufptr)
             /\ packetbufptr \in Seq(Octet) /\ DataBytes = packetbufptr
             /\ SubSeq(packetbufptr, 1, buflen) = packetbufptr
  <2>1. /\ bufptr = 0 /\ buflen = Len(packetbufptr) /\ packetbufptr \in Seq(Octet)
    BY <1>1 DEF InBounds, PacketTypeOK, PointersInBounds, packetbuf_is_reference
  <2>2. DataBytes = SubSeq(packetbufptr, 1, buflen)
    BY <1>1, <2>1 DEF DataBytes
  <2> QED
    BY <2>1, <2>2, AllOf
<1> QED
  BY <1>1 DEF InBounds, PacketTypeOK, PointersInBounds, Buffer, Addresses

-----------------------------------------------------------------------------
LEMMA PacketStarts == PacketbufInit => Packet!Init /\ QueuedWhole
<1> SUFFICES ASSUME PacketbufInit PROVE Packet!Init /\ QueuedWhole
  OBVIOUS
<1>1. HdrBytes = <<>> /\ DataBytes = <<>>
  <2>1. ~packetbuf_is_reference
    BY DEF PacketbufInit, packetbuf_is_reference
  <2>2. HdrBytes = BytesAt(PACKETBUF_HDR_SIZE, 0) /\ DataBytes = BytesAt(PACKETBUF_HDR_SIZE, 0)
    BY <2>1 DEF PacketbufInit, HdrBytes, DataBytes, packetbuf_hdrlen
  <2> QED
    BY <2>2 DEF BytesAt
<1> QED
  BY <1>1 DEF PacketbufInit, Packet!Init, Packet!NoAddrs, NullAddrs, QueuedWhole

\* A header of no octets, and data that is read where it was written.
LEMMA NoHeader ==
  ASSUME hdrptr' = PACKETBUF_HDR_SIZE
  PROVE  HdrBytes' = <<>>
<1>1. HdrBytes' = Bytes(packetbuf', PACKETBUF_HDR_SIZE, 0)
  BY WhereBytesLie
<1> QED
  BY <1>1 DEF Bytes

LEMMA DataWritten ==
  ASSUME InBounds, NEW s \in Seq(Octet), Len(s) <= PACKETBUF_SIZE,
         packetbuf_clear(NoReference, Len(s)),
         Write(PACKETBUF_HDR_SIZE, s)
  PROVE  HdrBytes' = <<>> /\ DataBytes' = s
<1>1. DataBytes' = Bytes(packetbuf', PACKETBUF_HDR_SIZE, Len(s))
  BY WhereBytesLie DEF packetbuf_clear
<1>2. packetbuf' = Put(packetbuf, PACKETBUF_HDR_SIZE, s)
  BY WhereBytesLie DEF Write
<1>3. DataBytes' = s
  BY <1>1, <1>2, PutIs, BoundsAre DEF Room
<1> QED
  BY <1>3, NoHeader DEF packetbuf_clear

\* There is room for a header of the packet where the code finds some.
LEMMA RoomIs ==
  ASSUME InBounds, NEW n \in Nat
  PROVE  Packet!HasRoom(n) <=> HasHeaderRoom(n)
<1>1. Len(HdrBytes) = PACKETBUF_HDR_SIZE - hdrptr
  BY PacketTypes DEF packetbuf_hdrlen
<1>2. hdrptr \in 0 .. PACKETBUF_HDR_SIZE
  BY BoundsAre
<1>3. (PACKETBUF_HDR_SIZE - hdrptr) + n < PACKETBUF_HDR_SIZE <=> hdrptr > n
  BY <1>2
<1> QED
  BY <1>1, <1>3 DEF Packet!HasRoom, HasHeaderRoom

LEMMA HeaderPushed ==
  ASSUME InBounds, NEW s \in Seq(Octet), PushHeader(s)
  PROVE  Packet!Push(s)
<1> DEFINE from == hdrptr - Len(s)
<1>1. /\ hdrptr' = from /\ from \in Nat /\ from + Len(s) = hdrptr
      /\ packetbuf' = Put(packetbuf, from, s)
      /\ UNCHANGED <<buflen, bufptr, packetbufptr, packetbuf_addrs, qbuf>> /\ air' = <<>>
  <2>1. /\ hdrptr > Len(s) /\ hdrptr' = from /\ packetbuf' = Written(from, s)
        /\ UNCHANGED <<buflen, bufptr, packetbufptr, packetbuf_addrs, qbuf>> /\ air' = <<>>
    BY DEF PushHeader, HasHeaderRoom, Write
  <2>2. hdrptr \in Nat /\ Len(s) \in Nat
    BY BoundsAre
  <2>3. from \in Nat /\ from + Len(s) = hdrptr
    BY <2>1, <2>2
  <2>4. packetbuf' = Put(packetbuf, from, s)
    <3> HIDE DEF from
    <3> QED
      BY <2>1, WhereBytesLie
  <2> QED
    BY <2>1, <2>3, <2>4
<1> DEFINE n == PACKETBUF_HDR_SIZE - hdrptr
<1>2. n \in Nat /\ hdrptr \in Nat /\ PACKETBUF_HDR_SIZE - from = Len(s) + n /\ hdrptr + n <= Room
      /\ Len(s) \in Nat /\ from + Len(s) + n <= Room /\ from + Len(s) <= Room
  <2>1. hdrptr \in 0 .. PACKETBUF_HDR_SIZE /\ Len(s) \in Nat /\ Room \in Nat
        /\ PACKETBUF_HDR_SIZE <= Room /\ PACKETBUF_HDR_SIZE \in Nat
    BY BoundsAre DEF Room
  <2>2. n \in Nat /\ hdrptr \in Nat /\ hdrptr + n = PACKETBUF_HDR_SIZE
    BY <2>1
  <2>3. PACKETBUF_HDR_SIZE - from = Len(s) + n
    BY <2>1
  <2> HIDE DEF from, n
  <2> QED
    BY <1>1, <2>1, <2>2, <2>3
<1>3. packetbuf' \in Buffer /\ Bytes(packetbuf', from, Len(s)) = s
  BY <1>1, <1>2, BoundsAre, PutIs
<1>4. Bytes(packetbuf', hdrptr, n) = HdrBytes
  <2>1. Bytes(Put(packetbuf, from, s), hdrptr, n) = Bytes(packetbuf, hdrptr, n)
    BY <1>1, <1>2, PutApart
  <2> QED
    BY <1>1, <2>1, WhereBytesLie
<1>5. HdrBytes' = s \o HdrBytes
  <2>1. HdrBytes' = Bytes(packetbuf', from, Len(s) + n)
    BY <1>1, <1>2, WhereBytesLie
  <2> HIDE DEF from, n
  <2>2. Bytes(packetbuf', from, Len(s) + n)
          = Bytes(packetbuf', from, Len(s)) \o Bytes(packetbuf', from + Len(s), n)
    <3> PICK l \in Nat : l = Len(s)
      BY <1>2
    <3>1. from \in Nat /\ n \in Nat /\ from + l + n <= Room /\ packetbuf' \in Buffer
      BY <1>1, <1>2, <1>3
    <3>2. Bytes(packetbuf', from, l + n)
            = Bytes(packetbuf', from, l) \o Bytes(packetbuf', from + l, n)
      BY <3>1, BytesJoined
    <3> QED
      BY <3>2
  <2> QED
    BY <1>1, <1>3, <1>4, <2>1, <2>2
<1>6. DataBytes' = DataBytes
  <2>1. CASE packetbuf_is_reference
    BY <1>1, <2>1, WhereBytesLie DEF packetbuf_is_reference
  <2>2. CASE ~packetbuf_is_reference
    <3>1. Bytes(Put(packetbuf, from, s), PACKETBUF_HDR_SIZE + bufptr, buflen)
            = Bytes(packetbuf, PACKETBUF_HDR_SIZE + bufptr, buflen)
      <4>1. /\ PACKETBUF_HDR_SIZE + bufptr \in Nat /\ buflen \in Nat
            /\ PACKETBUF_HDR_SIZE + bufptr + buflen <= Room
            /\ from + Len(s) <= PACKETBUF_HDR_SIZE + bufptr
        <5>1. /\ bufptr \in Nat /\ buflen \in Nat /\ bufptr + buflen <= PACKETBUF_SIZE
              /\ hdrptr \in 0 .. PACKETBUF_HDR_SIZE
          BY <2>2, BoundsAre
        <5>2. from + Len(s) = hdrptr
          BY <1>1
        <5> HIDE DEF from
        <5> QED
          BY <5>1, <5>2 DEF Room
      <4> HIDE DEF from
      <4> QED
        BY <1>1, <4>1, PutApart
    <3> QED
      BY <1>1, <2>2, <3>1, WhereBytesLie DEF packetbuf_is_reference
  <2> QED
    BY <2>1, <2>2
<1>7. Packet!HasRoom(Len(s))
  BY RoomIs DEF PushHeader
<1> QED
  BY <1>1, <1>5, <1>6, <1>7 DEF Packet!Push

LEMMA HeaderRefused ==
  ASSUME InBounds, NEW size \in Nat, packetbuf_hdralloc_fails(size)
  PROVE  Packet!NoRoom(size)
<1> DEFINE m == PACKETBUF_HDR_SIZE
           n == m - hdrptr
           s == HdrBytes
           t == HdrBytes'
<1>1. /\ hdrptr' = 0 /\ air' = <<>>
      /\ UNCHANGED <<packetbuf, buflen, bufptr, packetbufptr, packetbuf_addrs, qbuf>>
  BY DEF packetbuf_hdralloc_fails
<1>2. DataBytes' = DataBytes
  BY <1>1 DEF DataBytes, BytesAt, packetbuf_is_reference
<1>3. t = Bytes(packetbuf, 0, m) /\ s = Bytes(packetbuf, hdrptr, n)
  BY <1>1, WhereBytesLie
<1>4. /\ t \in Seq(Octet) /\ Len(t) = m /\ \A k \in 1 .. m : t[k] = packetbuf[0 + k - 1]
      /\ s \in Seq(Octet) /\ Len(s) = n /\ \A k \in 1 .. n : s[k] = packetbuf[hdrptr + k - 1]
      /\ n \in 0 .. m /\ hdrptr + n = m
  <2>1. n \in 0 .. m /\ hdrptr + n = m /\ hdrptr \in Nat /\ m <= Room /\ 0 + m <= Room
        /\ packetbuf \in Buffer
    BY BoundsAre DEF Room
  <2>2. /\ t \in Seq(Octet) /\ Len(t) = m /\ \A k \in 1 .. m : t[k] = packetbuf[0 + k - 1]
    BY <1>3, <2>1, BytesAre
  <2>3. /\ s \in Seq(Octet) /\ Len(s) = n /\ \A k \in 1 .. n : s[k] = packetbuf[hdrptr + k - 1]
    <3>1. hdrptr + n <= Room /\ n \in Nat
      BY <2>1
    <3> HIDE DEF n
    <3> QED
      BY <1>3, <2>1, <3>1, BytesAre
  <2> QED
    BY <2>1, <2>2, <2>3
<1> HIDE DEF s, t
<1>5. Packet!IsSuffix(s, t)
  <2> DEFINE rs == Reverse(s)
             rt == Reverse(t)
  <2>1. /\ rs \in [1 .. n -> Octet] /\ \A k \in 1 .. n : rs[k] = s[(n - k) + 1]
        /\ rt \in [1 .. m -> Octet] /\ \A k \in 1 .. m : rt[k] = t[(m - k) + 1]
    <3>1. \A k \in 1 .. n : (n - k) + 1 \in 1 .. n
      BY <1>4
    <3>2. \A k \in 1 .. m : (m - k) + 1 \in 1 .. m
      OBVIOUS
    <3> QED
      BY <1>4, <3>1, <3>2 DEF Reverse
  <2>2. /\ rs \in Seq(Octet) /\ Len(rs) = n
        /\ rt \in Seq(Octet) /\ Len(rt) = m
    <3>1. m \in Nat /\ n \in Nat
      BY <1>4
    <3> HIDE DEF rs, rt, m, n
    <3> QED
      BY <2>1, <3>1, IsSequence
  <2>3. \A k \in 1 .. n : rs[k] = rt[k]
    <3> TAKE k \in 1 .. n
    <3>1. /\ (n - k) + 1 \in 1 .. n /\ (m - k) + 1 \in 1 .. m /\ k \in 1 .. m
          /\ hdrptr + ((n - k) + 1) - 1 = 0 + ((m - k) + 1) - 1
      <4>1. hdrptr \in Nat /\ n \in Nat /\ m \in Nat /\ hdrptr + n = m
        BY <1>4, BoundsAre
      <4> HIDE DEF n, m
      <4> QED
        BY <4>1
    <3>2. rs[k] = packetbuf[hdrptr + ((n - k) + 1) - 1]
      BY <1>4, <2>1, <3>1
    <3>3. rt[k] = packetbuf[0 + ((m - k) + 1) - 1]
      BY <1>4, <2>1, <3>1
    <3> QED
      BY <3>1, <3>2, <3>3
  <2> HIDE DEF rs, rt
  <2>4. SubSeq(rs, 1, n) = rs
    BY <2>2, AllOf
  <2>5. SubSeq(rt, 1, n) = rs
    <3>1. /\ SubSeq(rt, 1, n) \in Seq(Octet) /\ Len(SubSeq(rt, 1, n)) = n
          /\ \A k \in 1 .. n : SubSeq(rt, 1, n)[k] = rt[k]
      BY <1>4, <2>2
    <3> QED
      BY <2>2, <2>3, <3>1, SeqEqual
  <2>6. Packet!Reverse(s) = rs /\ Packet!Reverse(t) = rt
    BY DEF rs, rt, Packet!Reverse, Reverse
  <2>7. n <= m
    BY <1>4
  <2> HIDE DEF n, m
  <2>8. Packet!IsPrefix(rs, rt)
    BY <2>2, <2>4, <2>5, <2>7 DEF Packet!IsPrefix
  <2> QED
    BY <2>6, <2>8 DEF Packet!IsSuffix
<1>6. ~Packet!HasRoom(size)
  BY RoomIs DEF packetbuf_hdralloc_fails
<1> QED
  BY <1>1, <1>2, <1>4, <1>5, <1>6 DEF Packet!NoRoom, s, t

\* A header is taken off the data.
LEMMA DataReduced ==
  ASSUME InBounds, NEW size \in Nat, packetbuf_hdrreduce(size)
  PROVE  /\ HdrBytes' = HdrBytes /\ HdrBytes = <<>>
         /\ size <= Len(DataBytes)
         /\ DataBytes' = SubSeq(DataBytes, size + 1, Len(DataBytes))
         /\ Len(DataBytes) = buflen
<1>1. /\ hdrptr = PACKETBUF_HDR_SIZE /\ ~packetbuf_is_reference /\ buflen >= size
      /\ bufptr' = bufptr + size /\ buflen' = buflen - size
      /\ UNCHANGED <<packetbuf, hdrptr, packetbufptr>>
  BY DEF packetbuf_hdrreduce, IsIncoming
<1>2. HdrBytes' = HdrBytes /\ HdrBytes = <<>>
  <2>1. HdrBytes' = HdrBytes
    BY <1>1 DEF HdrBytes, BytesAt, packetbuf_hdrlen
  <2> QED
    BY <1>1, <2>1, NoHeader
<1> DEFINE from == PACKETBUF_HDR_SIZE + bufptr
<1>3. /\ from \in Nat /\ buflen \in Nat /\ from + buflen <= Room /\ size \in 0 .. buflen
      /\ packetbuf \in Buffer
  BY <1>1, BoundsAre DEF Room
<1>4. DataBytes = Bytes(packetbuf, from, buflen) /\ Len(DataBytes) = buflen
  <2>1. DataBytes = Bytes(packetbuf, from, buflen)
    BY <1>1, WhereBytesLie
  <2> HIDE DEF from
  <2> QED
    BY <1>3, <2>1, BytesAre
<1>5. DataBytes' = Bytes(packetbuf, from + size, buflen - size)
  <2>1. PACKETBUF_HDR_SIZE + bufptr' = from + size
    BY <1>1, BoundsAre
  <2> QED
    BY <1>1, <2>1, WhereBytesLie DEF packetbuf_is_reference
<1> HIDE DEF from
<1>6. SubSeq(Bytes(packetbuf, from, buflen), size + 1, buflen)
        = Bytes(packetbuf, from + size, buflen - size)
  BY <1>3, BytesCut
<1> QED
  BY <1>1, <1>2, <1>3, <1>4, <1>5, <1>6

\* Data that is compacted ends up behind the header, whatever its length.
LEMMA Compacts ==
  ASSUME InBounds, packetbuf_compact
  PROVE  /\ packetbuf_is_reference \/ bufptr > 0 =>
              packetbuf' = Put(packetbuf, PACKETBUF_HDR_SIZE, DataBytes)
         /\ ~(packetbuf_is_reference \/ bufptr > 0) => packetbuf' = packetbuf
<1>1. CASE packetbuf_is_reference
  <2>1. SubSeq(packetbufptr, 1, buflen) = DataBytes
    BY <1>1, BoundsAre
  <2> QED
    BY <1>1, <2>1, WhereBytesLie DEF packetbuf_compact, Write
<1>2. CASE ~packetbuf_is_reference
  BY <1>2, WhereBytesLie DEF packetbuf_compact, Write
<1> QED
  BY <1>1, <1>2

LEMMA PacketSent ==
  ASSUME InBounds, send_packet
  PROVE  Packet!Transmit \/ Packet!TransmitTooLong
<1> DEFINE h == PACKETBUF_HDR_SIZE - hdrptr
<1>1. /\ packetbuf \in Buffer /\ hdrptr \in Nat /\ h \in Nat /\ hdrptr + h = PACKETBUF_HDR_SIZE
      /\ buflen \in Nat /\ bufptr \in Nat
      /\ PACKETBUF_HDR_SIZE \in Nat /\ PACKETBUF_HDR_SIZE <= Room
  BY BoundsAre DEF Room
<1>2. DataBytes \in Seq(Octet) /\ Len(DataBytes) = buflen
  BY PacketTypes
<1>3. HdrBytes = Bytes(packetbuf, hdrptr, h)
  BY WhereBytesLie
<1>4. /\ bufptr' = (IF packetbuf_is_reference THEN bufptr ELSE 0)
      /\ packetbuf_compact
      /\ UNCHANGED <<buflen, hdrptr, packetbufptr, packetbuf_addrs, qbuf>>
      /\ air' = [k \in 1 .. packetbuf_totlen |->
                   IF hdrptr + k - 1 \in Place THEN packetbuf'[hdrptr + k - 1] ELSE NoByte]
  BY DEF send_packet
<1>5. packetbuf_totlen = h + buflen
  BY DEF packetbuf_totlen, packetbuf_hdrlen
<1>6. Bytes(packetbuf', hdrptr, h) = HdrBytes
  <2> HIDE DEF h
  <2>1. CASE packetbuf_is_reference \/ bufptr > 0
    <3>1. packetbuf' = Put(packetbuf, PACKETBUF_HDR_SIZE, DataBytes)
      BY <1>4, <2>1, Compacts
    <3> QED
      BY <1>1, <1>2, <1>3, <3>1, PutApart
  <2>2. CASE ~(packetbuf_is_reference \/ bufptr > 0)
    BY <1>3, <1>4, <2>2, Compacts
  <2> QED
    BY <2>1, <2>2
<1>7. HdrBytes' = HdrBytes
  BY <1>4, <1>6, WhereBytesLie
<1>8. CASE buflen <= PACKETBUF_SIZE
  <2>1. PACKETBUF_HDR_SIZE + buflen <= Room
    BY <1>1, <1>8 DEF Room
  <2>2. /\ packetbuf' \in Buffer
        /\ Bytes(packetbuf', PACKETBUF_HDR_SIZE, buflen) = DataBytes
    <3> HIDE DEF h
    <3>1. CASE packetbuf_is_reference \/ bufptr > 0
      <4>1. packetbuf' = Put(packetbuf, PACKETBUF_HDR_SIZE, DataBytes)
        BY <1>4, <3>1, Compacts
      <4> QED
        BY <1>1, <1>2, <2>1, <4>1, PutIs
    <3>2. CASE ~packetbuf_is_reference /\ bufptr = 0
      <4>1. packetbuf' = packetbuf
        BY <1>4, <3>2, Compacts
      <4>2. DataBytes = Bytes(packetbuf, PACKETBUF_HDR_SIZE, buflen)
        BY <3>2, WhereBytesLie
      <4> QED
        BY <1>1, <4>1, <4>2
    <3> QED
      BY <1>1, <3>1, <3>2
  <2>3. DataBytes' = DataBytes
    <3>1. CASE packetbuf_is_reference
      BY <1>4, <3>1, WhereBytesLie DEF packetbuf_is_reference
    <3>2. CASE ~packetbuf_is_reference
      BY <1>4, <2>2, <3>2, WhereBytesLie DEF packetbuf_is_reference
    <3> QED
      BY <3>1, <3>2
  <2>4. air' = Bytes(packetbuf', hdrptr, h + buflen)
    <3> HIDE DEF h
    <3>1. \A k \in 1 .. h + buflen : hdrptr + k - 1 \in Place
      BY <1>1, <2>1 DEF Place, Room
    <3> QED
      BY <1>4, <1>5, <3>1 DEF Bytes
  <2>5. air' = HdrBytes \o DataBytes
    <3> HIDE DEF h
    <3>1. Bytes(packetbuf', hdrptr, h + buflen)
            = Bytes(packetbuf', hdrptr, h) \o Bytes(packetbuf', hdrptr + h, buflen)
      <4>1. hdrptr \in Nat /\ h \in Nat /\ buflen \in Nat /\ hdrptr + h + buflen <= Room
        BY <1>1, <2>1
      <4> QED
        BY <2>2, <4>1, BytesJoined
    <3> QED
      BY <1>1, <1>6, <2>2, <2>4, <3>1
  <2> QED
    BY <1>2, <1>4, <1>7, <1>8, <2>3, <2>5 DEF Packet!Transmit, Packet!packet
<1>9. CASE buflen > PACKETBUF_SIZE
  <2>1. packetbuf_is_reference
    BY <1>1, <1>9, BoundsAre
  <2>2. DataBytes' = DataBytes
    BY <1>4, <2>1, WhereBytesLie DEF packetbuf_is_reference
  <2> QED
    BY <1>2, <1>4, <1>7, <1>9, <2>2 DEF Packet!TransmitTooLong, Packet!packet
<1> QED
  BY <1>1, <1>8, <1>9

LEMMA PacketSaved ==
  ASSUME InBounds, queuebuf_new_from_packetbuf
  PROVE  /\ \E copied \in BOOLEAN : Packet!Save(copied)
         /\ QueuedWhole'
<1>1. HdrBytes' = HdrBytes /\ DataBytes' = DataBytes /\ packetbuf_addrs' = packetbuf_addrs
      /\ qbuf = <<>> /\ air' = <<>>
  BY DEF queuebuf_new_from_packetbuf, pointerVars, HdrBytes, DataBytes, BytesAt, packetbuf_hdrlen,
         packetbuf_is_reference
<1>2. CASE packetbuf_is_reference
  <2>1. qbuf' = <<[hdr |-> HdrBytes, data |-> DataBytes, addrs |-> packetbuf_addrs,
                   copied |-> FALSE]>>
    BY <1>2, BoundsAre DEF queuebuf_new_from_packetbuf
  <2>2. Packet!Save(FALSE)
    BY <1>1, <2>1 DEF Packet!Save, Packet!packet
  <2>3. QueuedWhole'
    BY <2>1 DEF QueuedWhole
  <2> QED
    BY <2>2, <2>3
<1>3. CASE ~packetbuf_is_reference
  <2>1. qbuf' = <<[hdr |-> <<>>, data |-> HdrBytes \o DataBytes, addrs |-> packetbuf_addrs,
                   copied |-> TRUE]>>
    BY <1>3 DEF queuebuf_new_from_packetbuf, packetbuf_copyto
  <2>2. Packet!Save(TRUE)
    BY <1>1, <2>1 DEF Packet!Save, Packet!packet
  <2>3. QueuedWhole'
    BY <2>1 DEF QueuedWhole
  <2> QED
    BY <2>2, <2>3
<1> QED
  BY <1>2, <1>3

LEMMA PacketRestored ==
  ASSUME InBounds, QueuedWhole, queuebuf_to_packetbuf
  PROVE  Packet!Restore /\ QueuedWhole'
<1> DEFINE q == Head(qbuf)
<1>1. q \in Entry /\ q = qbuf[1] /\ 1 \in 1 .. Len(qbuf)
  <2>1. qbuf \in Seq(Entry) /\ qbuf # <<>>
    BY DEF InBounds, PacketTypeOK, Addresses, Entry, queuebuf_to_packetbuf
  <2> QED
    BY <2>1
<1>2. /\ q.hdr \in Seq(Octet) /\ q.data \in Seq(Octet) /\ q.copied \in BOOLEAN
      /\ q.copied => q.hdr = <<>>
      /\ Len(q.hdr) <= PACKETBUF_HDR_SIZE
  BY <1>1 DEF Entry, QueuedWhole, InBounds, QueuedFits
<1>3. qbuf # <<>> /\ qbuf' = <<>> /\ air' = <<>>
  BY DEF queuebuf_to_packetbuf
<1>4. QueuedWhole'
  BY <1>3 DEF QueuedWhole
<1>5. CASE q.copied
  <2>1. copyfrom(q.data) /\ packetbuf_addrs' = q.addrs
    BY <1>5 DEF queuebuf_to_packetbuf
  <2>2. HdrBytes' = <<>> /\ DataBytes' = Fitting(q.data)
    BY <1>2, <2>1, FittingType, DataWritten DEF copyfrom
  <2> QED
    BY <1>2, <1>3, <1>4, <1>5, <2>1, <2>2, Clipped DEF Packet!Restore
<1>6. CASE ~q.copied
  <2>1. PICK h \in Seq(Octet), d \in Seq(Octet),
             m \in 0 .. PACKETBUF_HDR_SIZE, n \in 0 .. PACKETBUF_SIZE :
          h = q.hdr /\ d = Fitting(q.data) /\ m = Len(h) /\ n = Len(d)
    <3>1. PICK d \in Seq(Octet), n \in 0 .. PACKETBUF_SIZE : d = Fitting(q.data) /\ n = Len(d)
      BY <1>2, FittingType
    <3>2. PICK h \in Seq(Octet), m \in 0 .. PACKETBUF_HDR_SIZE : h = q.hdr /\ m = Len(h)
      BY <1>2
    <3> QED
      BY <3>1, <3>2
  <2>a. PICK to \in 0 .. PACKETBUF_HDR_SIZE :
          /\ to = IF PACKETBUF_HDR_SIZE > m THEN PACKETBUF_HDR_SIZE - m ELSE 0
          /\ to + m = PACKETBUF_HDR_SIZE
    <3>1. CASE PACKETBUF_HDR_SIZE > m
      <4>1. PACKETBUF_HDR_SIZE - m \in 0 .. PACKETBUF_HDR_SIZE
        BY <3>1
      <4> QED
        BY <3>1, <4>1
    <3>2. CASE PACKETBUF_HDR_SIZE = m
      BY <3>2
    <3> QED
      BY <3>1, <3>2
  <2>2. hdrptr' = to /\ packetbuf' = Written(to, h \o d)
    BY <1>6, <2>1, <2>a DEF queuebuf_to_packetbuf, Write
  <2>3. /\ buflen' = n /\ bufptr' = 0 /\ packetbufptr' = NoReference
        /\ packetbuf_addrs' = NullAddrs
    BY <1>6, <2>1 DEF queuebuf_to_packetbuf
  <2> HIDE DEF q
  <2>5. PICK w \in Seq(Octet) :
          /\ w = h \o d /\ Len(w) = m + n
          /\ \A i \in 1 .. m + n : w[i] = IF i <= m THEN h[i] ELSE d[i - m]
    <3>1. /\ h \o d \in Seq(Octet) /\ Len(h \o d) = Len(h) + Len(d)
          /\ \A i \in 1 .. Len(h) + Len(d) : (h \o d)[i] = IF i <= Len(h) THEN h[i] ELSE d[i - Len(h)]
      BY ConcatProperties
    <3> QED
      BY <2>1, <3>1
  <2>6. /\ packetbuf' = Put(packetbuf, to, w)
        /\ to \in Nat /\ to + Len(w) <= Room /\ packetbuf \in Buffer
    <3>1. packetbuf' = Put(packetbuf, to, w)
      BY <2>2, <2>5, WhereBytesLie
    <3>2. to + (m + n) <= Room
      BY <2>a DEF Room
    <3> QED
      BY <2>5, <3>1, <3>2, BoundsAre
  <2>7. packetbuf' \in Buffer /\ Bytes(packetbuf', to, Len(w)) = w
    BY <2>6, PutIs
  <2>8. /\ \A k \in 1 .. m : packetbuf'[to + k - 1] = h[k]
        /\ \A k \in 1 .. n : packetbuf'[PACKETBUF_HDR_SIZE + k - 1] = d[k]
    <3>1. \A k \in 1 .. m + n : w[k] = packetbuf'[to + k - 1]
      <4>1. m + n \in Nat /\ to + (m + n) <= Room
        BY <2>5, <2>6
      <4>2. PICK l \in Nat : l = m + n
        BY <4>1
      <4>3. \A k \in 1 .. l : Bytes(packetbuf', to, l)[k] = packetbuf'[to + k - 1]
        BY <2>6, <2>7, <4>1, <4>2, BytesAre
      <4> QED
        BY <2>5, <2>7, <4>2, <4>3
    <3>2. ASSUME NEW k \in 1 .. m
          PROVE  packetbuf'[to + k - 1] = h[k]
      <4>1. k \in 1 .. m + n /\ k <= m
        OBVIOUS
      <4> QED
        BY <2>5, <3>1, <4>1
    <3>3. ASSUME NEW k \in 1 .. n
          PROVE  packetbuf'[PACKETBUF_HDR_SIZE + k - 1] = d[k]
      <4>1. /\ m + k \in 1 .. m + n /\ ~(m + k <= m) /\ (m + k) - m = k
            /\ to + (m + k) - 1 = PACKETBUF_HDR_SIZE + k - 1
        BY <2>a
      <4>2. w[m + k] = d[k]
        BY <2>5, <4>1
      <4>3. w[m + k] = packetbuf'[to + (m + k) - 1]
        BY <3>1, <4>1
      <4> QED
        BY <4>1, <4>2, <4>3
    <3> QED
      BY <3>2, <3>3
  <2>9. HdrBytes' = h
    <3>1. HdrBytes' = Bytes(packetbuf', to, m)
      <4>1. PACKETBUF_HDR_SIZE - to = m
        BY <2>a
      <4> QED
        BY <2>2, <4>1, WhereBytesLie
    <3>2. m \in Nat /\ to \in Nat /\ to + m <= Room
      BY <2>a DEF Room
    <3>3. /\ Bytes(packetbuf', to, m) \in Seq(Octet) /\ Len(Bytes(packetbuf', to, m)) = m
          /\ \A k \in 1 .. m : Bytes(packetbuf', to, m)[k] = packetbuf'[to + k - 1]
      BY <2>7, <3>2, BytesAre
    <3>4. \A k \in 1 .. m : Bytes(packetbuf', to, m)[k] = h[k]
      BY <2>8, <3>3
    <3> QED
      BY <2>1, <3>1, <3>3, <3>4, SeqEqual
  <2>10. DataBytes' = d
    <3>1. DataBytes' = Bytes(packetbuf', PACKETBUF_HDR_SIZE, n)
      BY <2>3, WhereBytesLie
    <3>2. n \in Nat /\ PACKETBUF_HDR_SIZE \in Nat /\ PACKETBUF_HDR_SIZE + n <= Room
      BY <2>1 DEF Room
    <3>3. /\ Bytes(packetbuf', PACKETBUF_HDR_SIZE, n) \in Seq(Octet)
          /\ Len(Bytes(packetbuf', PACKETBUF_HDR_SIZE, n)) = n
          /\ \A k \in 1 .. n :
               Bytes(packetbuf', PACKETBUF_HDR_SIZE, n)[k] = packetbuf'[PACKETBUF_HDR_SIZE + k - 1]
      BY <2>7, <3>2, BytesAre
    <3>4. \A k \in 1 .. n : Bytes(packetbuf', PACKETBUF_HDR_SIZE, n)[k] = d[k]
      BY <2>8, <3>3
    <3> QED
      BY <2>1, <3>1, <3>3, <3>4, SeqEqual
  <2>11. Packet!Clip(q.data) = d
    BY <1>2, <2>1, Clipped
  <2> QED
    BY <1>3, <1>4, <1>6, <2>1, <2>3, <2>9, <2>10, <2>11
    DEF q, Packet!Restore, Packet!NoAddrs, NullAddrs
<1> QED
  BY <1>2, <1>5, <1>6

LEMMA PacketMade ==
  ASSUME InBounds, NEW s \in Payload \cup Foreign
  PROVE  /\ packetbuf_copyfrom(s) => Packet!New(s)
         /\ packetbuf_reference(s) /\ s \in Payload => Packet!Take(s)
         /\ read_packet(s) => Packet!New(s)
<1>1. s \in Seq(Octet)
  OBVIOUS
<1>2. ASSUME packetbuf_copyfrom(s) PROVE Packet!New(s)
  <2>1. HdrBytes' = <<>> /\ DataBytes' = Fitting(s)
    BY <1>1, <1>2, FittingType, DataWritten DEF packetbuf_copyfrom, copyfrom
  <2> QED
    BY <1>1, <1>2, <2>1, Clipped DEF packetbuf_copyfrom, Packet!New, Packet!Take, Packet!NoAddrs, NullAddrs
<1>3. ASSUME packetbuf_reference(s), s \in Payload PROVE Packet!Take(s)
  <2>1. /\ buflen' = Len(s) /\ bufptr' = 0
        /\ hdrptr' = PACKETBUF_HDR_SIZE /\ packetbufptr' = s /\ s # NoReference
    BY <1>3 DEF packetbuf_reference, packetbuf_clear
  <2>2. DataBytes' = SubSeq(s, 0 + 1, 0 + Len(s))
    BY <2>1, WhereBytesLie
  <2>3. DataBytes' = s /\ HdrBytes' = <<>>
    <3>1. 0 + 1 = 1 /\ 0 + Len(s) = Len(s)
      BY <1>1
    <3> QED
      BY <1>1, <2>1, <2>2, <3>1, AllOf, NoHeader
  <2> QED
    BY <1>1, <1>3, <2>1, <2>3 DEF packetbuf_reference, Packet!Take, Packet!NoAddrs, NullAddrs
<1>4. ASSUME read_packet(s) PROVE Packet!New(s)
  <2>1. HdrBytes' = <<>> /\ DataBytes' = s
    BY <1>1, <1>4, DataWritten DEF read_packet
  <2> QED
    BY <1>1, <1>4, <2>1, Clipped DEF read_packet, Packet!New, Packet!Take, Packet!NoAddrs, NullAddrs
<1> QED
  BY <1>2, <1>3, <1>4

\* Every operation is a step of the packet.
LEMMA OperationIsStep ==
  ASSUME InBounds, QueuedWhole, Operation
  PROVE  Packet!Next /\ QueuedWhole'
<1>1. ASSUME UNCHANGED qbuf PROVE QueuedWhole'
  BY <1>1 DEF QueuedWhole
<1>2. CASE \E s \in Payload : packetbuf_copyfrom(s) \/ packetbuf_reference(s)
  BY <1>1, <1>2, PacketMade DEF packetbuf_copyfrom, packetbuf_reference, Packet!Next
<1>3. CASE \E a \in Addr : packetbuf_set_addr(a)
  <2>1. PICK a \in Addr : packetbuf_set_addr(a)
    BY <1>3
  <2>2. HdrBytes' = HdrBytes /\ DataBytes' = DataBytes
    BY <2>1 DEF packetbuf_set_addr, pointerVars, HdrBytes, DataBytes, BytesAt, packetbuf_hdrlen,
                packetbuf_is_reference
  <2>3. Packet!AddressTo(a)
    BY <2>1, <2>2 DEF packetbuf_set_addr, Packet!AddressTo
  <2> QED
    BY <1>1, <2>1, <2>3 DEF packetbuf_set_addr, Packet!Next
<1>4. CASE packetbuf_clear_hdr
  <2>1. DataBytes' = DataBytes
    BY <1>4 DEF packetbuf_clear_hdr, DataBytes, BytesAt, packetbuf_is_reference
  <2>2. Packet!ClearHeader
    BY <1>4, <2>1, NoHeader DEF packetbuf_clear_hdr, Packet!ClearHeader
  <2> QED
    BY <1>1, <1>4, <2>2 DEF packetbuf_clear_hdr, Packet!Next
<1>5. CASE \E s \in Header : PushHeader(s)
  BY <1>1, <1>5, HeaderPushed DEF PushHeader, Packet!Next
<1>6. CASE \E s \in Header : packetbuf_hdralloc_fails(Len(s))
  <2>1. PICK s \in Header : packetbuf_hdralloc_fails(Len(s))
    BY <1>6
  <2>2. Len(s) \in Nat
    OBVIOUS
  <2> QED
    BY <1>1, <2>1, <2>2, HeaderRefused DEF packetbuf_hdralloc_fails, Packet!Next
<1>7. CASE \E s \in Header : Reduce(Len(s))
  <2>1. PICK s \in Header : Reduce(Len(s))
    BY <1>7
  <2>2. PICK n \in Nat : n = Len(s)
    BY <2>1
  <2>3. /\ packetbuf_hdrreduce(n) /\ UNCHANGED <<packetbuf_addrs, qbuf>> /\ air' = <<>>
    BY <2>1, <2>2 DEF Reduce, packetbuf_hdrreduce
  <2>4. /\ HdrBytes' = HdrBytes /\ HdrBytes = <<>> /\ n <= Len(DataBytes)
        /\ DataBytes' = SubSeq(DataBytes, n + 1, Len(DataBytes))
    BY <2>3, DataReduced
  <2>5. CASE n = 0
    <3>1. DataBytes' = DataBytes
      BY <2>4, <2>5, PacketTypes, AllOf
    <3>2. Packet!ClearHeader
      BY <2>3, <2>4, <3>1 DEF Packet!ClearHeader
    <3> QED
      BY <1>1, <2>3, <3>2 DEF Packet!Next
  <2>6. CASE n # 0
    <3>1. n \in 1 .. PACKETBUF_SIZE
      <4>1. ~packetbuf_is_reference
        BY <2>3 DEF packetbuf_hdrreduce, IsIncoming
      <4> QED
        BY <2>4, <2>6, <4>1, PacketTypes
    <3>2. Packet!Pop(n)
      BY <2>3, <2>4 DEF Packet!Pop
    <3> QED
      BY <1>1, <2>3, <3>1, <3>2 DEF Packet!Next
  <2> QED
    BY <2>5, <2>6
<1>8. CASE create
  <2>1. MacHeader \in Seq(Octet)
    BY DEF InBounds, PacketTypeOK, MacHeader
  <2>2. Packet!Push(MacHeader) \/ Packet!NoRoom(Len(MacHeader))
    <3>1. Len(MacHeader) \in Nat
      BY <2>1
    <3> QED
      BY <1>8, <2>1, <3>1, HeaderPushed, HeaderRefused DEF create
  <2>3. qbuf' = qbuf
    BY <1>8 DEF create, PushHeader, packetbuf_hdralloc_fails
  <2>4. PICK s \in Header \cup {<<packetbuf_addrs.receiver, rimeaddr_node_addr>>} : s = MacHeader
    BY DEF MacHeader
  <2> QED
    BY <1>1, <2>2, <2>3, <2>4 DEF Packet!Next
<1>9. CASE parse
  <2>1. /\ packetbuf_hdrreduce(2) /\ qbuf' = qbuf /\ air' = <<>>
        /\ packetbuf_addrs' = [receiver |-> DataBytes[1], sender |-> DataBytes[2]]
    BY <1>9 DEF parse, packetbuf_hdrreduce
  <2>2. /\ HdrBytes' = HdrBytes /\ 2 <= Len(DataBytes)
        /\ DataBytes' = SubSeq(DataBytes, 2 + 1, Len(DataBytes))
    BY <2>1, DataReduced
  <2>3. Packet!Parse
    BY <2>1, <2>2, 2 + 1 = 3 DEF Packet!Parse
  <2> QED
    BY <1>1, <2>1, <2>3 DEF Packet!Next
<1>10. CASE send_packet
  BY <1>1, <1>10, PacketSent DEF send_packet, Packet!Next
<1>11. CASE \E frame \in Foreign : read_packet(frame)
  BY <1>1, <1>11, PacketMade DEF read_packet, Packet!Next
<1>12. CASE queuebuf_new_from_packetbuf
  BY <1>12, PacketSaved DEF Packet!Next
<1>13. CASE queuebuf_to_packetbuf
  BY <1>13, PacketRestored DEF Packet!Next
<1> QED
  BY <1>2, <1>3, <1>4, <1>5, <1>6, <1>7, <1>8, <1>9, <1>10, <1>11, <1>12, <1>13
  DEF Operation

\* The refinement: packetbuf.c, framer-nullmac.c, nullmac.c and the contents of
\* queuebuf.c implement the packet that packetbuf.h promises, for all sizes,
\* payloads, headers and frames.
THEOREM PacketbufIsPacket == PacketbufSpec => ImplementsPacket
<1>1. PacketbufInit => Packet!Init /\ QueuedWhole
  BY PacketStarts
<1>2. InBounds /\ QueuedWhole /\ [PacketbufNext]_packetbufVars
        => [Packet!Next]_<<Packet!packet, qbuf, air>> /\ QueuedWhole'
  <2> SUFFICES ASSUME InBounds, QueuedWhole, [PacketbufNext]_packetbufVars
               PROVE  [Packet!Next]_<<Packet!packet, qbuf, air>> /\ QueuedWhole'
    OBVIOUS
  <2>1. CASE PacketbufNext
    BY <2>1, OperationIsStep DEF PacketbufNext
  <2>2. CASE UNCHANGED packetbufVars
    BY <2>2 DEF packetbufVars, pointerVars, Packet!packet, QueuedWhole, HdrBytes, DataBytes, BytesAt,
                packetbuf_hdrlen, packetbuf_is_reference
  <2> QED
    BY <2>1, <2>2
<1> QED
  BY <1>1, <1>2, PointersStayInBounds, PTL DEF PacketbufSpec, ImplementsPacket, Packet!Spec
=============================================================================
