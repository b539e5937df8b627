----------------------------- MODULE PartProofs -----------------------------
(***************************************************************************)
(* Proofs about parts of the system that share no state: managed memory,   *)
(* the native sensors and board, threads and protothreads, packet buffer   *)
(* and address, the serial port, the robot of the host.                    *)
(***************************************************************************)
EXTENDS Mmem, Peripherals, Board, Mt, Protothread, PacketBuf, Uart, HostReader,
        SpiRadio, RingArithmetic, SequenceTheorems, FiniteSetTheorems, TLAPS

-----------------------------------------------------------------------------
(***************************************************************************)
(* For every size of the memory, every set of blocks and all sizes asked   *)
(* for: blocks stay intact.  BlocksIntact is inductive as it stands; that  *)
(* the layout orders all pairs of blocks, and not only neighbours, is what *)
(* makes it so.                                                            *)
(***************************************************************************)

\* Where the block at i of the list begins, and where it ends.
Begins(i) == mmem[mmemlist[i]].ptr
Ends(i) == mmem[mmemlist[i]].ptr + mmem[mmemlist[i]].size

\* What the types say of the block at a place of the list.
LEMMA BlockTypes ==
  ASSUME MmemTypeOK, NEW i \in 1 .. Len(mmemlist)
  PROVE  /\ mmemlist[i] \in Block
         /\ Begins(i) \in Nat /\ Ends(i) \in Nat
         /\ mmem[mmemlist[i]].size \in Nat
         /\ Ends(i) = Begins(i) + mmem[mmemlist[i]].size
  BY MmemAssumption DEF MmemTypeOK, Begins, Ends

\* No block reaches beyond the allocated memory.
LEMMA BlocksEnd ==
  ASSUME MmemTypeOK, Layout, NEW i \in 1 .. Len(mmemlist)
  PROVE  Ends(i) <= End
<1> DEFINE n == Len(mmemlist)
<1>1. n \in Nat /\ n \in 1 .. n /\ n >= 1
  BY DEF MmemTypeOK
<1>2. Ends(n) = End
  BY <1>1 DEF Layout, Ends
<1>3. End \in Int
  BY MmemAssumption DEF MmemTypeOK, End
<1>4. CASE i = n
  BY <1>2, <1>3, <1>4
<1>5. CASE i < n
  <2>1. Ends(i) <= Begins(n)
    BY <1>1, <1>5 DEF Layout, Ends, Begins
  <2> QED
    BY <2>1, <1>1, <1>2, <1>3, BlockTypes
<1> QED
  BY <1>1, <1>4, <1>5

LEMMA Within ==
  ASSUME NEW p \in Nat, NEW t \in Nat, NEW q \in Nat, p + t <= q, NEW k \in 0 .. t - 1
  PROVE  p + k \in 0 .. q - 1
  OBVIOUS

LEMMA Apart ==
  ASSUME NEW p \in Nat, NEW s \in Nat, NEW q \in Nat, NEW t \in Nat,
         p + s <= q \/ q + t <= p, NEW k \in 0 .. t - 1
  PROVE  q + k \notin p .. p + s - 1
  OBVIOUS

\* A block that is allocated is somewhere in the list.
LEMMA InList ==
  ASSUME MmemTypeOK, NEW b \in Allocated
  PROVE  \E i \in 1 .. Len(mmemlist) : mmemlist[i] = b
<1>1. mmemlist \in Seq(Block)
  BY DEF MmemTypeOK
<1>2. DOMAIN mmemlist = 1 .. Len(mmemlist)
  BY <1>1
<1> QED
  BY <1>2 DEF Allocated

LEMMA InitIntact == ASSUME MmemInit PROVE BlocksIntact
<1>1. MmemTypeOK
  BY MmemAssumption DEF MmemInit, MmemTypeOK, Allocated
<1>2. Layout
  BY MmemAssumption DEF MmemInit, Layout, End
<1> QED
  BY <1>1, <1>2 DEF MmemInit, BlocksIntact

\* A new block is put where the free memory begins.
LEMMA AllocKeeps ==
  ASSUME BlocksIntact, NEW m \in Block, NEW s \in Size, mmem_alloc(m, s)
  PROVE  BlocksIntact'
<1> USE MmemAssumption
<1>0. MmemTypeOK /\ Layout
  BY DEF BlocksIntact
<1> PICK n \in Nat : n = Len(mmemlist)
  BY <1>0 DEF MmemTypeOK
<1>1. /\ s \in Nat /\ End \in Nat
      /\ avail_memory' \in 0 .. MMEM_SIZE
      /\ End' = End + s
  BY <1>0 DEF MmemTypeOK, End, mmem_alloc
<1>2. /\ Len(mmemlist') = n + 1
      /\ mmemlist' \in Seq(Block)
      /\ mmemlist'[n + 1] = m
      /\ \A i \in 1 .. n : mmemlist'[i] = mmemlist[i]
  BY <1>0 DEF MmemTypeOK, mmem_alloc
<1>3. /\ mmem'[m] = [size |-> s, ptr |-> End]
      /\ \A b \in Block \ {m} : mmem'[b] = mmem[b]
      /\ mmem' \in [Block -> [size : Nat, ptr : Nat]]
  BY <1>0, <1>1 DEF MmemTypeOK, mmem_alloc
<1>4. \A i \in 1 .. n : mmemlist[i] # m /\ mmemlist[i] \in Block
  <2>1. mmemlist \in Seq(Block) /\ DOMAIN mmemlist = 1 .. n
    BY <1>0 DEF MmemTypeOK
  <2>2. m \notin Allocated
    BY DEF mmem_alloc
  <2> QED
    BY <2>1, <2>2 DEF Allocated
<1>5. /\ \A i \in 1 .. n : Begins(i)' = Begins(i) /\ Ends(i)' = Ends(i)
      /\ Begins(n + 1)' = End /\ Ends(n + 1)' = End + s
  <2>1. ASSUME NEW i \in 1 .. n
        PROVE  mmem'[mmemlist'[i]] = mmem[mmemlist[i]]
    BY <1>2, <1>3, <1>4
  <2>2. mmem'[mmemlist'[n + 1]] = [size |-> s, ptr |-> End]
    BY <1>2, <1>3
  <2> QED
    BY <2>1, <2>2 DEF Begins, Ends
<1>6. \A b \in Allocated : b \in Allocated' /\ b # m /\ b \in Block
  BY <1>1, <1>2, <1>4 DEF Allocated
<1>7. MmemTypeOK'
  BY <1>0, <1>1, <1>2, <1>3, <1>6 DEF MmemTypeOK, mmem_alloc
<1>8. Layout'
  <2>1. ASSUME NEW i \in 1 .. n + 1, NEW j \in 1 .. n + 1, i < j
        PROVE  mmemlist'[i] # mmemlist'[j] /\ Ends(i)' <= Begins(j)'
    <3>1. i \in 1 .. n
      BY <1>1, <2>1
    <3>2. CASE j \in 1 .. n
      BY <1>0, <1>2, <1>5, <2>1, <3>1, <3>2 DEF Layout, Begins, Ends
    <3>3. CASE j = n + 1
      <4>1. mmemlist'[i] # mmemlist'[j]
        BY <1>2, <1>4, <3>1, <3>3
      <4>2. Ends(i) <= End
        BY <1>0, <3>1, BlocksEnd
      <4> QED
        BY <1>5, <3>1, <3>3, <4>1, <4>2
    <3> QED
      BY <1>1, <3>2, <3>3
  <2>2. ASSUME NEW i \in 1 .. n + 1
        PROVE  Ends(i)' = IF i = n + 1 THEN End' ELSE Begins(i + 1)'
    <3>1. CASE i = n + 1
      BY <1>1, <1>5, <3>1
    <3>2. CASE i = n
      BY <1>0, <1>1, <1>5, <3>2 DEF Layout, Ends
    <3>3. CASE i < n
      BY <1>0, <1>1, <1>5, <3>3 DEF Layout, Begins, Ends
    <3> QED
      BY <1>1, <3>1, <3>2, <3>3
  <2>3. Begins(1)' = 0 /\ mmemlist' # <<>>
    <3>1. CASE mmemlist = <<>>
      <4>1. n = 0 /\ n + 1 = 1
        BY <3>1
      <4>2. End = 0
        BY <1>0, <3>1 DEF Layout
      <4>3. Begins(1)' = End
        BY <1>5, <4>1
      <4>4. mmemlist' # <<>>
        BY <1>2, <4>1
      <4> QED
        BY <4>2, <4>3, <4>4
    <3>2. CASE mmemlist # <<>>
      <4>1. 1 \in 1 .. n
        BY <1>0, <3>2 DEF MmemTypeOK
      <4> QED
        BY <1>0, <1>2, <1>5, <3>2, <4>1 DEF Layout, Begins
    <3> QED
      BY <3>1, <3>2
  <2> QED
    BY <1>2, <2>1, <2>2, <2>3 DEF Layout, Begins, Ends
<1>9. \A b \in filled' : Kept(b)'
  BY <1>0, <1>3, <1>6 DEF BlocksIntact, MmemTypeOK, Kept, mmem_alloc
<1> QED
  BY <1>7, <1>8, <1>9 DEF BlocksIntact

\* Two blocks of the list do not overlap.
LEMMA Disjoint ==
  ASSUME MmemTypeOK, Layout, NEW i \in 1 .. Len(mmemlist), NEW j \in 1 .. Len(mmemlist),
         i # j
  PROVE  mmemlist[i] # mmemlist[j] /\ (Ends(i) <= Begins(j) \/ Ends(j) <= Begins(i))
<1>1. i < j \/ j < i
  OBVIOUS
<1> QED
  BY <1>1 DEF Layout, Begins, Ends

LEMMA FillKeeps ==
  ASSUME BlocksIntact, NEW m \in Block, Fill(m)
  PROVE  BlocksIntact'
<1> USE MmemAssumption
<1>0. MmemTypeOK /\ Layout
  BY DEF BlocksIntact
<1>1. MmemTypeOK'
  BY <1>0 DEF MmemTypeOK, Fill, Allocated
<1>2. Layout'
  BY <1>0 DEF Layout, Fill, End
<1>3. PICK i \in 1 .. Len(mmemlist) : mmemlist[i] = m
  BY <1>0, InList DEF Fill
<1>4. End <= MMEM_SIZE /\ End \in Nat
  BY <1>0 DEF MmemTypeOK, End
<1>6. /\ mmem[m].ptr \in Nat /\ mmem[m].size \in Nat
      /\ Begins(i) = mmem[m].ptr /\ Ends(i) = mmem[m].ptr + mmem[m].size
      /\ mmem[m].ptr + mmem[m].size <= MMEM_SIZE
  <2>1. Begins(i) \in Nat /\ Ends(i) \in Nat /\ mmem[mmemlist[i]].size \in Nat
    BY <1>0, BlockTypes
  <2>2. Ends(i) <= End
    BY <1>0, BlocksEnd
  <2> QED
    BY <1>3, <1>4, <2>1, <2>2 DEF Begins, Ends
<1>5. ASSUME NEW b \in filled'
      PROVE  Kept(b)'
  <2>1. CASE b = m
    <3> SUFFICES ASSUME NEW k \in 0 .. mmem[m].size - 1
                 PROVE  memory'[mmem[m].ptr + k] = Content(m, k)
      BY <2>1 DEF Kept, Fill
    <3>2. mmem[m].ptr + k \in DOMAIN memory
      BY <1>0, <1>6 DEF MmemTypeOK
    <3>3. /\ mmem[m].ptr + k \in mmem[m].ptr .. mmem[m].ptr + mmem[m].size - 1
          /\ (mmem[m].ptr + k) - mmem[m].ptr = k
      BY <1>6
    <3> QED
      BY <3>2, <3>3 DEF Fill
  <2>2. CASE b # m
    <3>1. b \in filled /\ Kept(b)
      BY <2>2 DEF Fill, BlocksIntact
    <3>2. PICK j \in 1 .. Len(mmemlist) : mmemlist[j] = b
      BY <1>0, <3>1, InList DEF MmemTypeOK
    <3>3. /\ mmem[b].ptr \in Nat /\ mmem[b].size \in Nat
          /\ Begins(j) = mmem[b].ptr /\ Ends(j) = mmem[b].ptr + mmem[b].size
          /\ mmem[b].ptr + mmem[b].size <= MMEM_SIZE
      <4>1. Begins(j) \in Nat /\ Ends(j) \in Nat /\ mmem[mmemlist[j]].size \in Nat
        BY <1>0, BlockTypes
      <4>2. Ends(j) <= End
        BY <1>0, BlocksEnd
      <4> QED
        BY <1>4, <3>2, <4>1, <4>2 DEF Begins, Ends
    <3>4. Ends(i) <= Begins(j) \/ Ends(j) <= Begins(i)
      BY <1>0, <1>3, <2>2, <3>2, Disjoint
    <3> SUFFICES ASSUME NEW k \in 0 .. mmem[b].size - 1
                 PROVE  memory'[mmem[b].ptr + k] = Content(b, k)
      BY DEF Kept, Fill
    <3>5. /\ mmem[b].ptr + k \in DOMAIN memory
          /\ mmem[b].ptr + k \notin mmem[m].ptr .. mmem[m].ptr + mmem[m].size - 1
      <4>1. mmem[b].ptr + k \in 0 .. MMEM_SIZE - 1
        BY <3>3
      <4>2. \/ mmem[m].ptr + mmem[m].size <= mmem[b].ptr
            \/ mmem[b].ptr + mmem[b].size <= mmem[m].ptr
        BY <1>6, <3>3, <3>4
      <4>3. mmem[b].ptr + k \in DOMAIN memory
        BY <1>0, <4>1 DEF MmemTypeOK
      <4>4. mmem[b].ptr + k \notin mmem[m].ptr .. mmem[m].ptr + mmem[m].size - 1
        BY <1>6, <3>3, <4>2, Apart
      <4> QED
        BY <4>3, <4>4
    <3> QED
      BY <3>1, <3>5 DEF Fill, Kept
  <2> QED
    BY <2>1, <2>2
<1> QED
  BY <1>1, <1>2, <1>5 DEF BlocksIntact

\* The block at i is freed: the list closes up, and what was behind it comes
\* nearer by its size.
LEMMA FreeKeeps ==
  ASSUME BlocksIntact, NEW i \in 1 .. Len(mmemlist), mmem_free(i)
  PROVE  BlocksIntact'
<1> USE MmemAssumption
<1>0. MmemTypeOK /\ Layout
  BY DEF BlocksIntact
<1> PICK n \in Nat : n = Len(mmemlist)
  BY <1>0 DEF MmemTypeOK
<1> DEFINE Old(j) == IF j < i THEN j ELSE j + 1
<1>a. n \in Nat /\ i \in 1 .. n
  OBVIOUS
<1>1. PICK s \in Nat : s = mmem[mmemlist[i]].size
  BY <1>0, BlockTypes
<1>2. \A j \in 1 .. n :
        /\ mmemlist[j] \in Block
        /\ Begins(j) \in Nat /\ Ends(j) \in Nat
        /\ mmem[mmemlist[j]].size \in Nat
        /\ Ends(j) = Begins(j) + mmem[mmemlist[j]].size
        /\ Ends(j) <= End
  BY <1>0, BlockTypes, BlocksEnd
<1>3. /\ \A j, k \in 1 .. n : j < k => mmemlist[j] # mmemlist[k] /\ Ends(j) <= Begins(k)
      /\ \A j \in 1 .. n : Ends(j) = IF j = n THEN End ELSE Begins(j + 1)
      /\ Begins(1) = 0
      /\ Ends(i) = Begins(i) + s
  <2>1. mmemlist # <<>>
    BY <1>0 DEF MmemTypeOK
  <2> QED
    BY <1>0, <1>1, <1>2, <2>1 DEF Layout, Begins, Ends
<1>4. /\ Len(mmemlist') = n - 1
      /\ mmemlist' \in Seq(Block)
      /\ \A j \in 1 .. n - 1 : Old(j) \in 1 .. n /\ mmemlist'[j] = mmemlist[Old(j)]
  <2>1. mmemlist' = [j \in 1 .. n - 1 |-> mmemlist[Old(j)]]
    BY DEF mmem_free, Without
  <2>2. n - 1 \in Nat /\ \A j \in 1 .. n - 1 : Old(j) \in 1 .. n
    BY <1>a
  <2>3. \A j \in 1 .. n - 1 : mmemlist[Old(j)] \in Block
    BY <1>2, <2>2
  <2> HIDE DEF Old
  <2> QED
    BY <2>1, <2>2, <2>3
<1>5. \A j \in 1 .. n : mmemlist[j] \in Moved(i) <=> j > i
  BY <1>3 DEF Moved
<1>6. \A j \in 1 .. n :
        mmem'[mmemlist[j]] = IF j > i THEN [mmem[mmemlist[j]] EXCEPT !.ptr = @ - s]
                                      ELSE mmem[mmemlist[j]]
  BY <1>1, <1>2, <1>5 DEF mmem_free
<1>7. \A j \in 1 .. n - 1 :
        /\ Begins(j)' = IF j < i THEN Begins(j) ELSE Begins(j + 1) - s
        /\ Ends(j)' = IF j < i THEN Ends(j) ELSE Ends(j + 1) - s
  <2> SUFFICES ASSUME NEW j \in 1 .. n - 1
               PROVE  /\ Begins(j)' = IF j < i THEN Begins(j) ELSE Begins(j + 1) - s
                      /\ Ends(j)' = IF j < i THEN Ends(j) ELSE Ends(j + 1) - s
    OBVIOUS
  <2>1. CASE j < i
    <3>1. mmem'[mmemlist'[j]] = mmem[mmemlist[j]]
      <4>1. j \in 1 .. n /\ ~(j > i) /\ Old(j) = j
        BY <1>a, <2>1
      <4> QED
        BY <1>4, <1>6, <4>1
    <3> QED
      BY <2>1, <3>1 DEF Begins, Ends
  <2>2. CASE ~(j < i)
    <3>1. mmem'[mmemlist'[j]] = [mmem[mmemlist[j + 1]] EXCEPT !.ptr = @ - s]
      BY <1>4, <1>6, <2>2
    <3>2. mmem[mmemlist[j + 1]] \in [size : Nat, ptr : Nat]
      BY <1>0, <1>2 DEF MmemTypeOK
    <3> QED
      BY <2>2, <3>1, <3>2 DEF Begins, Ends
  <2> QED
    BY <2>1, <2>2
<1>8. /\ End \in Nat /\ s <= End
      /\ avail_memory' = avail_memory + s
      /\ avail_memory' \in 0 .. MMEM_SIZE
      /\ End' = End - s
  <2>1. Ends(i) <= End /\ Begins(i) \in Nat /\ Ends(i) = Begins(i) + s
    BY <1>2, <1>3
  <2>2. avail_memory \in 0 .. MMEM_SIZE /\ avail_memory' = avail_memory + s
    BY <1>0, <1>1 DEF MmemTypeOK, mmem_free
  <2>3. End = MMEM_SIZE - avail_memory /\ End' = MMEM_SIZE - avail_memory'
    BY DEF End
  <2> QED
    BY <2>1, <2>2, <2>3
<1>9. Layout'
  <2>1. ASSUME NEW j \in 1 .. n - 1, NEW k \in 1 .. n - 1, j < k
        PROVE  mmemlist'[j] # mmemlist'[k] /\ Ends(j)' <= Begins(k)'
    <3>1. mmemlist'[j] # mmemlist'[k]
      <4>1. Old(j) \in 1 .. n /\ Old(k) \in 1 .. n /\ Old(j) < Old(k)
        BY <1>a, <2>1
      <4> HIDE DEF Old
      <4>2. mmemlist'[j] = mmemlist[Old(j)] /\ mmemlist'[k] = mmemlist[Old(k)]
        BY <1>4
      <4> QED
        BY <1>3, <4>1, <4>2
    <3>2. CASE k < i
      <4>1. Ends(j) <= Begins(k)
        BY <1>3, <2>1
      <4>2. Ends(j)' = Ends(j) /\ Begins(k)' = Begins(k)
        BY <1>7, <1>a, <2>1, <3>2
      <4> QED
        BY <3>1, <4>1, <4>2
    <3>3. CASE j < i /\ ~(k < i)
      <4>1. Ends(j) <= Begins(i) /\ Ends(i) <= Begins(k + 1)
        BY <1>3, <2>1, <3>3
      <4>2. Ends(j)' = Ends(j) /\ Begins(k)' = Begins(k + 1) - s
        BY <1>7, <3>3
      <4> QED
        <5>1. Begins(i) = Ends(i) - s /\ Ends(i) - s <= Begins(k + 1) - s
          BY <1>2, <1>3, <4>1
        <5>2. Begins(i) \in Int /\ Ends(j) \in Int /\ Begins(k + 1) - s \in Int
          BY <1>2
        <5> QED
          BY <3>1, <4>1, <4>2, <5>1, <5>2
    <3>4. CASE ~(j < i)
      <4>1. Ends(j + 1) <= Begins(k + 1)
        BY <1>3, <2>1
      <4>2. Ends(j)' = Ends(j + 1) - s /\ Begins(k)' = Begins(k + 1) - s
        BY <1>7, <2>1, <3>4
      <4> QED
        BY <1>2, <3>1, <4>1, <4>2
    <3> QED
      BY <2>1, <3>1, <3>2, <3>3, <3>4
  <2>2. ASSUME NEW j \in 1 .. n - 1
        PROVE  Ends(j)' = IF j = n - 1 THEN End' ELSE Begins(j + 1)'
    <3>1. CASE j < i - 1
      BY <1>3, <1>7, <3>1
    <3>2. CASE j = i - 1
      <4>1. Ends(j) = Begins(i)
        BY <1>3, <3>2
      <4>2. Ends(j)' = Ends(j)
        BY <1>7, <3>2
      <4>3. CASE i = n
        <5>1. Ends(n) = End /\ Ends(n) = Begins(n) + s
          BY <1>3, <4>3
        <5>2. End' = Begins(n)
          BY <1>2, <1>8, <1>a, <4>3, <5>1
        <5> QED
          BY <3>2, <4>1, <4>2, <4>3, <5>2
      <4>4. CASE i < n
        <5>1. Begins(j + 1)' = Begins(i + 1) - s
          BY <1>7, <3>2, <4>4
        <5> QED
          BY <1>2, <1>3, <3>2, <4>1, <4>2, <4>4, <5>1
      <4> QED
        BY <4>3, <4>4
    <3>3. CASE j >= i
      BY <1>3, <1>7, <1>8, <3>3
    <3> QED
      BY <3>1, <3>2, <3>3
  <2>3. IF n = 1 THEN mmemlist' = <<>> /\ End' = 0 ELSE Begins(1)' = 0
    <3>1. CASE n = 1
      BY <1>2, <1>3, <1>4, <1>8, <3>1
    <3>2. CASE n # 1 /\ i = 1
      <4>1. Begins(1)' = Begins(2) - s
        BY <1>7, <3>2
      <4> QED
        BY <1>2, <1>3, <3>2, <4>1
    <3>3. CASE n # 1 /\ i # 1
      BY <1>3, <1>7, <3>3
    <3> QED
      BY <3>1, <3>2, <3>3
  <2>4. n # 1 => mmemlist' # <<>>
    BY <1>4
  <2>5. \A j, k \in 1 .. n - 1 : j < k => mmemlist'[j] # mmemlist'[k] /\ Ends(j)' <= Begins(k)'
    BY <2>1
  <2>6. \A j \in 1 .. n - 1 : Ends(j)' = IF j = n - 1 THEN End' ELSE Begins(j + 1)'
    BY <2>2
  <2>7. IF mmemlist' = <<>> THEN End' = 0 ELSE Begins(1)' = 0
    BY <2>3, <2>4
  <2> HIDE DEF Old
  <2>8. Layout' <=>
          /\ \A j, k \in 1 .. Len(mmemlist') :
               j < k => mmemlist'[j] # mmemlist'[k] /\ Ends(j)' <= Begins(k)'
          /\ \A j \in 1 .. Len(mmemlist') :
               Ends(j)' = IF j = Len(mmemlist') THEN End' ELSE Begins(j + 1)'
          /\ IF mmemlist' = <<>> THEN End' = 0 ELSE Begins(1)' = 0
    BY DEF Layout, Begins, Ends
  <2>9. Len(mmemlist') = n - 1
    BY <1>4
  <2> QED
    BY <2>5, <2>6, <2>7, <2>8, <2>9
<1>10. \A b \in filled' : \E j \in 1 .. n : j # i /\ mmemlist[j] = b /\ b \in filled
  <2> SUFFICES ASSUME NEW b \in filled'
               PROVE  \E j \in 1 .. n : j # i /\ mmemlist[j] = b /\ b \in filled
    OBVIOUS
  <2>1. b \in filled /\ b # mmemlist[i]
    BY DEF mmem_free
  <2>2. \E j \in 1 .. n : mmemlist[j] = b
    BY <1>0, <2>1, InList DEF MmemTypeOK
  <2> QED
    BY <2>1, <2>2
<1>11. MmemTypeOK'
  <2>1. filled' \subseteq Allocated'
    <3> SUFFICES ASSUME NEW b \in filled'
                 PROVE  b \in Allocated'
      OBVIOUS
    <3>1. PICK j \in 1 .. n : j # i /\ mmemlist[j] = b
      BY <1>10
    <3>2. \E k \in 1 .. n - 1 : mmemlist'[k] = b
      <4>1. CASE j < i
        BY <1>4, <3>1, <4>1
      <4>2. CASE j > i
        <5>1. j - 1 \in 1 .. n - 1 /\ Old(j - 1) = j
          BY <4>2
        <5> QED
          BY <1>4, <3>1, <5>1
      <4> QED
        BY <3>1, <4>1, <4>2
    <3> QED
      BY <1>4, <3>2 DEF Allocated
  <2>2. DOMAIN memory' = 0 .. MMEM_SIZE - 1
    BY <1>0 DEF MmemTypeOK, mmem_free, memmove
  <2>3. mmem' \in [Block -> [size : Nat, ptr : Nat]]
    <3>1. \A j \in 1 .. n : j > i => mmem[mmemlist[j]].ptr - s \in Nat
      BY <1>2, <1>3 DEF Begins
    <3>2. \A b \in Moved(i) : mmem[b].ptr - s \in Nat
      BY <3>1 DEF Moved
    <3>3. mmem' = [b \in Block |-> IF b \in Moved(i) THEN [mmem[b] EXCEPT !.ptr = @ - s]
                                                     ELSE mmem[b]]
      BY <1>1 DEF mmem_free
    <3> QED
      BY <1>0, <3>2, <3>3 DEF MmemTypeOK
  <2> QED
    BY <1>4, <1>8, <2>1, <2>2, <2>3 DEF MmemTypeOK
<1>12. ASSUME NEW b \in filled'
       PROVE  Kept(b)'
  <2>1. PICK j \in 1 .. n : j # i /\ mmemlist[j] = b /\ b \in filled
    BY <1>10
  <2>2. Kept(b)
    BY <2>1 DEF BlocksIntact
  <2>3. /\ Begins(j) = mmem[b].ptr /\ mmem[b].size \in Nat /\ Begins(j) \in Nat
        /\ Ends(j) = Begins(j) + mmem[b].size /\ Ends(j) <= End /\ End <= MMEM_SIZE
        /\ Begins(i) \in Nat
    BY <1>0, <1>2, <2>1 DEF Begins, End, MmemTypeOK
  <2>4. mmem'[b].size = mmem[b].size
    <3>1. mmem[b] \in [size : Nat, ptr : Nat]
      BY <1>0, <1>2, <2>1 DEF MmemTypeOK
    <3> QED
      <4>1. \/ mmem'[b] = mmem[b]
            \/ mmem'[b] = [mmem[b] EXCEPT !.ptr = @ - s]
        BY <1>6, <2>1
      <4> QED
        BY <3>1, <4>1
  <2>5. ASSUME NEW k \in 0 .. mmem[b].size - 1
        PROVE  memory'[mmem'[b].ptr + k] = memory[mmem[b].ptr + k]
    <3>1. CASE j < i
      <4>1. mmem'[b].ptr = mmem[b].ptr
        <5>1. j \in 1 .. n /\ ~(j > i) /\ mmemlist[j] = b
          BY <1>a, <2>1, <3>1
        <5>2. mmem'[b] = mmem[b]
          BY <1>6, <5>1
        <5> QED
          BY <5>2
      <4>2. mmem[b].ptr \in Nat /\ mmem[b].ptr + mmem[b].size <= Begins(i)
        BY <1>3, <2>3, <3>1
      <4>3. mmem[b].ptr + k \in 0 .. Begins(i) - 1
        BY <2>3, <4>2, Within
      <4>4. Begins(i) <= MMEM_SIZE
        <5>1. Begins(i) <= Ends(i) /\ Ends(i) <= End /\ Ends(i) \in Nat
          BY <1>a, <1>2
        <5>2. MMEM_SIZE \in Nat
          BY MmemAssumption
        <5> QED
          BY <1>8, <2>3, <5>1, <5>2
      <4>5. mmem[b].ptr + k \in DOMAIN memory /\ ~(Begins(i) <= mmem[b].ptr + k)
        <5>1. mmem[b].ptr + k \in 0 .. MMEM_SIZE - 1
          BY <2>3, <4>3, <4>4
        <5>2. mmem[b].ptr + k \in DOMAIN memory
          BY <1>0, <5>1 DEF MmemTypeOK
        <5>3. ~(Begins(i) <= mmem[b].ptr + k)
          BY <2>3, <4>3
        <5> QED
          BY <5>2, <5>3
      <4>6. ASSUME NEW p \in DOMAIN memory, ~(Begins(i) <= p)
            PROVE  memory'[p] = memory[p]
        <5>1. p \in Int /\ DOMAIN memory = 0 .. MMEM_SIZE - 1
          BY <1>0 DEF MmemTypeOK
        <5>2. \A q : p \notin Begins(i) .. q
          BY <4>6, <5>1
        <5> QED
          BY <5>2 DEF mmem_free, memmove, Begins
      <4> QED
        BY <4>1, <4>5, <4>6
    <3>2. CASE j > i
      <4>1. Begins(i + 1) = Begins(i) + s /\ Begins(i + 1) <= Begins(j)
        BY <1>2, <1>3, <2>3, <3>2
      <4>2. mmem'[b].ptr = mmem[b].ptr - s
        <5>1. mmem[b] \in [size : Nat, ptr : Nat]
          BY <1>0, <1>2, <2>1 DEF MmemTypeOK
        <5> QED
          BY <1>6, <2>1, <3>2, <5>1
      <4>3. /\ i < Len(mmemlist)
            /\ memory' = [p \in 0 .. MMEM_SIZE - 1 |->
                 IF p \in Begins(i) .. Begins(i) + (End - Begins(i + 1)) - 1
                 THEN memory[p + (Begins(i + 1) - Begins(i))] ELSE memory[p]]
        BY <1>0, <3>2 DEF mmem_free, memmove, Begins, MmemTypeOK
      <4>4. /\ mmem'[b].ptr + k \in 0 .. MMEM_SIZE - 1
            /\ mmem'[b].ptr + k \in Begins(i) .. Begins(i) + (End - Begins(i + 1)) - 1
            /\ mmem'[b].ptr + k + (Begins(i + 1) - Begins(i)) = mmem[b].ptr + k
        <5>1. /\ mmem[b].ptr \in Nat /\ Begins(i + 1) \in Nat /\ End \in Nat
              /\ Begins(i + 1) <= mmem[b].ptr /\ mmem[b].ptr + mmem[b].size <= End
              /\ Begins(i + 1) = Begins(i) + s
          BY <1>2, <1>8, <2>3, <3>2, <4>1
        <5>2. /\ (mmem[b].ptr - s) + k \in 0 .. MMEM_SIZE - 1
              /\ (mmem[b].ptr - s) + k \in Begins(i) .. Begins(i) + (End - Begins(i + 1)) - 1
              /\ (mmem[b].ptr - s) + k + (Begins(i + 1) - Begins(i)) = mmem[b].ptr + k
          <6>1. PICK p \in Nat : p = mmem[b].ptr
            BY <5>1
          <6>2. PICK t \in Nat : t = mmem[b].size
            BY <2>3
          <6>3. PICK a \in Nat : a = Begins(i)
            BY <2>3
          <6>4. PICK c \in Nat : c = Begins(i + 1)
            BY <5>1
          <6>5. PICK e \in Nat : e = End
            BY <5>1
          <6>6. c = a + s /\ c <= p /\ p + t <= e /\ e <= MMEM_SIZE /\ k \in 0 .. t - 1
            BY <2>3, <5>1, <6>1, <6>2, <6>3, <6>4, <6>5
          <6>7. k \in Nat /\ k <= t - 1
            BY <6>6
          <6>8. (p - s) + k >= a /\ (p - s) + k \in Nat
            BY <6>6, <6>7
          <6>9. (p - s) + k <= a + (e - c) - 1 /\ a + (e - c) - 1 \in Int
            BY <6>6, <6>7
          <6>10. (p - s) + k <= MMEM_SIZE - 1 /\ (p - s) + k + (c - a) = p + k
            BY <6>6, <6>7, MmemAssumption
          <6>11. /\ (p - s) + k \in 0 .. MMEM_SIZE - 1
                 /\ (p - s) + k \in a .. a + (e - c) - 1
            BY <6>8, <6>9, <6>10, MmemAssumption
          <6> QED
            BY <6>1, <6>3, <6>4, <6>5, <6>10, <6>11
        <5> QED
          BY <4>2, <5>2
      <4> QED
        BY <4>3, <4>4
    <3> QED
      BY <2>1, <3>1, <3>2
  <2> QED
    BY <2>2, <2>4, <2>5 DEF Kept
<1> QED
  BY <1>9, <1>11, <1>12 DEF BlocksIntact

\* Blocks are intact whatever is allocated, written and freed (mmem_alloc,
\* mmem_free), for every size of the memory.
THEOREM BlocksStayIntact == MmemSpec => []BlocksIntact
<1>1. MmemInit => BlocksIntact
  BY InitIntact
<1>2. BlocksIntact /\ [MmemNext]_mmemVars => BlocksIntact'
  <2> SUFFICES ASSUME BlocksIntact, [MmemNext]_mmemVars
               PROVE  BlocksIntact'
    OBVIOUS
  <2>1. CASE \E m \in Block, s \in Size : mmem_alloc(m, s)
    BY <2>1, AllocKeeps
  <2>2. CASE \E m \in Block : Fill(m)
    BY <2>2, FillKeeps
  <2>3. CASE \E i \in 1 .. Len(mmemlist) : mmem_free(i)
    BY <2>3, FreeKeeps
  <2>4. CASE UNCHANGED mmemVars
    BY <2>4 DEF mmemVars, BlocksIntact, MmemTypeOK, Layout, Kept, Allocated, End
  <2> QED
    BY <2>1, <2>2, <2>3, <2>4 DEF MmemNext
<1> QED
  BY <1>1, <1>2, PTL DEF MmemSpec

-----------------------------------------------------------------------------
(***************************************************************************)
(* lib/vlo_sync.c: the second is measured, but for ticks that are lost.    *)
(***************************************************************************)

\* The ticks of the radio in this measurement, the waiting one and the lost ones included.
RadioTicks == radio_tick_count + (IF P2IFG THEN 1 ELSE 0) + missed_ticks

VloTypes ==
  /\ radio_phase \in 0 .. RADIO - 1 /\ vlo_phase \in 0 .. VLO - 1
  /\ TBR \in Nat /\ radio_tick_count \in Nat /\ held \in Nat /\ elapsed \in Nat
  /\ missed_ticks \in Nat /\ answer \in Int

\* The registers follow main.
VloStages ==
  /\ P2IFG \in BOOLEAN /\ P2IE \in BOOLEAN /\ MC_CONT \in BOOLEAN
  /\ main \in {"idle", "cleared", "enabled", "measuring"}
  /\ P2IE <=> main \in {"enabled", "measuring"}
  /\ MC_CONT <=> main = "measuring"
  /\ main # "measuring" => held = 0
  /\ main \in {"cleared", "enabled"} =>
       ~P2IFG /\ TBR = 0 /\ radio_tick_count = 0 /\ missed_ticks = 0 /\ elapsed = 0
  /\ main # "idle" => answer = -1

\* What a clock has counted, and the time.
Counted(ticks, span, part, units) ==
  /\ ticks * span + part <= units + span - 1
  /\ units <= ticks * span + part

\* What may be answered, so many ticks having been lost.
ASecond(ticks, skips) ==
  /\ ticks * VLO <= (ticks_second + skips) * RADIO + MaxHold + VLO
  /\ (ticks + 1) * VLO > (ticks_second + skips - 1) * RADIO

\* When a waiting tick was raised.
Raised == P2IFG => elapsed <= RadioTicks * RADIO + held

VloCounts ==
  /\ held <= MaxHold
  /\ main = "measuring" =>
       /\ Counted(RadioTicks, RADIO, radio_phase, elapsed)
       /\ Counted(TBR, VLO, vlo_phase, elapsed)
       /\ radio_tick_count < ticks_second
       /\ Raised
  /\ answer # -1 => ASecond(answer, missed_ticks)

LEMMA TickCases ==
  /\ P2IFG => RadioTicks = radio_tick_count + 1 + missed_ticks
  /\ ~P2IFG => RadioTicks = radio_tick_count + 0 + missed_ticks
  /\ P2IFG' => RadioTicks' = radio_tick_count' + 1 + missed_ticks'
BY DEF RadioTicks

LEMMA VloConstants ==
  /\ ticks_second \in Nat /\ RADIO \in Nat /\ VLO \in Nat /\ MaxHold \in Nat
  /\ ticks_second > 0 /\ RADIO > 0 /\ VLO > 0 /\ MaxHold > 0
BY VloAssumption

LEMMA OneMore ==
  ASSUME NEW e \in Int, NEW r \in Int
  PROVE  e * r \in Int /\ (e + 1) * r = e * r + r /\ (e - 1) * r = e * r - r
OBVIOUS

LEMMA NoFewer ==
  ASSUME NEW e \in Int, NEW f \in Int, NEW r \in Nat, e <= f
  PROVE  e * r <= f * r
<1>1. (f - e) * r >= 0
  OBVIOUS
<1> QED
  BY <1>1

LEMMA NextPhase ==
  ASSUME NEW p \in Nat, NEW r \in Nat \ {0}, p \in 0 .. r - 1
  PROVE  /\ p = r - 1 => (p + 1) % r = 0
         /\ p # r - 1 => (p + 1) % r = p + 1
OBVIOUS

\* A unit of time passes, for either clock.
LEMMA CountGoesOn ==
  ASSUME NEW ticks \in Nat, NEW span \in Nat \ {0}, NEW part \in 0 .. span - 1,
         NEW units \in Nat, Counted(ticks, span, part, units)
  PROVE  IF (part + 1) % span = 0 THEN Counted(ticks + 1, span, 0, units + 1)
         ELSE Counted(ticks, span, (part + 1) % span, units + 1)
<1>1. PICK m \in Int : m = ticks * span /\ (ticks + 1) * span = m + span
  BY OneMore
<1>2. m + part <= units + span - 1 /\ units <= m + part
  BY <1>1 DEF Counted
<1>3. CASE part = span - 1
  <2>1. (part + 1) % span = 0
    BY <1>3, NextPhase
  <2>2. m + span + 0 <= units + 1 + span - 1 /\ units + 1 <= m + span + 0
    BY <1>2, <1>3
  <2> QED
    BY <1>1, <2>1, <2>2 DEF Counted
<1>4. CASE part # span - 1
  <2>1. (part + 1) % span = part + 1 /\ (part + 1) % span # 0
    BY <1>4, NextPhase
  <2>2. m + (part + 1) <= units + 1 + span - 1 /\ units + 1 <= m + (part + 1)
    BY <1>2, <1>4
  <2> QED
    BY <1>1, <2>1, <2>2 DEF Counted
<1> QED
  BY <1>3, <1>4

\* lib/vlo_sync.c: for every length of the ticks, of the second and of the wait.
LEMMA SecondStaysMeasured ==
  LET Good == VloTypes /\ VloStages /\ VloCounts IN
  /\ VloInit => Good
  /\ Good /\ [VloNext]_vloVars => Good'
  /\ Good => SecondMeasured
<1> DEFINE Good == VloTypes /\ VloStages /\ VloCounts
<1> USE VloConstants
<1>1. VloInit => Good
  <2> SUFFICES ASSUME VloInit PROVE Good
    OBVIOUS
  <2>1. VloTypes /\ VloStages
    <3>1. VloTypes
      BY DEF VloInit, VloTypes
    <3>2. VloStages
      BY DEF VloInit, VloStages
    <3> QED
      BY <3>1, <3>2
  <2>2. VloCounts
    BY DEF VloInit, VloCounts
  <2> QED
    BY <2>1, <2>2
<1>2. Good /\ [VloNext]_vloVars => Good'
  <2> SUFFICES ASSUME VloTypes, VloStages, VloCounts, [VloNext]_vloVars
               PROVE  VloTypes' /\ VloStages' /\ VloCounts'
    OBVIOUS
  <2>1. CASE VloTick
    <3>1. VloTypes' /\ VloStages'
      <4>1. VloTypes'
        BY <2>1 DEF VloTick, VloTypes, VloStages
      <4>2. VloStages'
        BY <2>1 DEF VloTick, VloStages
      <4> QED
        BY <4>1, <4>2
    <3>2. held' <= MaxHold
      BY <2>1 DEF VloTick, VloTypes, VloCounts
    <3>3. CASE main = "idle"
      <4>1. answer' = answer /\ missed_ticks' = missed_ticks /\ main' = main
        BY <2>1, <3>3 DEF VloTick, VloStages
      <4>2. answer # -1 => ASecond(answer, missed_ticks)
        BY DEF VloCounts
      <4>3. ASecond(answer, missed_ticks)' = ASecond(answer, missed_ticks)
        BY <4>1 DEF ASecond
      <4> QED
        BY <3>1, <3>2, <3>3, <4>1, <4>2, <4>3 DEF VloCounts
    <3>4. CASE main = "measuring"
      <4>1. /\ main' = "measuring" /\ answer' = -1 /\ P2IE /\ MC_CONT
            /\ radio_tick_count' = radio_tick_count /\ elapsed' = elapsed + 1
            /\ radio_phase' = (radio_phase + 1) % RADIO /\ vlo_phase' = (vlo_phase + 1) % VLO
            /\ TBR' = IF vlo_phase' = 0 THEN TBR + 1 ELSE TBR
            /\ radio_tick_count < ticks_second
        BY <2>1, <3>4 DEF VloTick, VloStages, VloCounts
      <4>2. Counted(TBR, VLO, vlo_phase, elapsed)' /\ Counted(RadioTicks, RADIO, radio_phase, elapsed)
        <5>1. Counted(TBR, VLO, vlo_phase, elapsed) /\ Counted(RadioTicks, RADIO, radio_phase, elapsed)
          BY <3>4 DEF VloCounts
        <5>2. Counted(TBR', VLO, vlo_phase', elapsed')
          BY <4>1, <5>1, CountGoesOn DEF VloTypes
        <5> QED
          BY <5>1, <5>2 DEF Counted
      <4>3. RadioTicks' = IF radio_phase' = 0 THEN RadioTicks + 1 ELSE RadioTicks
        <5>1. /\ P2IFG' = (P2IFG \/ radio_phase' = 0)
              /\ missed_ticks' = IF radio_phase' = 0 /\ P2IFG THEN missed_ticks + 1 ELSE missed_ticks
          BY <2>1, <4>1 DEF VloTick
        <5>2. CASE radio_phase' # 0
          <6>1. P2IFG' = P2IFG
            BY <5>1, <5>2 DEF VloStages
          <6> QED
            BY <4>1, <5>1, <5>2, <6>1 DEF RadioTicks
        <5>3. CASE radio_phase' = 0 /\ P2IFG
          <6>1. P2IFG' /\ missed_ticks' = missed_ticks + 1
            BY <5>1, <5>3
          <6> QED
            BY <4>1, <5>3, <6>1, TickCases DEF VloTypes
        <5>4. CASE radio_phase' = 0 /\ ~P2IFG
          <6>1. P2IFG' /\ missed_ticks' = missed_ticks
            BY <5>1, <5>4
          <6> QED
            BY <4>1, <5>4, <6>1, TickCases DEF VloTypes
        <5> QED
          BY <5>2, <5>3, <5>4
      <4>4. RadioTicks \in Nat /\ RadioTicks * RADIO \in Int /\ (RadioTicks + 1) * RADIO = RadioTicks * RADIO + RADIO
        BY OneMore DEF RadioTicks, VloTypes
      <4>5. Counted(RadioTicks, RADIO, radio_phase, elapsed)'
        <5>1. Counted(RadioTicks', RADIO, radio_phase', elapsed')
          BY <4>1, <4>2, <4>3, <4>4, CountGoesOn DEF VloTypes
        <5> QED
          BY <5>1 DEF Counted
      <4>6. ASSUME P2IFG' PROVE elapsed' <= RadioTicks' * RADIO + held'
        <5>1. CASE P2IFG
          <6>1. held' = held + 1 /\ elapsed <= RadioTicks * RADIO + held
            BY <2>1, <3>4, <4>1, <5>1 DEF VloTick, VloCounts, Raised
          <6> QED
            BY <4>1, <4>3, <4>4, <6>1 DEF VloTypes
        <5>2. CASE ~P2IFG
          <6>1. held' = 0 /\ radio_phase' = 0
            BY <2>1, <4>6, <5>2 DEF VloTick
          <6>2. elapsed' <= RadioTicks' * RADIO + radio_phase'
            BY <4>5 DEF Counted
          <6> QED
            BY <4>3, <4>4, <6>1, <6>2
        <5> QED
          BY <5>1, <5>2 DEF VloTypes
      <4>7. Raised'
        BY <4>6 DEF Raised
      <4> QED
        BY <3>1, <3>2, <4>1, <4>2, <4>5, <4>7 DEF VloCounts
    <3> QED
      BY <2>1, <3>1, <3>3, <3>4 DEF VloTick
  <2>2. CASE vlo_get_frequency
    <3>1. VloTypes' /\ VloStages'
      <4>1. VloTypes'
        BY <2>2 DEF vlo_get_frequency, CountReset, VloTypes, VloStages
      <4>2. VloStages'
        BY <2>2 DEF vlo_get_frequency, CountReset, VloStages
      <4> QED
        BY <4>1, <4>2
    <3> QED
      BY <2>2, <3>1 DEF vlo_get_frequency, VloCounts, VloStages
  <2>3. CASE Start
    <3>1. VloTypes' /\ VloStages'
      <4>1. VloTypes'
        BY <2>3 DEF Start, VloTypes, VloStages
      <4>2. VloStages'
        <5>1. CASE main = "cleared"
          BY <2>3, <5>1 DEF Start, VloStages
        <5>2. CASE main = "enabled"
          BY <2>3, <5>2 DEF Start, VloStages
        <5> QED
          BY <2>3, <5>1, <5>2 DEF Start
      <4> QED
        BY <4>1, <4>2
    <3>2. /\ radio_tick_count = 0 /\ missed_ticks = 0 /\ TBR = 0 /\ elapsed = 0 /\ ~P2IFG /\ answer = -1
          /\ UNCHANGED <<radio_phase, vlo_phase, P2IFG, TBR, radio_tick_count, answer, held, elapsed, missed_ticks>>
      BY <2>3 DEF Start, VloStages
    <3>3. RadioTicks = 0
      BY <3>2 DEF RadioTicks
    <3>4. Counted(RadioTicks, RADIO, radio_phase, elapsed)' /\ Counted(TBR, VLO, vlo_phase, elapsed)'
      <4>1. RadioTicks' = 0
        BY <3>2 DEF RadioTicks
      <4> QED
        BY <3>2, <4>1 DEF Counted, VloTypes
    <3> QED
      BY <3>1, <3>2, <3>4 DEF VloCounts, Raised
  <2>4. CASE radio_tick
    <3>1. /\ main = "measuring" /\ answer = -1 /\ P2IFG /\ ~P2IFG' /\ P2IE
          /\ radio_tick_count' = radio_tick_count + 1 /\ held' = 0
          /\ UNCHANGED <<radio_phase, vlo_phase, TBR, elapsed, missed_ticks>>
      BY <2>4 DEF radio_tick, VloStages
    <3>2. VloTypes' /\ VloStages'
      <4>1. VloTypes'
        <5>1. answer' \in {answer, TBR}
          BY <2>4 DEF radio_tick
        <5> QED
          BY <3>1, <5>1 DEF VloTypes
      <4>2. VloStages'
        BY <2>4, <3>1 DEF radio_tick, VloStages
      <4> QED
        BY <4>1, <4>2
    <3>3. RadioTicks' = RadioTicks /\ RadioTicks = radio_tick_count + 1 + missed_ticks
      BY <3>1 DEF RadioTicks, VloTypes
    <3>4. /\ Counted(RadioTicks, RADIO, radio_phase, elapsed) /\ Counted(TBR, VLO, vlo_phase, elapsed)
          /\ radio_tick_count < ticks_second /\ elapsed <= RadioTicks * RADIO + held /\ held <= MaxHold
      BY <3>1 DEF VloCounts, Raised
    <3>5. Counted(RadioTicks, RADIO, radio_phase, elapsed)' /\ Counted(TBR, VLO, vlo_phase, elapsed)'
      BY <3>1, <3>3, <3>4 DEF Counted
    <3>6. CASE radio_tick_count' = ticks_second
      <4>1. answer' = TBR /\ main' = "idle"
        BY <2>4, <3>6 DEF radio_tick
      <4>2. RadioTicks = ticks_second + missed_ticks
        BY <3>1, <3>3, <3>6 DEF VloTypes
      <4>3. /\ RadioTicks * RADIO \in Int /\ (RadioTicks - 1) * RADIO = RadioTicks * RADIO - RADIO
            /\ TBR * VLO \in Int /\ (TBR + 1) * VLO = TBR * VLO + VLO
        BY <4>2, OneMore DEF VloTypes
      <4>4. /\ TBR * VLO <= RadioTicks * RADIO + MaxHold + VLO
            /\ (TBR + 1) * VLO > (RadioTicks - 1) * RADIO
        BY <3>4, <4>3 DEF Counted, VloTypes
      <4>5. ASecond(TBR, missed_ticks)
        <5>1. RadioTicks - 1 = ticks_second + missed_ticks - 1
          BY <4>2 DEF VloTypes
        <5> QED
          BY <4>2, <4>4, <5>1 DEF ASecond
      <4> QED
        BY <3>1, <3>2, <4>1, <4>5 DEF VloCounts, ASecond
    <3>7. CASE radio_tick_count' # ticks_second
      <4>1. answer' = -1 /\ main' = "measuring"
        BY <2>4, <3>1, <3>7 DEF radio_tick
      <4>2. radio_tick_count' < ticks_second
        BY <3>1, <3>4, <3>7 DEF VloTypes
      <4> QED
        BY <3>1, <3>2, <3>5, <4>1, <4>2 DEF VloCounts, Raised
    <3> QED
      BY <3>6, <3>7
  <2>5. CASE UNCHANGED vloVars
    BY <2>5 DEF vloVars, VloTypes, VloStages, VloCounts, Counted, RadioTicks, ASecond, Raised
  <2> QED
    BY <2>1, <2>2, <2>3, <2>4, <2>5 DEF VloNext
<1>3. Good => SecondMeasured
  <2> SUFFICES ASSUME VloTypes, VloStages, VloCounts PROVE SecondMeasured
    OBVIOUS
  <2> DEFINE most == (ticks_second + missed_ticks) * RADIO + MaxHold
  <2>1. ASSUME main = "measuring" PROVE elapsed <= most
    <3>1. /\ Counted(RadioTicks, RADIO, radio_phase, elapsed) /\ held <= MaxHold
          /\ radio_tick_count < ticks_second
          /\ P2IFG => elapsed <= RadioTicks * RADIO + held
      BY <2>1 DEF VloCounts, Raised
    <3>2. CASE P2IFG
      <4>1. RadioTicks <= ticks_second + missed_ticks /\ RadioTicks \in Int
        BY <3>1, <3>2, TickCases DEF VloTypes
      <4>2. RadioTicks * RADIO <= (ticks_second + missed_ticks) * RADIO
        BY <4>1, NoFewer DEF VloTypes
      <4> QED
        BY <3>1, <3>2, <4>1, <4>2, OneMore DEF VloTypes
    <3>3. CASE ~P2IFG
      <4>1. RadioTicks + 1 <= ticks_second + missed_ticks /\ RadioTicks \in Int
        BY <3>1, <3>3, TickCases DEF VloTypes
      <4>2. (RadioTicks + 1) * RADIO <= (ticks_second + missed_ticks) * RADIO
        BY <4>1, NoFewer DEF VloTypes
      <4>3. (RadioTicks + 1) * RADIO = RadioTicks * RADIO + RADIO
        BY <4>1, OneMore
      <4> QED
        BY <3>1, <4>1, <4>2, <4>3, OneMore DEF VloTypes, Counted
    <3> QED
      BY <3>2, <3>3
  <2>2. answer # -1 => answer * VLO <= most + VLO
    BY DEF VloCounts, ASecond
  <2>3. answer # -1 => (answer + 1) * VLO > (ticks_second + missed_ticks - 1) * RADIO
    BY DEF VloCounts, ASecond
  <2> QED
    BY <2>1, <2>2, <2>3 DEF SecondMeasured
<1> QED
  BY <1>1, <1>2, <1>3

-----------------------------------------------------------------------------
(***************************************************************************)
(* drivers/adc.c and drivers/button.c: samples are answered, and clicks    *)
(* reported.                                                               *)
(***************************************************************************)

\* Who asked for a sample is in adc_temp_cb, or main is about to store it there.
SampleComes ==
  /\ ADC10CTL0 \in {"off", "on", "busy"}
  /\ wanted # NoHandler =>
       /\ asking = NoHandler => adc_temp_cb = wanted
       /\ asking # NoHandler => asking = wanted
       /\ ADC10CTL0 = "busy" \/ ADC10IFG

\* drivers/adc.c: for every set of functions.
LEMMA SamplesStayAnswered ==
  /\ AdcInit => SampleComes
  /\ SampleComes /\ [AdcNext]_adcVars => SampleComes'
  /\ SampleComes => SamplesAnswered
<1>1. AdcInit => SampleComes
  BY DEF AdcInit, SampleComes
<1>2. SampleComes /\ [AdcNext]_adcVars => SampleComes'
  <2> SUFFICES ASSUME SampleComes, [AdcNext]_adcVars PROVE SampleComes'
    OBVIOUS
  <2> USE PeripheralsAssumption DEF SampleComes
  <2>1. CASE adc_init \/ adc_stop
    BY <2>1 DEF adc_init, adc_stop, Assign
  <2>2. ASSUME NEW cb \in Handler, SampleTemp(cb) \/ adc_sample_temp(cb) PROVE SampleComes'
    BY <2>2 DEF SampleTemp, adc_sample_temp, Convert
  <2>3. CASE StoreCallback
    BY <2>3 DEF StoreCallback
  <2>4. CASE ConversionEnds
    BY <2>4 DEF ConversionEnds
  <2>5. CASE adc10irq
    BY <2>5 DEF adc10irq, Called, Convert
  <2>6. CASE UNCHANGED adcVars
    BY <2>6 DEF adcVars
  <2> QED
    BY <2>1, <2>2, <2>3, <2>4, <2>5, <2>6 DEF AdcNext
<1>3. SampleComes => SamplesAnswered
  BY DEF SampleComes, SamplesAnswered
<1> QED
  BY <1>1, <1>2, <1>3

Direction(h) == <<"IES", h>>
Clear == <<"IFG", FALSE>>
Enable == <<"IE", TRUE>>
Callback(cb) == <<"cb", cb>>

\* The stores of button_init that are still to be made.
StoresLeft(n) ==
  \E h \in BOOLEAN, cb \in Handler :
    \/ n = 4 /\ watching = <<Direction(h), Clear, Enable, Callback(cb)>>
    \/ n = 3 /\ watching = <<Clear, Enable, Callback(cb)>>
    \/ n = 2 /\ watching = <<Enable, Callback(cb)>>
    \/ n = 1 /\ watching = <<Callback(cb)>>

\* From the store that clears the flag on, and as long as the button is watched,
\* the flag tells of an edge.
FlagTells ==
  /\ P1 \in [IES : BOOLEAN, IFG : BOOLEAN, IE : BOOLEAN] /\ click \in BOOLEAN
  /\ pressed \in BOOLEAN
  /\ watching = <<>> \/ \E n \in 1 .. 4 : StoresLeft(n)
  /\ StoresLeft(1) \/ StoresLeft(2) \/ (watching = <<>> /\ P1.IE) => (P1.IFG <=> click)
  /\ watching = <<>> /\ P1.IE => button_cb # NoHandler

LEMMA StoreParts ==
  /\ Clear[1] = "IFG" /\ Clear[2] = FALSE /\ Enable[1] = "IE" /\ Enable[2] = TRUE
  /\ \A h : Direction(h)[1] = "IES" /\ Direction(h)[2] = h
  /\ \A cb : Callback(cb)[1] = "cb" /\ Callback(cb)[2] = cb
<1>1. Clear[1] = "IFG" /\ Enable[1] = "IE"
  BY DEF Clear, Enable
<1>2. Clear[2] = FALSE
  BY DEF Clear
<1>3. Enable[2] = TRUE
  BY DEF Enable
<1>4. /\ \A h : Direction(h)[1] = "IES" /\ Direction(h)[2] = h
      /\ \A cb : Callback(cb)[1] = "cb" /\ Callback(cb)[2] = cb
  BY DEF Direction, Callback
<1> QED
  BY <1>1, <1>2, <1>3, <1>4

LEMMA ShortLists ==
  ASSUME NEW a, NEW b, NEW c, NEW d
  PROVE  /\ Tail(<<a>>) = <<>> /\ Head(<<a>>) = a
         /\ Tail(<<a, b>>) = <<b>> /\ Head(<<a, b>>) = a
         /\ Tail(<<a, b, c>>) = <<b, c>> /\ Head(<<a, b, c>>) = a
         /\ Tail(<<a, b, c, d>>) = <<b, c, d>> /\ Head(<<a, b, c, d>>) = a
<1>1. Tail(<<a>>) = <<>> /\ Head(<<a>>) = a
  OBVIOUS
<1>2. Tail(<<a, b>>) = <<b>> /\ Head(<<a, b>>) = a
  OBVIOUS
<1>3. Tail(<<a, b, c>>) = <<b, c>> /\ Head(<<a, b, c>>) = a
  OBVIOUS
<1>4. Tail(<<a, b, c, d>>) = <<b, c, d>> /\ Head(<<a, b, c, d>>) = a
  OBVIOUS
<1> QED
  BY <1>1, <1>2, <1>3, <1>4

\* A store is made and the others remain.
LEMMA StoreMade ==
  ASSUME NEW n \in 1 .. 4, StoresLeft(n), watching' = Tail(watching)
  PROVE  /\ n = 1 => watching' = <<>> /\ \E cb \in Handler : Head(watching) = Callback(cb)
         /\ n = 2 => StoresLeft(1)' /\ Head(watching) = Enable
         /\ n = 3 => StoresLeft(2)' /\ Head(watching) = Clear
         /\ n = 4 => StoresLeft(3)' /\ \E h \in BOOLEAN : Head(watching) = Direction(h)
<1> PICK h \in BOOLEAN, cb \in Handler :
       \/ n = 4 /\ watching = <<Direction(h), Clear, Enable, Callback(cb)>>
       \/ n = 3 /\ watching = <<Clear, Enable, Callback(cb)>>
       \/ n = 2 /\ watching = <<Enable, Callback(cb)>>
       \/ n = 1 /\ watching = <<Callback(cb)>>
  BY DEF StoresLeft
<1>1. CASE n = 1
  <2>1. watching = <<Callback(cb)>>
    BY <1>1
  <2>2. Tail(<<Callback(cb)>>) = <<>> /\ Head(<<Callback(cb)>>) = Callback(cb)
    BY ShortLists
  <2> QED
    BY <1>1, <2>1, <2>2
<1>2. CASE n = 2
  <2>1. watching = <<Enable, Callback(cb)>>
    BY <1>2
  <2>2. Tail(<<Enable, Callback(cb)>>) = <<Callback(cb)>> /\ Head(<<Enable, Callback(cb)>>) = Enable
    BY ShortLists
  <2>3. watching' = <<Callback(cb)>> /\ Head(watching) = Enable
    BY <2>1, <2>2
  <2>4. StoresLeft(1)'
    <3> SUFFICES \E g \in BOOLEAN, c \in Handler :
          \/ 1 = 4 /\ watching' = <<Direction(g), Clear, Enable, Callback(c)>>
          \/ 1 = 3 /\ watching' = <<Clear, Enable, Callback(c)>>
          \/ 1 = 2 /\ watching' = <<Enable, Callback(c)>>
          \/ 1 = 1 /\ watching' = <<Callback(c)>>
      BY DEF StoresLeft, Direction, Clear, Enable, Callback
    <3> WITNESS h \in BOOLEAN, cb \in Handler
    <3> QED
      BY <2>3
  <2> QED
    BY <1>2, <2>3, <2>4
<1>3. CASE n = 3
  <2>1. watching = <<Clear, Enable, Callback(cb)>>
    BY <1>3
  <2>2. /\ Tail(<<Clear, Enable, Callback(cb)>>) = <<Enable, Callback(cb)>>
        /\ Head(<<Clear, Enable, Callback(cb)>>) = Clear
    BY ShortLists
  <2>3. watching' = <<Enable, Callback(cb)>> /\ Head(watching) = Clear
    BY <2>1, <2>2
  <2>4. StoresLeft(2)'
    <3> SUFFICES \E g \in BOOLEAN, c \in Handler :
          \/ 2 = 4 /\ watching' = <<Direction(g), Clear, Enable, Callback(c)>>
          \/ 2 = 3 /\ watching' = <<Clear, Enable, Callback(c)>>
          \/ 2 = 2 /\ watching' = <<Enable, Callback(c)>>
          \/ 2 = 1 /\ watching' = <<Callback(c)>>
      BY DEF StoresLeft, Direction, Clear, Enable, Callback
    <3> WITNESS h \in BOOLEAN, cb \in Handler
    <3> QED
      BY <2>3
  <2> QED
    BY <1>3, <2>3, <2>4
<1>4. CASE n = 4
  <2>1. watching = <<Direction(h), Clear, Enable, Callback(cb)>>
    BY <1>4
  <2>2. /\ Tail(<<Direction(h), Clear, Enable, Callback(cb)>>) = <<Clear, Enable, Callback(cb)>>
        /\ Head(<<Direction(h), Clear, Enable, Callback(cb)>>) = Direction(h)
    BY ShortLists
  <2>3. watching' = <<Clear, Enable, Callback(cb)>> /\ Head(watching) = Direction(h)
    BY <2>1, <2>2
  <2>4. StoresLeft(3)'
    <3> SUFFICES \E g \in BOOLEAN, c \in Handler :
          \/ 3 = 4 /\ watching' = <<Direction(g), Clear, Enable, Callback(c)>>
          \/ 3 = 3 /\ watching' = <<Clear, Enable, Callback(c)>>
          \/ 3 = 2 /\ watching' = <<Enable, Callback(c)>>
          \/ 3 = 1 /\ watching' = <<Callback(c)>>
      BY DEF StoresLeft, Direction, Clear, Enable, Callback
    <3> WITNESS h \in BOOLEAN, cb \in Handler
    <3> QED
      BY <2>3
  <2> QED
    BY <1>4, <2>3, <2>4
<1> QED
  BY <1>1, <1>2, <1>3, <1>4

\* drivers/button.c: for every set of functions.
LEMMA ClicksStayReported ==
  /\ ButtonInit => FlagTells
  /\ FlagTells /\ [ButtonNext]_buttonVars => FlagTells'
  /\ FlagTells => ClicksReported
<1>1. ButtonInit => FlagTells
  <2> SUFFICES ASSUME ButtonInit PROVE FlagTells
    OBVIOUS
  <2>1. P1 \in [IES : BOOLEAN, IFG : BOOLEAN, IE : BOOLEAN] /\ ~P1.IE /\ ~P1.IFG
    BY DEF ButtonInit
  <2> QED
    BY <2>1 DEF ButtonInit, FlagTells
<1>2. FlagTells /\ [ButtonNext]_buttonVars => FlagTells'
  <2> SUFFICES ASSUME FlagTells, [ButtonNext]_buttonVars PROVE FlagTells'
    OBVIOUS
  <2> USE PeripheralsAssumption DEF FlagTells
  <2>1. ASSUME NEW h \in BOOLEAN, NEW cb \in Handler, button_init(h, cb) PROVE FlagTells'
    <3>1. StoresLeft(4)'
      BY <2>1 DEF button_init, WatchStores, StoresLeft, Direction, Clear, Enable, Callback
    <3>2. 4 \in 1 .. 4 /\ 1 \in 1 .. 4 /\ 2 \in 1 .. 4
      OBVIOUS
    <3>3. ~StoresLeft(1)' /\ ~StoresLeft(2)' /\ watching' # <<>>
      BY <2>1 DEF button_init, WatchStores, StoresLeft
    <3> QED
      BY <2>1, <3>1, <3>2, <3>3 DEF button_init
  <2>2. CASE WatchStore
    <3> DEFINE store == Head(watching)
    <3>1. /\ watching # <<>> /\ watching' = Tail(watching) /\ pressed' = pressed
          /\ click' = (click /\ store[1] # "IFG")
      BY <2>2 DEF WatchStore
    <3>2. PICK n \in 1 .. 4 : StoresLeft(n)
      BY <3>1
    <3>a. /\ n = 1 => watching' = <<>> /\ \E cb \in Handler : store = Callback(cb)
          /\ n = 2 => StoresLeft(1)' /\ store = Enable
          /\ n = 3 => StoresLeft(2)' /\ store = Clear
          /\ n = 4 => StoresLeft(3)' /\ \E h \in BOOLEAN : store = Direction(h)
      BY <3>1, <3>2, StoreMade
    <3>b. IF store[1] = "cb" THEN button_cb' = store[2] /\ P1' = P1
          ELSE /\ \E flag \in BOOLEAN :
                    /\ store[1] # "IES" => flag = P1.IFG
                    /\ P1' = [P1 EXCEPT !.IFG = flag, ![store[1]] = store[2]]
               /\ button_cb' = button_cb
      BY <2>2 DEF WatchStore
    <3> HIDE DEF store
    <3>c. CASE n = 1
      <4>1. PICK cb \in Handler : store[1] = "cb" /\ store[2] = cb
        BY <3>a, <3>c, StoreParts
      <4>2. P1' = P1 /\ button_cb' = cb /\ click' = click /\ watching' = <<>>
        BY <3>1, <3>a, <3>b, <3>c, <4>1
      <4>3. P1.IFG <=> click
        BY <3>2, <3>c
      <4>4. ~StoresLeft(1)' /\ ~StoresLeft(2)'
        BY <4>2 DEF StoresLeft
      <4> QED
        BY <3>1, <4>2, <4>3, <4>4
    <3>d. CASE n = 2
      <4>1. store[1] = "IE" /\ store[2] = TRUE
        BY <3>a, <3>d, StoreParts
      <4>2. P1' = [P1 EXCEPT !.IFG = P1.IFG, !.IE = TRUE] /\ click' = click
        BY <3>1, <3>b, <4>1
      <4>3. P1'.IFG = P1.IFG /\ P1' \in [IES : BOOLEAN, IFG : BOOLEAN, IE : BOOLEAN]
        BY <4>2
      <4>4. P1.IFG <=> click
        BY <3>2, <3>d
      <4>5. StoresLeft(1)' /\ 1 \in 1 .. 4 /\ watching' # <<>>
        <5>1. StoresLeft(1)'
          BY <3>a, <3>d
        <5>2. watching' # <<>>
          BY <5>1 DEF StoresLeft
        <5> QED
          BY <5>1, <5>2
      <4> QED
        BY <3>1, <4>2, <4>3, <4>4, <4>5
    <3>e. CASE n = 3
      <4>1. store[1] = "IFG" /\ store[2] = FALSE
        BY <3>a, <3>e, StoreParts
      <4>2. P1' = [P1 EXCEPT !.IFG = FALSE] /\ click' = FALSE
        BY <3>1, <3>b, <4>1
      <4>3. P1'.IFG = FALSE /\ P1' \in [IES : BOOLEAN, IFG : BOOLEAN, IE : BOOLEAN]
        BY <4>2
      <4>5. StoresLeft(2)' /\ 2 \in 1 .. 4 /\ watching' # <<>>
        <5>1. StoresLeft(2)'
          BY <3>a, <3>e
        <5>2. watching' # <<>>
          BY <5>1 DEF StoresLeft
        <5> QED
          BY <5>1, <5>2
      <4> QED
        BY <3>1, <4>2, <4>3, <4>5
    <3>f. CASE n = 4
      <4>1. PICK h \in BOOLEAN : store[1] = "IES" /\ store[2] = h
        BY <3>a, <3>f, StoreParts
      <4>2. PICK flag \in BOOLEAN : P1' = [P1 EXCEPT !.IFG = flag, !.IES = h]
        BY <3>b, <4>1
      <4>3. P1' \in [IES : BOOLEAN, IFG : BOOLEAN, IE : BOOLEAN] /\ click' \in BOOLEAN
        BY <3>1, <4>2
      <4>4. StoresLeft(3)' /\ 3 \in 1 .. 4 /\ watching' # <<>>
        <5>1. StoresLeft(3)'
          BY <3>a, <3>f
        <5>2. watching' # <<>>
          BY <5>1 DEF StoresLeft
        <5> QED
          BY <5>1, <5>2
      <4>5. ~StoresLeft(1)' /\ ~StoresLeft(2)'
        BY <4>4 DEF StoresLeft
      <4> QED
        BY <3>1, <4>3, <4>4, <4>5
    <3> QED
      BY <3>c, <3>d, <3>e, <3>f
  <2>3. CASE button_stop
    BY <2>3 DEF button_stop, StoresLeft
  <2>4. CASE Edge
    BY <2>4 DEF Edge, StoresLeft
  <2>5. CASE port1irq
    BY <2>5 DEF port1irq, StoresLeft
  <2>6. CASE UNCHANGED buttonVars
    BY <2>6 DEF buttonVars, StoresLeft
  <2> QED
    BY <2>1, <2>2, <2>3, <2>4, <2>5, <2>6 DEF ButtonNext
<1>3. FlagTells => ClicksReported
  BY DEF FlagTells, ClicksReported
<1> QED
  BY <1>1, <1>2, <1>3

-----------------------------------------------------------------------------
(***************************************************************************)
(* The board: its clocks run as set, and the watchdog watches.             *)
(***************************************************************************)

\* Where the registers of the clocks stand.
ClockSetting == {"DCO", "VLO", "XTAL"} \X Nat

ClocksKept ==
  /\ BCSCTL2 \in [SELM : {"DCO", "VLO"}, DIVM : Nat, SELS : BOOLEAN, DIVS : Nat]
  /\ told \in [MCLK : ClockSetting, SMCLK : ClockSetting, ACLK : ClockSetting]
  /\ DIVA \in Nat /\ LFXT1S \in {"VLO", "XTAL"}
  /\ LFXT1S = told.ACLK[1]
  /\ "MCLK" \notin undone => told.MCLK = <<BCSCTL2.SELM, BCSCTL2.DIVM>>
  /\ "SMCLK" \notin undone =>
       told.SMCLK = <<IF BCSCTL2.SELS THEN "VLO" ELSE "DCO", BCSCTL2.DIVS>>
  /\ "ACLK" \notin undone => told.ACLK = <<LFXT1S, DIVA>>
  /\ board = "contiki" => ~BCSCTL2.SELS
  /\ board = "contiki" /\ mainAt # "reset" =>
       /\ DCO = 12 /\ BCSCTL2.SELM = "DCO" /\ BCSCTL2.DIVM = 1 /\ BCSCTL2.DIVS = 1
       /\ LFXT1S = "VLO" /\ DIVA = 1

\* drivers/clock.c and msp430.c: for every set of frequencies and divisions.
LEMMA ClocksStayAsSet ==
  /\ BoardInit => ClocksKept
  /\ ClocksKept /\ [BoardNext]_boardVars => ClocksKept'
  /\ ClocksKept => ClocksAsSet
<1>1. BoardInit => ClocksKept
  BY DEF BoardInit, ClocksKept, PowerUpSelect, AsReset, ClockSetting
<1>2. ClocksKept /\ [BoardNext]_boardVars => ClocksKept'
  <2> SUFFICES ASSUME ClocksKept, [BoardNext]_boardVars PROVE ClocksKept'
    OBVIOUS
  <2> USE BoardAssumption DEF ClockSetting
  <2>0. \A div \in Division : Divider(div) \in Nat
    BY DEF Divider
  <2>1. ASSUME board = "native", board' = board,
               \/ \E freq \in Frequency_MHz : clock_dco_set(freq)
               \/ \E div \in Division : clock_aclk_set(div)
        PROVE  ClocksKept'
    <3>1. CASE \E freq \in Frequency_MHz : clock_dco_set(freq)
      BY <2>1, <3>1 DEF clock_dco_set, ClocksKept
    <3>2. CASE \E div \in Division : clock_aclk_set(div)
      BY <2>0, <2>1, <3>2 DEF clock_aclk_set, ClocksKept
    <3> QED
      BY <2>1, <3>1, <3>2
  <2>2. ASSUME board = "native", board' = board,
               NEW source \in {"DCO", "VLO"}, NEW div \in Division,
               clock_mclk_set(source, div) \/ clock_smclk_set(source, div)
        PROVE  ClocksKept'
    <3>1. CASE clock_mclk_set(source, div)
      BY <2>0, <2>2, <3>1 DEF clock_mclk_set, MclkFields, ClocksKept
    <3>2. CASE clock_smclk_set(source, div) /\ source = "VLO"
      BY <2>0, <2>2, <3>2 DEF clock_smclk_set, ClocksKept
    <3>3. CASE clock_smclk_set(source, div) /\ source = "DCO"
      BY <2>0, <2>2, <3>3 DEF clock_smclk_set, KeepSource, ClocksKept
    <3> QED
      BY <2>2, <3>1, <3>2, <3>3
  <2>3. CASE NativeMain
    BY <2>1, <2>2, <2>3 DEF NativeMain, ClockCall, clocksVars, ClocksKept
  <2>4. CASE WatchdogTick
    <3>1. CASE BoardReset
      BY <3>1 DEF BoardReset, ClocksKept, PowerUpSelect, AsReset
    <3>2. CASE UNCHANGED <<board, mainAt, clocksVars>>
      BY <3>2 DEF clocksVars, ClocksKept
    <3> QED
      BY <2>4, <3>1, <3>2 DEF WatchdogTick
  <2>5. CASE board = "contiki" /\ board' = board /\ msp430_cpu_init
    <3>1. ~BCSCTL2.SELS /\ BCSCTL2 \in [SELM : {"DCO", "VLO"}, DIVM : Nat, SELS : BOOLEAN, DIVS : Nat]
      BY <2>5 DEF ClocksKept
    <3>2. /\ BCSCTL2' = [BCSCTL2 EXCEPT !.SELM = "DCO", !.DIVM = 1, !.DIVS = 1]
          /\ told' = [MCLK |-> <<"DCO", 1>>, SMCLK |-> <<"DCO", 1>>, ACLK |-> <<"VLO", 1>>]
          /\ DCO' = 12 /\ DIVA' = 1 /\ LFXT1S' = "VLO"
      BY <2>5 DEF msp430_cpu_init, msp430_init_dco
    <3> QED
      BY <2>5, <3>1, <3>2 DEF ClocksKept
  <2>6. CASE /\ board = "contiki" /\ board' = board
             /\ LoopBegins \/ Periodic \/ process_run \/ splhigh \/ splx \/ Sleep \/ WakesUp \/ AnyInterrupt
    <3>1. UNCHANGED clocksVars
      BY <2>6 DEF LoopBegins, Periodic, process_run, splhigh, splx, Sleep, WakesUp, AnyInterrupt, Onward
    <3>2. mainAt # "reset" \/ mainAt' = mainAt
      BY <2>6 DEF LoopBegins, Periodic, process_run, splhigh, splx, Sleep, WakesUp, AnyInterrupt, Onward
    <3> QED
      BY <2>6, <3>1, <3>2 DEF clocksVars, ClocksKept
  <2>7. CASE UNCHANGED boardVars
    BY <2>7 DEF boardVars, clocksVars, ClocksKept
  <2> QED
    BY <2>3, <2>4, <2>5, <2>6, <2>7 DEF BoardNext, ContikiMain
<1>3. ClocksKept => ClocksAsSet
  <2> SUFFICES ASSUME ClocksKept PROVE ClocksAsSet
    OBVIOUS
  <2>1. /\ Runs.MCLK = <<IF BCSCTL2.SELM = "VLO" THEN "VLO" ELSE "DCO", BCSCTL2.DIVM>>
        /\ Runs.SMCLK = <<IF BCSCTL2.SELS THEN "VLO" ELSE "DCO", BCSCTL2.DIVS>>
        /\ Runs.ACLK = <<LFXT1S, DIVA>>
    BY DEF Runs
  <2>2. \A clock \in {"MCLK", "SMCLK", "ACLK"} \ undone : Runs[clock] = told[clock]
    BY <2>1 DEF ClocksKept
  <2>3. board = "contiki" /\ mainAt # "reset" =>
          DCO = 12 /\ Runs = [MCLK |-> <<"DCO", 1>>, SMCLK |-> <<"DCO", 1>>, ACLK |-> <<"VLO", 1>>]
    BY DEF Runs, ClocksKept
  <2> QED
    BY <2>2, <2>3 DEF ClocksAsSet
<1> QED
  BY <1>1, <1>2, <1>3

\* Where main is says what the watchdog does, how many stops are to be made good, and
\* whether interrupts are enabled.
MainKnown ==
  /\ board \in {"native", "contiki"}
  /\ board = "native" =>
       \/ mainAt = "reset" /\ WDTCTL = "counts" /\ stopped = 0
       \/ mainAt = "main" /\ WDTCTL = "held"
  /\ board = "contiki" =>
       \/ mainAt \in {"reset", "loop", "run", "ran", "idle"} /\ WDTCTL = "counts" /\ stopped = 0
       \/ mainAt \in {"start", "asleep", "awake"} /\ WDTCTL = "held" /\ stopped = 1
  /\ WDTCTL = "counts" => WDTCNT = busy
  /\ mainAt = "asleep" => GIE /\ ~nevents
  /\ mainAt = "idle" => ~GIE

\* watchdog.c and contiki-ez-main.c: for every limit of the watchdog.
LEMMA WatchdogStaysOnWatch ==
  /\ BoardInit => MainKnown
  /\ MainKnown /\ [BoardNext]_boardVars => MainKnown'
  /\ MainKnown => WatchdogWatches
<1>1. BoardInit => MainKnown
  BY DEF BoardInit, MainKnown
<1>2. MainKnown /\ [BoardNext]_boardVars => MainKnown'
  <2> SUFFICES ASSUME MainKnown, [BoardNext]_boardVars PROVE MainKnown'
    OBVIOUS
  <2> USE DEF MainKnown, Onward, watchdogVars
  <2>1. CASE NativeMain
    BY <2>1 DEF NativeMain
  <2>2. CASE WatchdogTick
    BY <2>2 DEF WatchdogTick, BoardReset
  <2>3. CASE /\ board = "contiki" /\ board' = board
             /\ msp430_cpu_init \/ LoopBegins \/ Periodic \/ process_run
    BY <2>3 DEF msp430_cpu_init, watchdog_init, LoopBegins, watchdog_start, Periodic,
                watchdog_periodic, process_run
  <2>4. CASE /\ board = "contiki" /\ board' = board
             /\ splhigh \/ splx \/ Sleep \/ WakesUp \/ AnyInterrupt
    BY <2>4 DEF splhigh, splx, Sleep, watchdog_stop, WakesUp, watchdog_start, AnyInterrupt
  <2>5. CASE UNCHANGED boardVars
    BY <2>5 DEF boardVars
  <2> QED
    BY <2>1, <2>2, <2>3, <2>4, <2>5 DEF BoardNext, ContikiMain
<1>3. MainKnown => WatchdogWatches
  BY DEF MainKnown, WatchdogWatches
<1> QED
  BY <1>1, <1>2, <1>3

-----------------------------------------------------------------------------
(***************************************************************************)
(* Multi-threading, for every set of threads: until an interrupt falls     *)
(* into mt_exit, a thread has the processor only while it is the current   *)
(* one, and none goes on once it has exited.  The invariant says where in  *)
(* mt_yield and mt_exit each thread is, with the state and the current     *)
(* thread that go with the place; and of a thread that was preempted       *)
(* within mt_exit at least that it never is ready again.                   *)
(***************************************************************************)

\* Where a thread is, if it was not preempted within mt_exit, says what its state is,
\* and whether it is the current one.
ThreadAt(c, cur, p, b, st, exited, pre) ==
  \/ ~c /\ ~exited /\ p = "none" /\ st \in {0, MT_STATE_READY}
  \/ ~c /\ ~exited /\ p = "function" /\ st = MT_STATE_READY
  \/ ~c /\ exited /\ p \in {"none", "gone"} /\ st = MT_STATE_EXITED
  \/ c /\ cur /\ ~exited /\ p = "function" /\ st = MT_STATE_RUNNING
  \/ c /\ cur /\ ~exited /\ p = "yield" /\ st = MT_STATE_RUNNING /\ b = "function" /\ ~pre
  \/ c /\ cur /\ ~exited /\ p = "leave" /\ st = MT_STATE_READY /\ b = "function" /\ ~pre
  \/ c /\ cur /\ exited /\ p = "exit" /\ st = MT_STATE_RUNNING
  \/ c /\ cur /\ exited /\ p = "exited" /\ st = MT_STATE_EXITED
  \/ c /\ ~cur /\ exited /\ p = "cleared" /\ st = MT_STATE_EXITED

MtTypes ==
  /\ mt_state \in [MtThread -> {0, MT_STATE_READY, MT_STATE_RUNNING, MT_STATE_EXITED}]
  /\ DOMAIN pc = MtThread /\ pc = [t \in MtThread |-> pc[t]]
  /\ DOMAIN back = MtThread /\ back = [t \in MtThread |-> back[t]]
  /\ cpu \in MtThread \cup {NoMtThread} /\ current \in {cpu, NoMtThread}
  /\ preempts \in BOOLEAN
  /\ ended \subseteq MtThread /\ late \subseteq MtThread

\* Whoever is within mt_yield has the CPU, and a thread past the stores of mt_exit is
\* neither current nor ready, wherever it was preempted.
ClearedGone(c, cur, p, b, st) ==
  LET stopping == st \in {MT_STATE_RUNNING, MT_STATE_EXITED} IN
  /\ c /\ p \in {"function", "exit", "exited"} => stopping
  /\ p = "cleared" => stopping /\ (c => ~cur)
  /\ p \in {"yield", "leave"} =>
       /\ c /\ b \in {"function", "exit", "exited", "cleared"}
       /\ b = "cleared" => stopping /\ ~cur

ThreadsGone == \A t \in MtThread : ClearedGone(cpu = t, current = t, pc[t], back[t], mt_state[t])

ThreadsPlaced ==
  \A t \in MtThread \ late :
    ThreadAt(cpu = t, current = t, pc[t], back[t], mt_state[t], t \in ended, preempts)

MtIInv == MtTypes /\ ThreadsGone /\ ThreadsPlaced

\* core/sys/mt.c: for every set of threads.
LEMMA ThreadsKeepTurns ==
  /\ MtInit => MtIInv
  /\ MtIInv /\ [MtNext]_mtVars => MtIInv'
  /\ MtIInv => ThreadsTakeTurns
<1> USE MtAssumption DEF MT_STATE_READY, MT_STATE_RUNNING, MT_STATE_EXITED
<1>1. MtInit => MtIInv
  BY DEF MtInit, MtIInv, MtTypes, ThreadsPlaced, ThreadAt, ThreadsGone, ClearedGone
<1>2. MtIInv /\ [MtNext]_mtVars => MtIInv'
  <2> SUFFICES ASSUME MtTypes, ThreadsGone, ThreadsPlaced, [MtNext]_mtVars
               PROVE  MtTypes' /\ ThreadsGone' /\ ThreadsPlaced'
    BY DEF MtIInv
  <2> DEFINE Placed(u) ==
        ThreadAt(cpu = u, current = u, pc[u], back[u], mt_state[u], u \in ended, preempts)
  <2> DEFINE Gone(u) == ClearedGone(cpu = u, current = u, pc[u], back[u], mt_state[u])
  <2>1. ASSUME NEW t \in MtThread, mt_start(t) PROVE MtTypes' /\ ThreadsGone' /\ ThreadsPlaced'
    <3> USE DEF mt_start, mtarch_start, SetState
    <3>1. MtTypes'
      BY <2>1 DEF MtTypes, ThreadsGone, ClearedGone
    <3>2. ASSUME NEW u \in MtThread, u # t PROVE Gone(u)'
      BY <2>1, <3>2 DEF MtTypes, ThreadsGone, ClearedGone
    <3>3. Gone(t)'
      BY <2>1 DEF MtTypes, ThreadsGone, ClearedGone
    <3>4. ASSUME NEW u \in MtThread \ late', u # t PROVE Placed(u)'
      BY <2>1, <3>4 DEF MtTypes, ThreadsPlaced, ThreadAt
    <3>5. t \notin late' => Placed(t)'
      BY <2>1 DEF MtTypes, ThreadsPlaced, ThreadAt
    <3> QED
      BY <3>1, <3>2, <3>3, <3>4, <3>5 DEF ThreadsPlaced, ThreadsGone
  <2>2. ASSUME NEW t \in MtThread, mt_exec(t) PROVE MtTypes' /\ ThreadsGone' /\ ThreadsPlaced'
    <3> USE DEF mt_exec, mtarch_exec, SetState
    <3>1. MtTypes'
      BY <2>2 DEF MtTypes, ThreadsGone, ClearedGone
    <3>2. ASSUME NEW u \in MtThread, u # t PROVE Gone(u)'
      <4>1. mt_state'[u] = mt_state[u] /\ UNCHANGED <<pc, back>> /\ cpu # u /\ cpu' # u
        BY <2>2, <3>2 DEF MtTypes
      <4> QED
        BY <4>1 DEF ThreadsGone, ClearedGone
    <3>3. Gone(t)'
      BY <2>2 DEF MtTypes, ThreadsGone, ClearedGone
    <3>4. ASSUME NEW u \in MtThread \ late', u # t PROVE Placed(u)'
      BY <2>2, <3>4 DEF MtTypes, ThreadsPlaced, ThreadAt
    <3>5. t \notin late' => Placed(t)'
      BY <2>2 DEF MtTypes, ThreadsPlaced, ThreadAt
    <3> QED
      BY <3>1, <3>2, <3>3, <3>4, <3>5 DEF ThreadsPlaced, ThreadsGone
  <2>3. ASSUME NEW t \in MtThread, mt_stop(t) PROVE MtTypes' /\ ThreadsGone' /\ ThreadsPlaced'
    <3> USE DEF mt_stop, mtarch_stop, To
    <3>1. MtTypes'
      BY <2>3 DEF MtTypes, ThreadsGone, ClearedGone
    <3>2. ASSUME NEW u \in MtThread, u # t PROVE Gone(u)'
      BY <2>3, <3>2 DEF MtTypes, ThreadsGone, ClearedGone
    <3>3. Gone(t)'
      BY <2>3 DEF MtTypes, ThreadsGone, ClearedGone
    <3>4. ASSUME NEW u \in MtThread \ late', u # t PROVE Placed(u)'
      BY <2>3, <3>4 DEF MtTypes, ThreadsPlaced, ThreadAt
    <3>5. t \notin late' => Placed(t)'
      BY <2>3 DEF MtTypes, ThreadsPlaced, ThreadAt
    <3> QED
      BY <3>1, <3>2, <3>3, <3>4, <3>5 DEF ThreadsPlaced, ThreadsGone
  <2>4. ASSUME NEW t \in MtThread, mt_yield(t) PROVE MtTypes' /\ ThreadsGone' /\ ThreadsPlaced'
    <3> USE DEF mt_yield, At, To, mtarch_pstop
    <3>1. MtTypes'
      BY <2>4 DEF MtTypes, ThreadsGone, ClearedGone
    <3>2. ASSUME NEW u \in MtThread, u # t PROVE Gone(u)'
      BY <2>4, <3>2 DEF MtTypes, ThreadsGone, ClearedGone
    <3>3. Gone(t)'
      BY <2>4 DEF MtTypes, ThreadsGone, ClearedGone
    <3>4. ASSUME NEW u \in MtThread \ late', u # t PROVE Placed(u)'
      BY <2>4, <3>4 DEF MtTypes, ThreadsPlaced, ThreadAt
    <3>5. t \notin late' => Placed(t)'
      BY <2>4 DEF MtTypes, ThreadsPlaced, ThreadAt
    <3> QED
      BY <3>1, <3>2, <3>3, <3>4, <3>5 DEF ThreadsPlaced, ThreadsGone
  <2>5. ASSUME NEW t \in MtThread, Preempt(t) PROVE MtTypes' /\ ThreadsGone' /\ ThreadsPlaced'
    <3> USE DEF Preempt, At, To, mtarch_pstop
    <3>1. MtTypes'
      BY <2>5 DEF MtTypes, ThreadsGone, ClearedGone
    <3>2. ASSUME NEW u \in MtThread, u # t PROVE Gone(u)'
      BY <2>5, <3>2 DEF MtTypes, ThreadsGone, ClearedGone
    <3>3. Gone(t)'
      BY <2>5 DEF MtTypes, ThreadsGone, ClearedGone
    <3>4. ASSUME NEW u \in MtThread \ late', u # t PROVE Placed(u)'
      BY <2>5, <3>4 DEF MtTypes, ThreadsPlaced, ThreadAt
    <3>5. t \notin late' => Placed(t)'
      BY <2>5 DEF MtTypes, ThreadsPlaced, ThreadAt
    <3> QED
      BY <3>1, <3>2, <3>3, <3>4, <3>5 DEF ThreadsPlaced, ThreadsGone
  <2>6. ASSUME NEW t \in MtThread, YieldStores(t) PROVE MtTypes' /\ ThreadsGone' /\ ThreadsPlaced'
    <3> USE DEF YieldStores, At, To, Marks
    <3>1. MtTypes'
      BY <2>6 DEF MtTypes, ThreadsGone, ClearedGone
    <3>2. ASSUME NEW u \in MtThread, u # t PROVE Gone(u)'
      BY <2>6, <3>2 DEF MtTypes, ThreadsGone, ClearedGone
    <3>3. Gone(t)'
      BY <2>6 DEF MtTypes, ThreadsGone, ClearedGone
    <3>4. ASSUME NEW u \in MtThread \ late', u # t PROVE Placed(u)'
      BY <2>6, <3>4 DEF MtTypes, ThreadsPlaced, ThreadAt
    <3>5. t \notin late' => Placed(t)'
      BY <2>6 DEF MtTypes, ThreadsPlaced, ThreadAt
    <3> QED
      BY <3>1, <3>2, <3>3, <3>4, <3>5 DEF ThreadsPlaced, ThreadsGone
  <2>7. ASSUME NEW t \in MtThread, YieldLeaves(t) PROVE MtTypes' /\ ThreadsGone' /\ ThreadsPlaced'
    <3> USE DEF YieldLeaves, At, To, mtarch_yield
    <3>1. MtTypes'
      BY <2>7 DEF MtTypes, ThreadsGone, ClearedGone
    <3>2. ASSUME NEW u \in MtThread, u # t PROVE Gone(u)'
      BY <2>7, <3>2 DEF MtTypes, ThreadsGone, ClearedGone
    <3>3. Gone(t)'
      BY <2>7 DEF MtTypes, ThreadsGone, ClearedGone
    <3>4. ASSUME NEW u \in MtThread \ late', u # t PROVE Placed(u)'
      BY <2>7, <3>4 DEF MtTypes, ThreadsPlaced, ThreadAt
    <3>5. t \notin late' => Placed(t)'
      BY <2>7 DEF MtTypes, ThreadsPlaced, ThreadAt
    <3> QED
      BY <3>1, <3>2, <3>3, <3>4, <3>5 DEF ThreadsPlaced, ThreadsGone
  <2>8. ASSUME NEW t \in MtThread, mt_exit(t) PROVE MtTypes' /\ ThreadsGone' /\ ThreadsPlaced'
    <3> USE DEF mt_exit, At, To
    <3>1. MtTypes'
      BY <2>8 DEF MtTypes, ThreadsGone, ClearedGone
    <3>2. ASSUME NEW u \in MtThread, u # t PROVE Gone(u)'
      BY <2>8, <3>2 DEF MtTypes, ThreadsGone, ClearedGone
    <3>3. Gone(t)'
      BY <2>8 DEF MtTypes, ThreadsGone, ClearedGone
    <3>4. ASSUME NEW u \in MtThread \ late', u # t PROVE Placed(u)'
      BY <2>8, <3>4 DEF MtTypes, ThreadsPlaced, ThreadAt
    <3>5. t \notin late' => Placed(t)'
      BY <2>8 DEF MtTypes, ThreadsPlaced, ThreadAt
    <3> QED
      BY <3>1, <3>2, <3>3, <3>4, <3>5 DEF ThreadsPlaced, ThreadsGone
  <2>9. ASSUME NEW t \in MtThread, ExitStores(t) PROVE MtTypes' /\ ThreadsGone' /\ ThreadsPlaced'
    <3> USE DEF ExitStores, At, To, Marks
    <3>1. MtTypes'
      BY <2>9 DEF MtTypes, ThreadsGone, ClearedGone
    <3>2. ASSUME NEW u \in MtThread, u # t PROVE Gone(u)'
      BY <2>9, <3>2 DEF MtTypes, ThreadsGone, ClearedGone
    <3>3. Gone(t)'
      BY <2>9 DEF MtTypes, ThreadsGone, ClearedGone
    <3>4. ASSUME NEW u \in MtThread \ late', u # t PROVE Placed(u)'
      BY <2>9, <3>4 DEF MtTypes, ThreadsPlaced, ThreadAt
    <3>5. t \notin late' => Placed(t)'
      BY <2>9 DEF MtTypes, ThreadsPlaced, ThreadAt
    <3> QED
      BY <3>1, <3>2, <3>3, <3>4, <3>5 DEF ThreadsPlaced, ThreadsGone
  <2>10. ASSUME NEW t \in MtThread, ExitLeaves(t) PROVE MtTypes' /\ ThreadsGone' /\ ThreadsPlaced'
    <3> USE DEF ExitLeaves, At, To, mtarch_yield
    <3>1. MtTypes'
      BY <2>10 DEF MtTypes, ThreadsGone, ClearedGone
    <3>2. ASSUME NEW u \in MtThread, u # t PROVE Gone(u)'
      BY <2>10, <3>2 DEF MtTypes, ThreadsGone, ClearedGone
    <3>3. Gone(t)'
      BY <2>10 DEF MtTypes, ThreadsGone, ClearedGone
    <3>4. ASSUME NEW u \in MtThread \ late', u # t PROVE Placed(u)'
      BY <2>10, <3>4 DEF MtTypes, ThreadsPlaced, ThreadAt
    <3>5. t \notin late' => Placed(t)'
      BY <2>10 DEF MtTypes, ThreadsPlaced, ThreadAt
    <3> QED
      BY <3>1, <3>2, <3>3, <3>4, <3>5 DEF ThreadsPlaced, ThreadsGone
  <2>11. CASE UNCHANGED mtVars
    BY <2>11 DEF mtVars, MtTypes, ThreadsPlaced, ThreadsGone
  <2> QED
    BY <2>1, <2>2, <2>3, <2>4, <2>5, <2>6, <2>7, <2>8, <2>9, <2>10, <2>11 DEF MtNext
<1>3. MtIInv => ThreadsTakeTurns
  BY DEF MtIInv, MtTypes, ThreadsPlaced, ThreadAt, ThreadsTakeTurns
<1> QED
  BY <1>1, <1>2, <1>3

-----------------------------------------------------------------------------
(***************************************************************************)
(* Protothreads over the semaphores of pt-sem.h, for every size of the     *)
(* buffer and number of items.  A protothread keeps only its local         *)
(* continuation between two calls, so the invariant is about where each    *)
(* of them is, running or not: the calls that have not returned are one    *)
(* process, or a process at its wait and the protothread it has called;    *)
(* while the driver has not made the semaphores nothing can pass them;     *)
(* from then on they count exactly what the places of the threads leave    *)
(* over; and the second process does not start its producer anew before    *)
(* that has left.                                                          *)
(***************************************************************************)

\* The code of each protothread, statement by statement.
LEMMA ProducerCode ==
  LET c == Code["producer"] IN
  /\ c[1].op = "for" /\ c[2].op = "sem_wait" /\ c[3].op = "sem_wait" /\ c[4].op = "add"
  /\ c[5].op = "sem_signal" /\ c[6].op = "sem_signal" /\ c[7].op = "again" /\ c[8].op = "end"
  /\ c[2].arg = "full" /\ c[3].arg = "mutex" /\ c[5].arg = "mutex" /\ c[6].arg = "empty"
  /\ c[7].arg = 2
BY DEF Code, producer, Op, PT_SEM_WAIT, PT_SEM_SIGNAL, PT_END

LEMMA ConsumerCode ==
  LET c == Code["consumer"] IN
  /\ c[1].op = "for" /\ c[2].op = "sem_wait" /\ c[3].op = "sem_wait" /\ c[4].op = "get"
  /\ c[5].op = "sem_signal" /\ c[6].op = "sem_signal" /\ c[7].op = "again" /\ c[8].op = "end"
  /\ c[2].arg = "empty" /\ c[3].arg = "mutex" /\ c[5].arg = "mutex" /\ c[6].arg = "full"
  /\ c[7].arg = 2
BY DEF Code, consumer, Op, PT_SEM_WAIT, PT_SEM_SIGNAL, PT_END

LEMMA Producer2Code ==
  LET c == Code["producer2"] IN
  /\ c[1].op = "sem_wait" /\ c[2].op = "sem_wait" /\ c[3].op = "yield" /\ c[4].op = "add"
  /\ c[5].op = "sem_signal" /\ c[6].op = "sem_signal" /\ c[7].op = "exit"
  /\ c[1].arg = "full" /\ c[2].arg = "mutex" /\ c[5].arg = "mutex" /\ c[6].arg = "empty"
BY DEF Code, producer2, Op, PT_SEM_WAIT, PT_SEM_SIGNAL, PT_YIELD, PT_EXIT

LEMMA DriverCode ==
  LET c == Code["driver"] IN
  /\ c[1].op = "sem_init" /\ c[2].op = "sem_init" /\ c[3].op = "sem_init"
  /\ c[4].op = "init" /\ c[5].op = "init" /\ c[6].op = "wait_thread" /\ c[7].op = "end"
  /\ c[1].arg.s = "empty" /\ c[1].arg.c = 0 /\ c[2].arg.s = "full" /\ c[2].arg.c = BUFFER_SIZE
  /\ c[3].arg.s = "mutex" /\ c[3].arg.c = 1
  /\ c[4].arg = "producer" /\ c[5].arg = "consumer" /\ c[6].arg = <<"producer", "consumer">>
BY DEF Code, driver_thread, Op, PT_SEM_INIT, PT_INIT, PT_WAIT_THREAD, PROCESS_END, PT_END

LEMMA ShortJoin ==
  ASSUME NEW a, NEW b, NEW c
  PROVE  <<a, b, c>> = <<a>> \o <<b, c>>
OBVIOUS

LEMMA MiddleJoin ==
  ASSUME NEW a, NEW b, NEW c, NEW d, NEW e
  PROVE  <<a, b, c, d, e>> = <<a, b, c>> \o <<d, e>>
OBVIOUS

LEMMA LongJoin ==
  ASSUME NEW a, NEW b, NEW c, NEW d, NEW e, NEW f, NEW g, NEW h
  PROVE  <<a, b, c, d, e, f, g, h>> = <<a, b, c, d, e>> \o <<f, g, h>>
OBVIOUS

LEMMA Process2Code ==
  LET c == Code["process2"] IN
  /\ c[1].op = "yield" /\ c[2].op = "init" /\ c[3].op = "wait_thread" /\ c[4].op = "post"
  /\ c[5].op = "yield" /\ c[6].op = "unless_continue" /\ c[7].op = "exit" /\ c[8].op = "restart"
  /\ c[2].arg = "producer2" /\ c[3].arg = <<"producer2">> /\ c[6].arg = 8
<1> DEFINE s1 == Op("yield", "go")
           s2 == Op("init", "producer2")
           s3 == Op("wait_thread", <<"producer2">>)
           s4 == Op("post", "continue")
           s5 == Op("yield", "any")
           s6 == Op("unless_continue", 8)
           s7 == Op("exit", "")
           s8 == Op("restart", "")
<1>1. process2 = <<s1>> \o <<s2, s3>> \o <<s4, s5>> \o <<s6, s7, s8>>
  BY Zenon DEF process2, PROCESS_WAIT_EVENT_UNTIL, PROCESS_YIELD_UNTIL, PT_YIELD_UNTIL,
       PROCESS_PT_SPAWN, PT_SPAWN, PT_INIT, PT_WAIT_THREAD, PROCESS_PAUSE, PROCESS_WAIT_EVENT,
       PROCESS_YIELD, PT_YIELD, PROCESS_EXIT, PT_EXIT, PT_RESTART
<1>2. Code["process2"] = process2
  BY DEF Code
<1>3. /\ s1.op = "yield" /\ s2.op = "init" /\ s3.op = "wait_thread" /\ s4.op = "post"
      /\ s5.op = "yield" /\ s6.op = "unless_continue" /\ s7.op = "exit" /\ s8.op = "restart"
      /\ s2.arg = "producer2" /\ s3.arg = <<"producer2">> /\ s6.arg = 8
  BY DEF Op
<1> HIDE DEF s1, s2, s3, s4, s5, s6, s7, s8
<1>4. process2 = <<s1, s2, s3, s4, s5, s6, s7, s8>>
  <2> DEFINE A == <<s1>>
             B == <<s2, s3>>
             C == <<s4, s5>>
             D == <<s6, s7, s8>>
             X == <<s1, s2, s3>>
             Y == <<s1, s2, s3, s4, s5>>
             Z == <<s1, s2, s3, s4, s5, s6, s7, s8>>
  <2>1. X = A \o B
    BY ShortJoin
  <2>2. Y = X \o C
    BY MiddleJoin
  <2>3. Z = Y \o D
    BY LongJoin
  <2>4. process2 = A \o B \o C \o D
    BY <1>1
  <2> HIDE DEF A, B, C, D, X, Y, Z
  <2>5. process2 = Z
    BY <2>1, <2>2, <2>3, <2>4
  <2> QED
    BY <2>5 DEF Z
<1> QED
  BY <1>2, <1>3, <1>4

LEMMA OfOne ==
  ASSUME NEW S, NEW s \in Seq(S), NEW f \in S, Len(s) = 1, s[1] = f
  PROVE  s = <<f>>
<1> DEFINE t == <<f>>
<1>1. t \in Seq(S) /\ Len(t) = 1 /\ t[1] = f
  OBVIOUS
<1> HIDE DEF t
<1>2. Len(s) = Len(t) /\ \A i \in 1 .. Len(s) : s[i] = t[i]
  BY <1>1
<1>3. s = t
  BY <1>1, <1>2, SeqEqual
<1> QED
  BY <1>3 DEF t

LEMMA OfTwo ==
  ASSUME NEW S, NEW s \in Seq(S), NEW f \in S, NEW g \in S, Len(s) = 2, s[1] = f, s[2] = g
  PROVE  s = <<f, g>>
<1> DEFINE t == <<f, g>>
<1>1. t \in Seq(S) /\ Len(t) = 2 /\ t[1] = f /\ t[2] = g
  OBVIOUS
<1> HIDE DEF t
<1>2. Len(s) = Len(t) /\ \A i \in 1 .. Len(s) : s[i] = t[i]
  BY <1>1
<1>3. s = t
  BY <1>1, <1>2, SeqEqual
<1> QED
  BY <1>3 DEF t

LEMMA FirstOfTwo ==
  ASSUME NEW S, NEW f \in S, NEW g \in S
  PROVE  SubSeq(<<f, g>>, 1, 1) = <<f>>
<1> DEFINE s == <<f, g>>
           u == SubSeq(s, 1, 1)
<1>1. s \in Seq(S) /\ Len(s) = 2 /\ s[1] = f
  OBVIOUS
<1> HIDE DEF s
<1>2. u \in Seq(S) /\ Len(u) = 1 /\ u[1] = f
  BY <1>1, SubSeqProperties
<1> HIDE DEF u
<1>3. u = <<f>>
  BY <1>2, OfOne
<1> QED
  BY <1>3 DEF s, u

LEMMA OneMoreAppended ==
  ASSUME NEW S, NEW f \in S, NEW g \in S
  PROVE  Append(<<f>>, g) = <<f, g>>
<1> DEFINE s == <<f>>
           u == Append(s, g)
<1>1. s \in Seq(S) /\ Len(s) = 1 /\ s[1] = f
  OBVIOUS
<1> HIDE DEF s
<1>2. u \in Seq(S) /\ Len(u) = 2 /\ u[1] = f /\ u[2] = g
  <2>1. u \in Seq(S) /\ Len(u) = Len(s) + 1
    BY <1>1, AppendProperties
  <2>2. u[1] = s[1]
    <3>1. 1 \in 1 .. Len(s)
      BY <1>1
    <3> QED
      BY <1>1, <3>1
  <2>3. u[Len(s) + 1] = g
    BY <1>1, AppendProperties
  <2> QED
    BY <1>1, <2>1, <2>2, <2>3
<1> HIDE DEF u
<1>3. u = <<f, g>>
  BY <1>2, OfTwo
<1> QED
  BY <1>3 DEF s, u

ThreadName == {"driver", "process2", "producer", "consumer", "producer2"}
LastOf == [driver |-> 7, process2 |-> 8, producer |-> 8, consumer |-> 8, producer2 |-> 7]

FrameOK(f) ==
  /\ f = [t |-> f.t, at |-> f.at, resumed |-> f.resumed, got |-> f.got]
  /\ f.t \in ThreadName /\ f.at \in 1 .. LastOf[f.t]

\* A process runs, or waits for the protothread it has called.
Waiting(f, g) ==
  \/ f.t = "driver" /\ f.at = 6 /\ g.t \in {"producer", "consumer"}
  \/ f.t = "process2" /\ f.at = 3 /\ g.t = "producer2"

OneRuns(f) == stack = <<f>> /\ FrameOK(f) /\ f.t \in PtProcess /\ f.t \in alive
TwoRun(f, g) ==
  /\ stack = <<f, g>> /\ FrameOK(f) /\ FrameOK(g) /\ Waiting(f, g)
  /\ f.t \in alive /\ lc[f.t] = f.at

StackOK == stack = <<>> \/ (\E f : OneRuns(f)) \/ (\E f, g : TwoRun(f, g))

LcOK ==
  /\ lc \in [ThreadName -> Nat] /\ \A t \in ThreadName : lc[t] \in 0 .. LastOf[t]
  /\ lc["driver"] \in {0, 6}
  /\ alive \subseteq PtProcess

\* Where a protothread is: where it runs, or where it goes on.
Where(t) == IF stack # <<>> /\ Innermost.t = t THEN Innermost.at ELSE lc[t]

Located(t, n) == stack # <<>> /\ Innermost.t = t /\ Innermost.at = n

OnlyMoves(r, n) == Where(r)' = n /\ \A t \in ThreadName \ {r} : Where(t)' = Where(t)

LEMMA TupleEnds ==
  ASSUME NEW f, NEW g
  PROVE  /\ <<f>> # <<>> /\ Len(<<f>>) = 1 /\ <<f>>[1] = f
         /\ <<f, g>> # <<>> /\ Len(<<f, g>>) = 2 /\ <<f, g>>[1] = f /\ <<f, g>>[2] = g
OBVIOUS

LEMMA TupleChanged ==
  ASSUME NEW f, NEW g, NEW h
  PROVE  [<<f>> EXCEPT ![1] = h] = <<h>> /\ [<<f, g>> EXCEPT ![2] = h] = <<f, h>>
OBVIOUS

LEMMA InnermostOK ==
  ASSUME StackOK, stack # <<>>
  PROVE  /\ FrameOK(Innermost)
         /\ stack[1].t \in PtProcess /\ stack[1].t \in alive
         /\ Innermost.t \in PtProcess <=> Len(stack) = 1
         /\ Len(stack) \in {1, 2}
<1>1. CASE \E f : OneRuns(f)
  <2> PICK f : OneRuns(f)
    BY <1>1
  <2>1. Innermost = f /\ stack[1] = f /\ Len(stack) = 1
    BY TupleEnds DEF OneRuns, Innermost
  <2> QED
    BY <2>1 DEF OneRuns
<1>2. CASE \E f, g : TwoRun(f, g)
  <2> PICK f, g : TwoRun(f, g)
    BY <1>2
  <2>1. Innermost = g /\ stack[1] = f /\ Len(stack) = 2
    BY TupleEnds DEF TwoRun, Innermost
  <2> QED
    BY <2>1 DEF TwoRun, Waiting, PtProcess
<1> QED
  BY <1>1, <1>2 DEF StackOK

\* Which statement of which protothread does what.
OpOf(t, n) == Code[t][n].op

LEMMA OpsOf_producer ==
  ASSUME NEW n \in 1 .. 8
  PROVE  /\ OpOf("producer", n) = "for" => n \in {1}
         /\ OpOf("producer", n) = "sem_wait" => n \in {2, 3}
         /\ OpOf("producer", n) = "add" => n \in {4}
         /\ OpOf("producer", n) = "sem_signal" => n \in {5, 6}
         /\ OpOf("producer", n) = "again" => n \in {7}
         /\ OpOf("producer", n) = "end" => n \in {8}
         /\ OpOf("producer", n) \in {"for", "sem_wait", "add", "sem_signal", "again", "end"}
BY ProducerCode DEF OpOf

LEMMA OpsOf_consumer ==
  ASSUME NEW n \in 1 .. 8
  PROVE  /\ OpOf("consumer", n) = "for" => n \in {1}
         /\ OpOf("consumer", n) = "sem_wait" => n \in {2, 3}
         /\ OpOf("consumer", n) = "get" => n \in {4}
         /\ OpOf("consumer", n) = "sem_signal" => n \in {5, 6}
         /\ OpOf("consumer", n) = "again" => n \in {7}
         /\ OpOf("consumer", n) = "end" => n \in {8}
         /\ OpOf("consumer", n) \in {"for", "sem_wait", "get", "sem_signal", "again", "end"}
BY ConsumerCode DEF OpOf

LEMMA OpsOf_producer2 ==
  ASSUME NEW n \in 1 .. 7
  PROVE  /\ OpOf("producer2", n) = "sem_wait" => n \in {1, 2}
         /\ OpOf("producer2", n) = "yield" => n \in {3}
         /\ OpOf("producer2", n) = "add" => n \in {4}
         /\ OpOf("producer2", n) = "sem_signal" => n \in {5, 6}
         /\ OpOf("producer2", n) = "exit" => n \in {7}
         /\ OpOf("producer2", n) \in {"sem_wait", "yield", "add", "sem_signal", "exit"}
BY Producer2Code DEF OpOf

LEMMA OpsOf_driver ==
  ASSUME NEW n \in 1 .. 7
  PROVE  /\ OpOf("driver", n) = "sem_init" => n \in {1, 2, 3}
         /\ OpOf("driver", n) = "init" => n \in {4, 5}
         /\ OpOf("driver", n) = "wait_thread" => n \in {6}
         /\ OpOf("driver", n) = "end" => n \in {7}
         /\ OpOf("driver", n) \in {"sem_init", "init", "wait_thread", "end"}
BY DriverCode DEF OpOf

LEMMA OpsOf_process2 ==
  ASSUME NEW n \in 1 .. 8
  PROVE  /\ OpOf("process2", n) = "yield" => n \in {1, 5}
         /\ OpOf("process2", n) = "init" => n \in {2}
         /\ OpOf("process2", n) = "wait_thread" => n \in {3}
         /\ OpOf("process2", n) = "post" => n \in {4}
         /\ OpOf("process2", n) = "unless_continue" => n \in {6}
         /\ OpOf("process2", n) = "exit" => n \in {7}
         /\ OpOf("process2", n) = "restart" => n \in {8}
         /\ OpOf("process2", n) \in {"yield", "init", "wait_thread", "post", "unless_continue", "exit", "restart"}
BY Process2Code DEF OpOf

LEMMA WhoRuns ==
  ASSUME StackOK, NEW op, RunsTo(op)
  PROVE  \E t \in ThreadName :
           /\ Innermost.t = t /\ stack # <<>>
           /\ Innermost.at \in 1 .. LastOf[t] /\ OpOf(t, Innermost.at) = op
BY InnermostOK DEF RunsTo, Statement, OpOf, FrameOK

RunsAt(t, places) == stack # <<>> /\ Innermost.t = t /\ Innermost.at \in places

\* Who runs to a statement of each kind, and where.
LEMMA WhoRunsWhere ==
  ASSUME StackOK
  PROVE  /\ RunsTo("for") => RunsAt("producer", {1}) \/ RunsAt("consumer", {1})
         /\ RunsTo("sem_wait") => 
              RunsAt("producer", {2, 3}) \/ RunsAt("consumer", {2, 3})
                \/ RunsAt("producer2", {1, 2})
         /\ RunsTo("add") => RunsAt("producer", {4}) \/ RunsAt("producer2", {4})
         /\ RunsTo("sem_signal") => 
              RunsAt("producer", {5, 6}) \/ RunsAt("consumer", {5, 6})
                \/ RunsAt("producer2", {5, 6})
         /\ RunsTo("again") => RunsAt("producer", {7}) \/ RunsAt("consumer", {7})
         /\ RunsTo("end") => 
              RunsAt("producer", {8}) \/ RunsAt("consumer", {8})
                \/ RunsAt("driver", {7})
         /\ RunsTo("get") => RunsAt("consumer", {4})
         /\ RunsTo("yield") => RunsAt("producer2", {3}) \/ RunsAt("process2", {1, 5})
         /\ RunsTo("exit") => RunsAt("producer2", {7}) \/ RunsAt("process2", {7})
         /\ RunsTo("sem_init") => RunsAt("driver", {1, 2, 3})
         /\ RunsTo("init") => RunsAt("driver", {4, 5}) \/ RunsAt("process2", {2})
         /\ RunsTo("wait_thread") => RunsAt("driver", {6}) \/ RunsAt("process2", {3})
         /\ RunsTo("post") => RunsAt("process2", {4})
         /\ RunsTo("unless_continue") => RunsAt("process2", {6})
         /\ RunsTo("restart") => RunsAt("process2", {8})
<1>1. ASSUME NEW op, RunsTo(op)
      PROVE  \E t \in ThreadName :
               /\ Innermost.t = t /\ stack # <<>>
               /\ Innermost.at \in 1 .. LastOf[t] /\ OpOf(t, Innermost.at) = op
  BY <1>1, WhoRuns
<1> USE <1>1 DEF LastOf, RunsAt, ThreadName
<1>2. RunsTo("for") => RunsAt("producer", {1}) \/ RunsAt("consumer", {1})
  BY OpsOf_producer, OpsOf_consumer, OpsOf_producer2, OpsOf_driver, OpsOf_process2
<1>3. RunsTo("sem_wait") => RunsAt("producer", {2, 3}) \/ RunsAt("consumer", {2, 3}) \/ RunsAt("producer2", {1, 2})
  BY OpsOf_producer, OpsOf_consumer, OpsOf_producer2, OpsOf_driver, OpsOf_process2
<1>4. RunsTo("add") => RunsAt("producer", {4}) \/ RunsAt("producer2", {4})
  BY OpsOf_producer, OpsOf_consumer, OpsOf_producer2, OpsOf_driver, OpsOf_process2
<1>5. RunsTo("sem_signal") => RunsAt("producer", {5, 6}) \/ RunsAt("consumer", {5, 6}) \/ RunsAt("producer2", {5, 6})
  BY OpsOf_producer, OpsOf_consumer, OpsOf_producer2, OpsOf_driver, OpsOf_process2
<1>6. RunsTo("again") => RunsAt("producer", {7}) \/ RunsAt("consumer", {7})
  BY OpsOf_producer, OpsOf_consumer, OpsOf_producer2, OpsOf_driver, OpsOf_process2
<1>7. RunsTo("end") => RunsAt("producer", {8}) \/ RunsAt("consumer", {8}) \/ RunsAt("driver", {7})
  BY OpsOf_producer, OpsOf_consumer, OpsOf_producer2, OpsOf_driver, OpsOf_process2
<1>8. RunsTo("get") => RunsAt("consumer", {4})
  BY OpsOf_producer, OpsOf_consumer, OpsOf_producer2, OpsOf_driver, OpsOf_process2
<1>9. RunsTo("yield") => RunsAt("producer2", {3}) \/ RunsAt("process2", {1, 5})
  BY OpsOf_producer, OpsOf_consumer, OpsOf_producer2, OpsOf_driver, OpsOf_process2
<1>10. RunsTo("exit") => RunsAt("producer2", {7}) \/ RunsAt("process2", {7})
  BY OpsOf_producer, OpsOf_consumer, OpsOf_producer2, OpsOf_driver, OpsOf_process2
<1>11. RunsTo("sem_init") => RunsAt("driver", {1, 2, 3})
  BY OpsOf_producer, OpsOf_consumer, OpsOf_producer2, OpsOf_driver, OpsOf_process2
<1>12. RunsTo("init") => RunsAt("driver", {4, 5}) \/ RunsAt("process2", {2})
  BY OpsOf_producer, OpsOf_consumer, OpsOf_producer2, OpsOf_driver, OpsOf_process2
<1>13. RunsTo("wait_thread") => RunsAt("driver", {6}) \/ RunsAt("process2", {3})
  BY OpsOf_producer, OpsOf_consumer, OpsOf_producer2, OpsOf_driver, OpsOf_process2
<1>14. RunsTo("post") => RunsAt("process2", {4})
  BY OpsOf_producer, OpsOf_consumer, OpsOf_producer2, OpsOf_driver, OpsOf_process2
<1>15. RunsTo("unless_continue") => RunsAt("process2", {6})
  BY OpsOf_producer, OpsOf_consumer, OpsOf_producer2, OpsOf_driver, OpsOf_process2
<1>16. RunsTo("restart") => RunsAt("process2", {8})
  BY OpsOf_producer, OpsOf_consumer, OpsOf_producer2, OpsOf_driver, OpsOf_process2
<1> QED
  BY <1>2, <1>3, <1>4, <1>5, <1>6, <1>7, <1>8, <1>9, <1>10, <1>11, <1>12, <1>13, <1>14, <1>15, <1>16

\* The innermost protothread goes on: nobody else is anywhere else.
LEMMA GoingOn ==
  ASSUME StackOK, stack # <<>>, NEW r, Innermost.t = r, NEW n \in 1 .. LastOf[r], GoesTo(n),
         alive' = alive, \A t \in ThreadName \ {r} : lc'[t] = lc[t]
  PROVE  StackOK' /\ OnlyMoves(r, n) /\ RunsAt(r, {n})' /\ Innermost'.got = <<>>
<1> DEFINE h == [t |-> r, at |-> n, resumed |-> FALSE, got |-> <<>>]
<1>0. r \in ThreadName /\ FrameOK(h) /\ h.t = r /\ h.at = n /\ h.got = <<>>
  BY InnermostOK DEF FrameOK
<1>1. stack' = [stack EXCEPT ![Len(stack)] = h]
  BY DEF GoesTo
<1> HIDE DEF h
<1>2. StackOK' /\ stack' # <<>> /\ Innermost' = h
  <2>1. ASSUME NEW f, OneRuns(f) PROVE StackOK' /\ stack' # <<>> /\ Innermost' = h
    <3>1. stack' = <<h>> /\ f.t = r
      BY <1>1, <2>1, TupleEnds, TupleChanged DEF OneRuns, Innermost
    <3> QED
      BY <1>0, <2>1, <3>1, TupleEnds DEF OneRuns, StackOK, Innermost
  <2>2. ASSUME NEW f, NEW g, TwoRun(f, g) PROVE StackOK' /\ stack' # <<>> /\ Innermost' = h
    <3>1. stack' = <<f, h>> /\ g.t = r
      BY <1>1, <2>2, TupleEnds, TupleChanged DEF TwoRun, Innermost
    <3>2. f.t # r /\ f.t \in ThreadName
      BY <2>2, <3>1 DEF TwoRun, Waiting, ThreadName
    <3>3. TwoRun(f, h)'
      BY <1>0, <2>2, <3>1, <3>2 DEF TwoRun, Waiting, FrameOK
    <3> QED
      BY <3>1, <3>3, TupleEnds DEF StackOK, Innermost
  <2> QED
    BY <2>1, <2>2 DEF StackOK
<1>3. Where(r)' = n /\ \A t \in ThreadName \ {r} : Where(t)' = Where(t)
  BY <1>0, <1>2 DEF Where
<1> QED
  BY <1>0, <1>2, <1>3 DEF OnlyMoves, RunsAt

LEMMA NothingAppended ==
  ASSUME NEW S, NEW f \in S, NEW g \in S, NEW h
  PROVE  Append(SubSeq(<<f, g>>, 1, 0), h) = <<h>>
<1> DEFINE s == <<f, g>>
           e == SubSeq(s, 1, 0)
           o == Append(e, h)
           T == S \cup {h}
<1>1. s \in Seq(T) /\ Len(s) = 2
  OBVIOUS
<1> HIDE DEF s
<1>2. e \in Seq(T) /\ Len(e) = 0
  BY <1>1, SubSeqProperties
<1> HIDE DEF e
<1>3. o \in Seq(T) /\ Len(o) = 1 /\ o[1] = h
  <2>1. h \in T
    OBVIOUS
  <2>2. o \in Seq(T) /\ Len(o) = Len(e) + 1 /\ o[Len(e) + 1] = h
    BY <1>2, <2>1, AppendProperties
  <2> QED
    BY <1>2, <2>2
<1> HIDE DEF o
<1>4. o = <<h>>
  BY <1>3, OfOne
<1> QED
  BY <1>4 DEF o, e, s

\* It returns: to the process that waits for it, or to the kernel.
LEMMA Returning ==
  ASSUME StackOK, stack # <<>>, NEW r, Innermost.t = r, NEW v, Return(v), LcOK,
         \A t \in ThreadName \ {r} : lc'[t] = lc[t]
  PROVE  /\ StackOK' /\ OnlyMoves(r, lc'[r])
         /\ r \in PtProcess =>
              /\ stack' = <<>>
              /\ alive' = IF v \in {PT_EXITED, PT_ENDED} THEN alive \ {r} ELSE alive
         /\ r \notin PtProcess =>
              /\ alive' = alive /\ Innermost'.got[r] = v
              /\ r = "producer2" => RunsAt("process2", {3})'
              /\ r # "producer2" => RunsAt("driver", {6})'
<1>1. ASSUME NEW f, OneRuns(f)
      PROVE  /\ r \in PtProcess /\ StackOK' /\ OnlyMoves(r, lc'[r]) /\ stack' = <<>>
             /\ alive' = IF v \in {PT_EXITED, PT_ENDED} THEN alive \ {r} ELSE alive
  <2>1. Len(stack) = 1 /\ Innermost = f
    BY <1>1, TupleEnds DEF OneRuns, Innermost
  <2>2. /\ stack' = <<>>
        /\ alive' = IF v \in {PT_EXITED, PT_ENDED} THEN alive \ {r} ELSE alive
    BY <2>1 DEF Return
  <2>3. r \in ThreadName /\ r \in PtProcess
    BY <1>1, <2>1 DEF OneRuns, FrameOK
  <2>4. Where(r)' = lc'[r] /\ \A t \in ThreadName \ {r} : Where(t)' = Where(t)
    BY <2>2 DEF Where
  <2> QED
    BY <2>2, <2>3, <2>4 DEF StackOK, OnlyMoves
<1>2. ASSUME NEW f, NEW g, TwoRun(f, g)
      PROVE  /\ r \notin PtProcess /\ StackOK' /\ OnlyMoves(r, lc'[r])
             /\ alive' = alive /\ Innermost'.got[r] = v
             /\ r = "producer2" => RunsAt("process2", {3})'
             /\ r # "producer2" => RunsAt("driver", {6})'
  <2>h. PICK h : h = ChildDone(f, r, v)
    OBVIOUS
  <2>1. Len(stack) = 2 /\ Innermost = g /\ stack = <<f, g>> /\ stack[1] = f
    BY <1>2, TupleEnds DEF TwoRun, Innermost
  <2>2. g.t = r /\ r \in ThreadName /\ r \notin PtProcess /\ f.t \in ThreadName /\ f.t # r
    BY <1>2, <2>1 DEF TwoRun, FrameOK, Waiting, PtProcess
  <2>4. stack' = Append(SubSeq(stack, 1, 0), h) /\ alive' = alive
    <3>1. Len(stack) - 1 = 1 /\ Len(stack) - 2 = 0 /\ Len(stack) > 1 /\ Innermost.t = r
      BY <2>1
    <3>2. /\ stack' = Append(SubSeq(stack, 1, Len(stack) - 2),
                           ChildDone(stack[Len(stack) - 1], Innermost.t, v))
          /\ UNCHANGED <<alive, ev>>
      BY <3>1 DEF Return
    <3>3. ChildDone(stack[Len(stack) - 1], Innermost.t, v) = h
      BY <3>1, <2>1, <2>h, Zenon
    <3> QED
      BY <3>1, <3>2, <3>3
  <2>5. stack' = <<h>>
    <3>1. f \in {f, g} /\ g \in {f, g}
      OBVIOUS
    <3> QED
      BY <2>1, <2>4, <3>1, NothingAppended
  <2>6. FrameOK(h) /\ h.t = f.t /\ h.at = f.at /\ h.got[r] = v
    <3>1. h = [t |-> f.t, at |-> f.at, resumed |-> f.resumed,
               got |-> [c \in DOMAIN f.got \cup {r} |-> IF c = r THEN v ELSE f.got[c]]]
      <4>1. f = [t |-> f.t, at |-> f.at, resumed |-> f.resumed, got |-> f.got]
        BY <1>2 DEF TwoRun, FrameOK
      <4> QED
        BY <2>h, <4>1 DEF ChildDone
    <3>2. h = [t |-> h.t, at |-> h.at, resumed |-> h.resumed, got |-> h.got]
          /\ h.t = f.t /\ h.at = f.at /\ h.got[r] = v
      BY <3>1
    <3> QED
      BY <1>2, <3>2 DEF TwoRun, FrameOK
  <2>8. stack' # <<>> /\ Innermost' = h
    BY <2>5, TupleEnds DEF Innermost
  <2>9. StackOK'
    <3>1. OneRuns(h)'
      <4>1. f.t \in PtProcess /\ f.t \in alive
        BY <1>2 DEF TwoRun, Waiting, PtProcess
      <4> QED
        BY <2>4, <2>5, <2>6, <4>1 DEF OneRuns, FrameOK
    <3> QED
      BY <3>1 DEF StackOK
  <2>10. Where(r)' = lc'[r] /\ \A t \in ThreadName \ {r} : Where(t)' = Where(t)
    <3>1. Where(r)' = lc'[r]
      BY <2>2, <2>6, <2>8 DEF Where
    <3>2. ASSUME NEW t \in ThreadName \ {r} PROVE Where(t)' = Where(t)
      <4>1. Where(t) = lc[t]
        BY <2>1, <2>2 DEF Where
      <4>2. lc[f.t] = f.at
        BY <1>2 DEF TwoRun
      <4> QED
        BY <2>6, <2>8, <4>1, <4>2 DEF Where
    <3> QED
      BY <3>1, <3>2
  <2> QED
    BY <1>2, <2>2, <2>4, <2>6, <2>8, <2>9, <2>10 DEF OnlyMoves, RunsAt, TwoRun, Waiting
<1> QED
  BY <1>1, <1>2 DEF StackOK

\* A process calls a protothread it waits for.
LEMMA Calling2 ==
  ASSUME StackOK, LcOK, NEW c,
         \/ RunsAt("driver", {6}) /\ c \in {"producer", "consumer"}
         \/ RunsAt("process2", {3}) /\ c = "producer2",
         stack' = Append(stack, PT_BEGIN(c)), LC_SET, alive' = alive
  PROVE  /\ StackOK' /\ OnlyMoves(c, IF lc[c] = 0 THEN 1 ELSE lc[c])
         /\ RunsAt(c, 1 .. LastOf[c])'
<1>c. PICK h : h = PT_BEGIN(c)
  OBVIOUS
<1>d. PICK n : n = IF lc[c] = 0 THEN 1 ELSE lc[c]
  OBVIOUS
<1>1. PICK f : OneRuns(f)
  BY TupleEnds DEF StackOK, TwoRun, Waiting, RunsAt, Innermost
<1>2. stack = <<f>> /\ Innermost = f /\ stack # <<>> /\ FrameOK(f)
  BY <1>1, TupleEnds DEF OneRuns, Innermost
<1>3. c \in ThreadName /\ n \in 1 .. LastOf[c]
  BY <1>d DEF LcOK, ThreadName, LastOf
<1>4. FrameOK(h) /\ h.t = c /\ h.at = n
  BY <1>c, <1>d, <1>3 DEF FrameOK, PT_BEGIN
<1>5. stack' = <<f, h>>
  <2>1. stack' = Append(stack, h)
    BY <1>c
  <2>2. f \in {f, h} /\ h \in {f, h}
    OBVIOUS
  <2> QED
    BY <1>2, <2>1, <2>2, OneMoreAppended
<1>6. lc' = [lc EXCEPT ![f.t] = f.at]
  BY <1>2 DEF LC_SET
<1>7. TwoRun(f, h)'
  <2>1. f.t \in ThreadName /\ f.t \in alive /\ Waiting(f, h)
    BY <1>1, <1>2, <1>4 DEF OneRuns, Waiting, RunsAt, FrameOK
  <2>2. lc'[f.t] = f.at
    BY <1>6, <2>1 DEF LcOK
  <2> QED
    BY <1>2, <1>4, <1>5, <2>1, <2>2 DEF TwoRun, FrameOK, Waiting
<1>8. stack' # <<>> /\ Innermost' = h /\ StackOK'
  BY <1>5, <1>7, TupleEnds DEF Innermost, StackOK
<1>9. Where(c)' = n
  BY <1>4, <1>8 DEF Where
<1>10. ASSUME NEW t \in ThreadName \ {c} PROVE Where(t)' = Where(t)
  <2>1. Where(t)' = lc'[t]
    BY <1>4, <1>8, <1>10 DEF Where
  <2>2. lc'[t] = IF t = f.t THEN f.at ELSE lc[t]
    BY <1>6, <1>10 DEF LcOK
  <2> QED
    BY <1>2, <2>1, <2>2 DEF Where
<1> QED
  BY <1>d, <1>3, <1>4, <1>8, <1>9, <1>10 DEF OnlyMoves, RunsAt

\* How far the driver has come with the semaphores: 6 once they are all there.
SetUpTo == IF "driver" \in alive /\ Where("driver") <= 5 THEN Where("driver") ELSE 6

In(n, lo, hi) == IF lo <= n /\ n <= hi THEN 1 ELSE 0

\* What the semaphores count while the threads are at p, q and c: a producer that
\* has waited for a place holds it until it has added its item, and what it has
\* added is promised to the consumers when it has signalled; and the other way round.
Balanced(p, q, c, full, empty, mutex, items) ==
  /\ full + items + In(p, 3, 4) + In(q, 2, 4) + In(c, 5, 6) = BUFFER_SIZE
  /\ empty + In(p, 5, 6) + In(q, 5, 6) + In(c, 3, 4) = items
  /\ mutex + In(p, 4, 5) + In(q, 3, 5) + In(c, 4, 5) = 1

NotYet(d, p, q, c, full, empty, mutex, items) ==
  /\ p = 0 /\ c = 0 /\ q <= 1 /\ empty = 0 /\ items = 0
  /\ full = IF d >= 3 THEN BUFFER_SIZE ELSE 0
  /\ mutex = IF d >= 4 THEN 1 ELSE 0

Sound(d, p, q, c, full, empty, mutex, items) ==
  /\ d \in 0 .. 6 /\ p \in 0 .. 8 /\ q \in 0 .. 7 /\ c \in 0 .. 8
  /\ full \in Nat /\ empty \in Nat /\ mutex \in Nat /\ items \in Int
  /\ d <= 5 => NotYet(d, p, q, c, full, empty, mutex, items)
  /\ d = 6 => Balanced(p, q, c, full, empty, mutex, items)

\* What each statement does to the balance.
LEMMA SoundSteps ==
  ASSUME NEW d, NEW p, NEW q, NEW c, NEW f, NEW e, NEW m, NEW b,
         Sound(d, p, q, c, f, e, m, b)
  PROVE  /\ d = 6 /\ p = 2 /\ f > 0 => Sound(d, 3, q, c, f - 1, e, m, b)
         /\ d = 6 /\ p = 3 /\ m > 0 => Sound(d, 4, q, c, f, e, m - 1, b)
         /\ d = 6 /\ p = 4 => Sound(d, 5, q, c, f, e, m, b + 1)
         /\ d = 6 /\ p = 5 => Sound(d, 6, q, c, f, e, m + 1, b)
         /\ d = 6 /\ p = 6 => Sound(d, 7, q, c, f, e + 1, m, b)
         /\ d \in {0, 6} /\ q = 1 /\ f > 0 => Sound(d, p, 2, c, f - 1, e, m, b)
         /\ d \in {0, 6} /\ q = 2 /\ m > 0 => Sound(d, p, 3, c, f, e, m - 1, b)
         /\ q = 3 => Sound(d, p, 4, c, f, e, m, b)
         /\ q = 4 => Sound(d, p, 5, c, f, e, m, b + 1)
         /\ q = 5 => Sound(d, p, 6, c, f, e, m + 1, b)
         /\ q = 6 => Sound(d, p, 7, c, f, e + 1, m, b)
         /\ d = 6 /\ c = 2 /\ e > 0 => Sound(d, p, q, 3, f, e - 1, m, b)
         /\ d = 6 /\ c = 3 /\ m > 0 => Sound(d, p, q, 4, f, e, m - 1, b)
         /\ d = 6 /\ c = 4 => Sound(d, p, q, 5, f, e, m, b - 1)
         /\ d = 6 /\ c = 5 => Sound(d, p, q, 6, f, e, m + 1, b)
         /\ d = 6 /\ c = 6 => Sound(d, p, q, 7, f + 1, e, m, b)
<1> USE BufferAssumption DEF Sound, Balanced, NotYet, In
<1>1. d = 6 /\ p = 2 /\ f > 0 => Sound(d, 3, q, c, f - 1, e, m, b) OBVIOUS
<1>2. d = 6 /\ p = 3 /\ m > 0 => Sound(d, 4, q, c, f, e, m - 1, b) OBVIOUS
<1>3. d = 6 /\ p = 4 => Sound(d, 5, q, c, f, e, m, b + 1) OBVIOUS
<1>4. d = 6 /\ p = 5 => Sound(d, 6, q, c, f, e, m + 1, b) OBVIOUS
<1>5. d = 6 /\ p = 6 => Sound(d, 7, q, c, f, e + 1, m, b) OBVIOUS
<1>6. d \in {0, 6} /\ q = 1 /\ f > 0 => Sound(d, p, 2, c, f - 1, e, m, b) OBVIOUS
<1>7. d \in {0, 6} /\ q = 2 /\ m > 0 => Sound(d, p, 3, c, f, e, m - 1, b) OBVIOUS
<1>8. q = 3 => Sound(d, p, 4, c, f, e, m, b) OBVIOUS
<1>9. q = 4 => Sound(d, p, 5, c, f, e, m, b + 1) OBVIOUS
<1>10. q = 5 => Sound(d, p, 6, c, f, e, m + 1, b) OBVIOUS
<1>11. q = 6 => Sound(d, p, 7, c, f, e + 1, m, b) OBVIOUS
<1>12. d = 6 /\ c = 2 /\ e > 0 => Sound(d, p, q, 3, f, e - 1, m, b) OBVIOUS
<1>13. d = 6 /\ c = 3 /\ m > 0 => Sound(d, p, q, 4, f, e, m - 1, b) OBVIOUS
<1>14. d = 6 /\ c = 4 => Sound(d, p, q, 5, f, e, m, b - 1) OBVIOUS
<1>15. d = 6 /\ c = 5 => Sound(d, p, q, 6, f, e, m + 1, b) OBVIOUS
<1>16. d = 6 /\ c = 6 => Sound(d, p, q, 7, f + 1, e, m, b) OBVIOUS
<1> HIDE DEF Sound
<1> QED
  BY <1>1, <1>2, <1>3, <1>4, <1>5, <1>6, <1>7, <1>8, <1>9, <1>10, <1>11, <1>12, <1>13, <1>14,
     <1>15, <1>16

\* Outside its section, where a thread is makes no difference.
LEMMA SoundElsewhere ==
  ASSUME NEW d, NEW p, NEW q, NEW c, NEW f, NEW e, NEW m, NEW b,
         Sound(d, p, q, c, f, e, m, b)
  PROVE  /\ d = 6 /\ p \in {0, 1, 2, 7, 8} => \A n \in {0, 1, 2, 7, 8} : Sound(d, n, q, c, f, e, m, b)
         /\ d = 6 /\ c \in {0, 1, 2, 7, 8} => \A n \in {0, 1, 2, 7, 8} : Sound(d, p, q, n, f, e, m, b)
         /\ q \in {0, 1, 7} => \A n \in {0, 1} : Sound(d, p, n, c, f, e, m, b)
BY DEF Sound, Balanced, NotYet, In

\* The driver makes the semaphores.
LEMMA SoundSetUp ==
  ASSUME NEW d, NEW p, NEW q, NEW c, NEW f, NEW e, NEW m, NEW b,
         Sound(d, p, q, c, f, e, m, b)
  PROVE  /\ d = 0 => Sound(1, p, q, c, f, e, m, b)
         /\ d = 1 => Sound(2, p, q, c, f, 0, m, b)
         /\ d = 2 => Sound(3, p, q, c, BUFFER_SIZE, e, m, b)
         /\ d = 3 => Sound(4, p, q, c, f, e, 1, b)
         /\ d \in {4, 5} => p = 0 /\ c = 0 /\ Sound(d + 1, p, q, c, f, e, m, b)
BY BufferAssumption DEF Sound, Balanced, NotYet, In

\* What the balance promises.
LEMMA SoundMeans ==
  ASSUME NEW d, NEW p, NEW q, NEW c, NEW f, NEW e, NEW m, NEW b,
         Sound(d, p, q, c, f, e, m, b)
  PROVE  /\ b \in 0 .. BUFFER_SIZE /\ f + b <= BUFFER_SIZE /\ e <= b
         /\ m + In(p, 4, 5) + In(q, 3, 5) + In(c, 4, 5) <= 1
         /\ m \in Nat
BY BufferAssumption DEF Sound, Balanced, NotYet, In

\* The local continuations stay within the code.
LEMMA SetThere ==
  ASSUME StackOK, LcOK, stack # <<>>, LC_SET, alive' \subseteq PtProcess,
         Innermost.t = "driver" => Innermost.at = 6
  PROVE  /\ LcOK' /\ lc'[Innermost.t] = Innermost.at
         /\ \A t \in ThreadName \ {Innermost.t} : lc'[t] = lc[t]
<1>1. PICK r : r = Innermost.t
  OBVIOUS
<1>2. PICK n : n = Innermost.at
  OBVIOUS
<1>3. r \in ThreadName /\ n \in 1 .. LastOf[r] /\ (r = "driver" => n = 6)
  BY <1>1, <1>2, InnermostOK DEF FrameOK
<1>4. n \in Nat
  BY <1>3 DEF ThreadName, LastOf
<1>5. lc' = [lc EXCEPT ![r] = n]
  BY <1>1, <1>2 DEF LC_SET
<1>6. lc' \in [ThreadName -> Nat] /\ \A t \in ThreadName : lc'[t] = IF t = r THEN n ELSE lc[t]
  BY <1>3, <1>4, <1>5 DEF LcOK
<1>7. \A t \in ThreadName : lc'[t] \in 0 .. LastOf[t]
  BY <1>3, <1>6 DEF LcOK, ThreadName, LastOf
<1>8. lc'["driver"] \in {0, 6}
  BY <1>3, <1>6 DEF LcOK, ThreadName
<1> QED
  BY <1>1, <1>2, <1>3, <1>6, <1>7, <1>8 DEF LcOK

LEMMA SetToBegin ==
  ASSUME LcOK, NEW r \in ThreadName, lc' = [lc EXCEPT ![r] = 0], alive' \subseteq PtProcess
  PROVE  /\ LcOK' /\ lc'[r] = 0
         /\ \A t \in ThreadName \ {r} : lc'[t] = lc[t]
<1>1. lc' \in [ThreadName -> Nat] /\ \A t \in ThreadName : lc'[t] = IF t = r THEN 0 ELSE lc[t]
  BY DEF LcOK
<1>2. \A t \in ThreadName : lc'[t] \in 0 .. LastOf[t]
  BY <1>1 DEF LcOK, ThreadName, LastOf
<1>3. lc'["driver"] \in {0, 6}
  BY <1>1 DEF LcOK, ThreadName
<1> QED
  BY <1>1, <1>2, <1>3 DEF LcOK

LEMMA LcStays ==
  ASSUME LcOK, lc' = lc, alive' \subseteq PtProcess
  PROVE  LcOK' /\ \A t \in ThreadName : lc'[t] = lc[t]
BY DEF LcOK

CriticalAt(t, n) ==
  \/ t \in {"producer", "consumer"} /\ n \in 4 .. 5
  \/ t = "producer2" /\ n \in 3 .. 5

SemTyped == semaphore \in [{"empty", "full", "mutex"} -> Nat]

BufferSound ==
  Sound(SetUpTo, Where("producer"), Where("producer2"), Where("consumer"),
        semaphore["full"], semaphore["empty"], semaphore["mutex"], buffer)

InsideOK == inside = {t \in ThreadName : CriticalAt(t, Where(t))}

\* The second process waits for its producer until that has left.
Spawned ==
  /\ Where("process2") # 3 => Where("producer2") = 0
  /\ "process2" \notin alive => Where("process2") # 3
  /\ RunsAt("process2", {3}) /\ "producer2" \in DOMAIN Innermost.got =>
       Innermost.got["producer2"] < 2 \/ Where("producer2") = 0

PtIInv == StackOK /\ LcOK /\ SemTyped /\ BufferSound /\ InsideOK /\ Spawned

LEMMA WhereWithin ==
  ASSUME StackOK, LcOK, NEW t \in ThreadName
  PROVE  Where(t) \in 0 .. LastOf[t] /\ Where(t) \in Nat
<1>1. CASE stack # <<>> /\ Innermost.t = t
  BY <1>1, InnermostOK DEF Where, FrameOK, ThreadName, LastOf
<1>2. CASE ~(stack # <<>> /\ Innermost.t = t)
  BY <1>2 DEF Where, LcOK
<1> QED
  BY <1>1, <1>2

\* Where a protothread runs, the process that waits for it is.
LEMMA WhereTheOthersAre ==
  ASSUME StackOK, LcOK, NEW t, RunsAt(t, Nat)
  PROVE  /\ Where(t) = Innermost.at
         /\ t \in {"producer", "consumer"} => Where("driver") = 6 /\ "driver" \in alive
         /\ t = "producer2" => Where("process2") = 3 /\ "process2" \in alive
         /\ t \in PtProcess => t \in alive
         /\ t # "driver" => Where("driver") \in {0, 6}
<1>1. /\ t \in {"producer", "consumer"} => Where("driver") = 6 /\ "driver" \in alive
      /\ t = "producer2" => Where("process2") = 3 /\ "process2" \in alive
      /\ t \in PtProcess => t \in alive
  <2>1. ASSUME NEW f, OneRuns(f) PROVE t = f.t
    BY <2>1, TupleEnds DEF OneRuns, RunsAt, Innermost
  <2>2. ASSUME NEW f, NEW g, TwoRun(f, g) PROVE t = g.t
    BY <2>2, TupleEnds DEF TwoRun, RunsAt, Innermost
  <2>3. ASSUME NEW f, OneRuns(f)
        PROVE t \in PtProcess /\ t \in alive
    BY <2>1, <2>3 DEF OneRuns
  <2>4. ASSUME NEW f, NEW g, TwoRun(f, g)
        PROVE  \/ t \in {"producer", "consumer"} /\ Where("driver") = 6 /\ "driver" \in alive
               \/ t = "producer2" /\ Where("process2") = 3 /\ "process2" \in alive
    <3>1. t = g.t /\ (t \in {"producer", "consumer"} \/ t = "producer2")
      BY <2>2, <2>4 DEF TwoRun, Waiting
    <3> QED
      BY <2>4, <3>1 DEF TwoRun, Waiting, Where, RunsAt
  <2> QED
    BY <2>3, <2>4 DEF StackOK, RunsAt, PtProcess
<1>2. Where(t) = Innermost.at /\ (t # "driver" => Where("driver") \in {0, 6})
  BY DEF Where, RunsAt, LcOK
<1> QED
  BY <1>1, <1>2

LEMMA WhenNoneRuns ==
  ASSUME LcOK, stack = <<>>
  PROVE  \A t : Where(t) = lc[t]
BY DEF Where

\* The driver stands still: so does what it has set up.
LEMMA SetUpStays ==
  ASSUME Where("driver")' = Where("driver"), "driver" \in alive' <=> "driver" \in alive
  PROVE  SetUpTo' = SetUpTo
BY DEF SetUpTo

LEMMA SetUpWhen ==
  ASSUME StackOK, LcOK, NEW t, RunsAt(t, Nat)
  PROVE  /\ t \in {"producer", "consumer"} => SetUpTo = 6
         /\ t # "driver" => SetUpTo \in {0, 6}
         /\ t = "driver" => SetUpTo = IF Innermost.at <= 5 THEN Innermost.at ELSE 6
BY WhereTheOthersAre DEF SetUpTo, PtProcess

\* Who is inside when only r moves.
LEMMA InsideMoves ==
  ASSUME InsideOK, NEW r \in ThreadName, NEW n, OnlyMoves(r, n)
  PROVE  /\ CriticalAt(r, n) /\ inside' = inside \cup {r} => InsideOK'
         /\ ~CriticalAt(r, n) /\ inside' = inside \ {r} => InsideOK'
         /\ (CriticalAt(r, n) <=> CriticalAt(r, Where(r))) /\ inside' = inside => InsideOK'
<1>1. Where(r)' = n /\ \A t \in ThreadName \ {r} : Where(t)' = Where(t)
  BY DEF OnlyMoves
<1>2. \A t \in ThreadName : CriticalAt(t, Where(t)') <=> IF t = r THEN CriticalAt(r, n) ELSE CriticalAt(t, Where(t))
  BY <1>1
<1>3. InsideOK' <=> inside' = {t \in ThreadName : CriticalAt(t, Where(t)')}
  BY DEF InsideOK, CriticalAt
<1>4. inside = {t \in ThreadName : CriticalAt(t, Where(t))}
  BY DEF InsideOK
<1> HIDE DEF CriticalAt
<1> QED
  BY <1>2, <1>3, <1>4

\* All but the second process are where they were, and nothing has been counted.
LEMMA StandsStill ==
  ASSUME PtIInv, \A t \in ThreadName \ {"process2"} : Where(t)' = Where(t),
         "driver" \in alive' <=> "driver" \in alive,
         UNCHANGED <<semaphore, buffer, inside>>
  PROVE  SemTyped' /\ BufferSound' /\ InsideOK'
<1>1. SetUpTo' = SetUpTo
  BY SetUpStays DEF ThreadName
<1>2. BufferSound'
  BY <1>1 DEF BufferSound, PtIInv, ThreadName
<1>3. InsideOK'
  <2>1. InsideOK' <=> inside' = {t \in ThreadName : CriticalAt(t, Where(t)')}
    BY DEF InsideOK, CriticalAt
  <2>2. inside = {t \in ThreadName : CriticalAt(t, Where(t))}
    BY DEF InsideOK, PtIInv
  <2>3. \A n : ~CriticalAt("process2", n)
    BY DEF CriticalAt
  <2> HIDE DEF CriticalAt
  <2> QED
    BY <2>1, <2>2, <2>3
<1> QED
  BY <1>2, <1>3 DEF SemTyped, PtIInv

\* It goes on outside the second process: what holds of that stays.
LEMMA SpawnedGoesOn ==
  ASSUME PtIInv, NEW r, NEW n, RunsAt(r, Nat), r # "process2", OnlyMoves(r, n), RunsAt(r, {n})',
         alive' = alive
  PROVE  Spawned'
<1>1. r = "producer2" => Where("process2") = 3
  BY WhereTheOthersAre DEF PtIInv
<1>2. Where("process2")' = Where("process2") /\ (r # "producer2" => Where("producer2")' = Where("producer2"))
  BY DEF OnlyMoves, ThreadName
<1>3. ~RunsAt("process2", {3})'
  BY DEF RunsAt
<1> QED
  BY <1>1, <1>2, <1>3 DEF Spawned, PtIInv

LEMMA OneOnly ==
  ASSUME NEW t, NEW places, RunsAt(t, places), places \subseteq Nat
  PROVE  RunsAt(t, Nat) /\ Innermost.t = t /\ Innermost.at \in places /\ stack # <<>>
BY DEF RunsAt

\* A thread has gone on, and this is what it has counted.
LEMMA Balances ==
  ASSUME PtIInv, NEW r \in {"producer", "producer2", "consumer"}, NEW n, OnlyMoves(r, n), alive' = alive,
         Sound(SetUpTo,
               IF r = "producer" THEN n ELSE Where("producer"),
               IF r = "producer2" THEN n ELSE Where("producer2"),
               IF r = "consumer" THEN n ELSE Where("consumer"),
               semaphore'["full"], semaphore'["empty"], semaphore'["mutex"], buffer')
  PROVE  BufferSound'
<1>1. SetUpTo' = SetUpTo
  BY SetUpStays DEF OnlyMoves, ThreadName
<1>2. /\ Where("producer")' = IF r = "producer" THEN n ELSE Where("producer")
      /\ Where("producer2")' = IF r = "producer2" THEN n ELSE Where("producer2")
      /\ Where("consumer")' = IF r = "consumer" THEN n ELSE Where("consumer")
  BY DEF OnlyMoves, ThreadName
<1> QED
  BY <1>1, <1>2 DEF BufferSound

LEMMA Counted1 ==
  ASSUME SemTyped, NEW s \in {"full", "empty", "mutex"}, NEW k \in Nat,
         semaphore' = [semaphore EXCEPT ![s] = k]
  PROVE  /\ SemTyped' /\ semaphore'[s] = k
         /\ \A z \in {"full", "empty", "mutex"} \ {s} : semaphore'[z] = semaphore[z]
BY DEF SemTyped

\* A thread goes on, and the semaphores with it.
LEMMA ThreadGoesOn ==
  ASSUME PtIInv, NEW r \in {"producer", "producer2", "consumer"}, NEW a \in Nat, RunsAt(r, {a}),
         NEW n, GoesTo(n), n \in 1 .. LastOf[r], alive' = alive,
         \A t \in ThreadName \ {r} : lc'[t] = lc[t], LcOK', SemTyped',
         Sound(SetUpTo,
               IF r = "producer" THEN n ELSE Where("producer"),
               IF r = "producer2" THEN n ELSE Where("producer2"),
               IF r = "consumer" THEN n ELSE Where("consumer"),
               semaphore'["full"], semaphore'["empty"], semaphore'["mutex"], buffer'),
         \/ CriticalAt(r, n) /\ inside' = inside \cup {r}
         \/ ~CriticalAt(r, n) /\ inside' = inside \ {r}
         \/ (CriticalAt(r, n) <=> CriticalAt(r, a)) /\ inside' = inside
  PROVE  PtIInv'
<1>1. RunsAt(r, Nat) /\ Innermost.t = r /\ Innermost.at = a /\ stack # <<>> /\ r \in ThreadName
  BY OneOnly DEF ThreadName
<1>2. StackOK' /\ OnlyMoves(r, n) /\ RunsAt(r, {n})'
  BY <1>1, GoingOn DEF PtIInv
<1>3. Spawned'
  BY <1>1, <1>2, SpawnedGoesOn
<1>4. BufferSound'
  BY <1>2, Balances
<1>5. InsideOK'
  <2>1. Where(r) = a
    BY <1>1, WhereTheOthersAre DEF PtIInv
  <2> QED
    BY <1>1, <1>2, <2>1, InsideMoves DEF PtIInv
<1> QED
  BY <1>2, <1>3, <1>4, <1>5 DEF PtIInv

\* The innermost protothread returns where it is, to be called again.
LEMMA ReturnsToWait ==
  ASSUME PtIInv, NEW r, RunsAt(r, Nat), NEW v \in {PT_WAITING, PT_YIELDED}, Return(v), LC_SET,
         r = "driver" => Innermost.at = 6, UNCHANGED <<semaphore, buffer, inside>>
  PROVE  PtIInv'
<1>1. stack # <<>> /\ Innermost.t = r /\ StackOK /\ LcOK /\ alive \subseteq PtProcess
  BY DEF RunsAt, PtIInv, LcOK
<1>2. v \notin {PT_EXITED, PT_ENDED} /\ v < 2
  BY DEF PT_WAITING, PT_YIELDED, PT_EXITED, PT_ENDED
<1>3. alive' = alive
  BY <1>1, <1>2 DEF Return
<1>4. LcOK' /\ lc'[r] = Innermost.at /\ \A t \in ThreadName \ {r} : lc'[t] = lc[t]
  BY <1>1, <1>3, SetThere
<1>5. StackOK' /\ OnlyMoves(r, lc'[r])
  BY <1>1, <1>4, Returning
<1>6. \A t \in ThreadName : Where(t)' = Where(t)
  <2>1. Where(r) = Innermost.at
    BY <1>1 DEF Where
  <2> QED
    BY <1>4, <1>5, <2>1 DEF OnlyMoves
<1>7. SemTyped' /\ BufferSound' /\ InsideOK'
  BY <1>3, <1>6, StandsStill
<1>8. RunsAt("process2", {3})' /\ "producer2" \in DOMAIN Innermost'.got => Innermost'.got["producer2"] < 2
  <2>1. CASE r \in PtProcess
    <3>1. stack' = <<>>
      BY <1>1, <1>4, <2>1, Returning
    <3> QED
      BY <3>1 DEF RunsAt
  <2>2. CASE r \notin PtProcess /\ r # "producer2"
    <3>1. RunsAt("driver", {6})'
      BY <1>1, <1>4, <2>2, Returning
    <3> QED
      BY <3>1 DEF RunsAt
  <2>3. CASE r = "producer2"
    <3>1. r \notin PtProcess
      BY <2>3 DEF PtProcess
    <3>2. Innermost'.got[r] = v
      BY <1>1, <1>4, <3>1, Returning
    <3> QED
      BY <1>2, <2>3, <3>2
  <2> QED
    BY <2>1, <2>2, <2>3
<1>9. Spawned'
  BY <1>3, <1>6, <1>8 DEF Spawned, PtIInv, ThreadName
<1> QED
  BY <1>4, <1>5, <1>7, <1>9 DEF PtIInv

\* The second process goes on; when it leaves the wait its producer has left.
LEMMA Process2GoesOn ==
  ASSUME PtIInv, RunsAt("process2", Nat), NEW n \in 1 .. LastOf["process2"], GoesTo(n), alive' = alive,
         \A t \in ThreadName \ {"process2"} : lc'[t] = lc[t], LcOK',
         UNCHANGED <<semaphore, buffer, inside>>,
         Innermost.at = 3 => Where("producer2") = 0
  PROVE  PtIInv'
<1>1. stack # <<>> /\ Innermost.t = "process2" /\ StackOK
  BY DEF RunsAt, PtIInv
<1>2. StackOK' /\ OnlyMoves("process2", n) /\ Innermost'.got = <<>>
  BY <1>1, GoingOn
<1>3. SemTyped' /\ BufferSound' /\ InsideOK'
  BY <1>2, StandsStill DEF OnlyMoves
<1>4. "process2" \in alive /\ Where("process2") = Innermost.at
  BY WhereTheOthersAre DEF PtProcess, PtIInv
<1>5. Where("producer2")' = 0
  BY <1>2, <1>4 DEF OnlyMoves, ThreadName, Spawned, PtIInv
<1>6. Spawned'
  BY <1>4, <1>5 DEF Spawned
<1> QED
  BY <1>2, <1>3, <1>6 DEF PtIInv

\* The driver goes on.
LEMMA DriverGoesOn ==
  ASSUME PtIInv, RunsAt("driver", Nat), NEW n \in 1 .. LastOf["driver"], GoesTo(n), alive' = alive,
         \A t \in ThreadName \ {"driver"} : lc'[t] = lc[t], LcOK', SemTyped', inside' = inside,
         Sound(IF n <= 5 THEN n ELSE 6, Where("producer"), Where("producer2"), Where("consumer"),
               semaphore'["full"], semaphore'["empty"], semaphore'["mutex"], buffer')
  PROVE  PtIInv'
<1>1. stack # <<>> /\ Innermost.t = "driver" /\ StackOK
  BY DEF RunsAt, PtIInv
<1>2. StackOK' /\ OnlyMoves("driver", n) /\ RunsAt("driver", {n})'
  BY <1>1, GoingOn
<1>3. "driver" \in alive
  BY WhereTheOthersAre DEF PtProcess, PtIInv
<1>4. SetUpTo' = IF n <= 5 THEN n ELSE 6
  BY <1>2, <1>3 DEF OnlyMoves, SetUpTo
<1>5. BufferSound'
  BY <1>2, <1>4 DEF BufferSound, OnlyMoves, ThreadName
<1>6. Spawned'
  BY <1>2, SpawnedGoesOn
<1>7. InsideOK'
  <2>1. "driver" \in ThreadName /\ (CriticalAt("driver", n) <=> CriticalAt("driver", Where("driver")))
    BY DEF ThreadName, CriticalAt
  <2> QED
    BY <1>2, <2>1, InsideMoves DEF PtIInv
<1> QED
  BY <1>2, <1>5, <1>6, <1>7 DEF PtIInv

\* The thread that comes to a statement of these kinds is in the buffer's code.
LEMMA SoundNow ==
  ASSUME PtIInv, NEW r \in {"producer", "producer2", "consumer"}, NEW a \in Nat, RunsAt(r, {a})
  PROVE  /\ Sound(SetUpTo, Where("producer"), Where("producer2"), Where("consumer"),
                  semaphore["full"], semaphore["empty"], semaphore["mutex"], buffer)
         /\ Where(r) = a /\ Innermost.at = a /\ Innermost.t = r /\ stack # <<>>
         /\ r # "producer2" => SetUpTo = 6
         /\ SetUpTo \in {0, 6}
<1>1. RunsAt(r, Nat) /\ Innermost.t = r /\ Innermost.at = a /\ stack # <<>>
  BY OneOnly
<1>2. Where(r) = a /\ (r # "producer2" => SetUpTo = 6) /\ SetUpTo \in {0, 6}
  BY <1>1, WhereTheOthersAre, SetUpWhen DEF PtIInv
<1> QED
  BY <1>1, <1>2 DEF PtIInv, BufferSound

\* PT_SEM_WAIT finds the semaphore free, and takes it.
LEMMA SemTaken ==
  ASSUME PtIInv, SemWait, Holds(semaphore[Statement.arg] > 0)
  PROVE  PtIInv'
<1> DEFINE d == SetUpTo
           p == Where("producer")
           q == Where("producer2")
           c == Where("consumer")
           f == semaphore["full"]
           e == semaphore["empty"]
           m == semaphore["mutex"]
<1>1. /\ semaphore[Statement.arg] > 0 /\ semaphore' = [semaphore EXCEPT ![Statement.arg] = @ - 1]
      /\ inside' = IF Statement.arg = "mutex" THEN inside \cup {Innermost.t} ELSE inside
      /\ Falls /\ alive' = alive /\ LC_SET /\ buffer' = buffer
  BY DEF SemWait, Holds
<1>2. RunsAt("producer", {2, 3}) \/ RunsAt("consumer", {2, 3}) \/ RunsAt("producer2", {1, 2})
  BY WhoRunsWhere DEF SemWait, PtIInv
<1>3. LcOK' /\ \A t \in ThreadName \ {Innermost.t} : lc'[t] = lc[t]
  <2>1. stack # <<>> /\ Innermost.t # "driver" /\ alive' \subseteq PtProcess
    BY <1>1, <1>2 DEF RunsAt, PtIInv, LcOK
  <2> QED
    BY <1>1, <2>1, SetThere DEF PtIInv
<1>4. SemTyped
  BY DEF PtIInv
<1>5. CASE RunsAt("producer", {2})
  <2>1. Sound(d, p, q, c, f, e, m, buffer) /\ Where("producer") = 2 /\ Innermost.at = 2 /\ Innermost.t = "producer"
        /\ d = 6
    BY <1>5, SoundNow
  <2>2. Statement.arg = "full"
    BY <2>1, ProducerCode DEF Statement
  <2>3. semaphore' = [semaphore EXCEPT !["full"] = semaphore["full"] - 1] /\ semaphore["full"] > 0
        /\ inside' = inside
    BY <1>1, <2>1, <2>2
  <2>4. SemTyped' /\ semaphore'["full"] = semaphore["full"] - 1
        /\ \A z \in {"full", "empty", "mutex"} \ {"full"} : semaphore'[z] = semaphore[z]
    <3>1. semaphore["full"] - 1 \in Nat
      BY <1>4, <2>3 DEF SemTyped
    <3> QED
      BY <1>4, <2>3, <3>1, Counted1
  <2>5. Sound(d, 3, q, c, f - 1, e, m, buffer)
    <3> HIDE DEF d, p, q, c, f, e, m
    <3>1. p = 2 /\ f > 0
      BY <2>1, <2>3 DEF p, q, c, f, e, m
    <3> QED
      BY <2>1, <3>1, SoundSteps
  <2>6. GoesTo(3) /\ 3 \in 1 .. LastOf["producer"] /\ \A t \in ThreadName \ {"producer"} : lc'[t] = lc[t]
    BY <1>1, <1>3, <2>1 DEF Falls, LastOf
  <2>7. (CriticalAt("producer", 3) <=> CriticalAt("producer", 2))
    BY DEF CriticalAt
  <2> QED
    BY <1>1, <1>3, <1>5, <2>3, <2>4, <2>5, <2>6, <2>7, ThreadGoesOn
<1>6. CASE RunsAt("producer", {3})
  <2>1. Sound(d, p, q, c, f, e, m, buffer) /\ Where("producer") = 3 /\ Innermost.at = 3 /\ Innermost.t = "producer"
        /\ d = 6
    BY <1>6, SoundNow
  <2>2. Statement.arg = "mutex"
    BY <2>1, ProducerCode DEF Statement
  <2>3. semaphore' = [semaphore EXCEPT !["mutex"] = semaphore["mutex"] - 1] /\ semaphore["mutex"] > 0
        /\ inside' = inside \cup {"producer"}
    BY <1>1, <2>1, <2>2
  <2>4. SemTyped' /\ semaphore'["mutex"] = semaphore["mutex"] - 1
        /\ \A z \in {"full", "empty", "mutex"} \ {"mutex"} : semaphore'[z] = semaphore[z]
    <3>1. semaphore["mutex"] - 1 \in Nat
      BY <1>4, <2>3 DEF SemTyped
    <3> QED
      BY <1>4, <2>3, <3>1, Counted1
  <2>5. Sound(d, 4, q, c, f, e, m - 1, buffer)
    <3> HIDE DEF d, p, q, c, f, e, m
    <3>1. p = 3 /\ m > 0
      BY <2>1, <2>3 DEF p, q, c, f, e, m
    <3> QED
      BY <2>1, <3>1, SoundSteps
  <2>6. GoesTo(4) /\ 4 \in 1 .. LastOf["producer"] /\ \A t \in ThreadName \ {"producer"} : lc'[t] = lc[t]
    BY <1>1, <1>3, <2>1 DEF Falls, LastOf
  <2>7. CriticalAt("producer", 4)
    BY DEF CriticalAt
  <2> QED
    BY <1>1, <1>3, <1>6, <2>3, <2>4, <2>5, <2>6, <2>7, ThreadGoesOn
<1>7. CASE RunsAt("consumer", {2})
  <2>1. Sound(d, p, q, c, f, e, m, buffer) /\ Where("consumer") = 2 /\ Innermost.at = 2 /\ Innermost.t = "consumer"
        /\ d = 6
    BY <1>7, SoundNow
  <2>2. Statement.arg = "empty"
    BY <2>1, ConsumerCode DEF Statement
  <2>3. semaphore' = [semaphore EXCEPT !["empty"] = semaphore["empty"] - 1] /\ semaphore["empty"] > 0
        /\ inside' = inside
    BY <1>1, <2>1, <2>2
  <2>4. SemTyped' /\ semaphore'["empty"] = semaphore["empty"] - 1
        /\ \A z \in {"full", "empty", "mutex"} \ {"empty"} : semaphore'[z] = semaphore[z]
    <3>1. semaphore["empty"] - 1 \in Nat
      BY <1>4, <2>3 DEF SemTyped
    <3> QED
      BY <1>4, <2>3, <3>1, Counted1
  <2>5. Sound(d, p, q, 3, f, e - 1, m, buffer)
    <3> HIDE DEF d, p, q, c, f, e, m
    <3>1. c = 2 /\ e > 0
      BY <2>1, <2>3 DEF p, q, c, f, e, m
    <3> QED
      BY <2>1, <3>1, SoundSteps
  <2>6. GoesTo(3) /\ 3 \in 1 .. LastOf["consumer"] /\ \A t \in ThreadName \ {"consumer"} : lc'[t] = lc[t]
    BY <1>1, <1>3, <2>1 DEF Falls, LastOf
  <2>7. (CriticalAt("consumer", 3) <=> CriticalAt("consumer", 2))
    BY DEF CriticalAt
  <2> QED
    BY <1>1, <1>3, <1>7, <2>3, <2>4, <2>5, <2>6, <2>7, ThreadGoesOn
<1>8. CASE RunsAt("consumer", {3})
  <2>1. Sound(d, p, q, c, f, e, m, buffer) /\ Where("consumer") = 3 /\ Innermost.at = 3 /\ Innermost.t = "consumer"
        /\ d = 6
    BY <1>8, SoundNow
  <2>2. Statement.arg = "mutex"
    BY <2>1, ConsumerCode DEF Statement
  <2>3. semaphore' = [semaphore EXCEPT !["mutex"] = semaphore["mutex"] - 1] /\ semaphore["mutex"] > 0
        /\ inside' = inside \cup {"consumer"}
    BY <1>1, <2>1, <2>2
  <2>4. SemTyped' /\ semaphore'["mutex"] = semaphore["mutex"] - 1
        /\ \A z \in {"full", "empty", "mutex"} \ {"mutex"} : semaphore'[z] = semaphore[z]
    <3>1. semaphore["mutex"] - 1 \in Nat
      BY <1>4, <2>3 DEF SemTyped
    <3> QED
      BY <1>4, <2>3, <3>1, Counted1
  <2>5. Sound(d, p, q, 4, f, e, m - 1, buffer)
    <3> HIDE DEF d, p, q, c, f, e, m
    <3>1. c = 3 /\ m > 0
      BY <2>1, <2>3 DEF p, q, c, f, e, m
    <3> QED
      BY <2>1, <3>1, SoundSteps
  <2>6. GoesTo(4) /\ 4 \in 1 .. LastOf["consumer"] /\ \A t \in ThreadName \ {"consumer"} : lc'[t] = lc[t]
    BY <1>1, <1>3, <2>1 DEF Falls, LastOf
  <2>7. CriticalAt("consumer", 4)
    BY DEF CriticalAt
  <2> QED
    BY <1>1, <1>3, <1>8, <2>3, <2>4, <2>5, <2>6, <2>7, ThreadGoesOn
<1>9. CASE RunsAt("producer2", {1})
  <2>1. Sound(d, p, q, c, f, e, m, buffer) /\ Where("producer2") = 1 /\ Innermost.at = 1 /\ Innermost.t = "producer2"
        /\ d \in {0, 6}
    BY <1>9, SoundNow
  <2>2. Statement.arg = "full"
    BY <2>1, Producer2Code DEF Statement
  <2>3. semaphore' = [semaphore EXCEPT !["full"] = semaphore["full"] - 1] /\ semaphore["full"] > 0
        /\ inside' = inside
    BY <1>1, <2>1, <2>2
  <2>4. SemTyped' /\ semaphore'["full"] = semaphore["full"] - 1
        /\ \A z \in {"full", "empty", "mutex"} \ {"full"} : semaphore'[z] = semaphore[z]
    <3>1. semaphore["full"] - 1 \in Nat
      BY <1>4, <2>3 DEF SemTyped
    <3> QED
      BY <1>4, <2>3, <3>1, Counted1
  <2>5. Sound(d, p, 2, c, f - 1, e, m, buffer)
    <3> HIDE DEF d, p, q, c, f, e, m
    <3>1. q = 1 /\ f > 0
      BY <2>1, <2>3 DEF p, q, c, f, e, m
    <3> QED
      BY <2>1, <3>1, SoundSteps
  <2>6. GoesTo(2) /\ 2 \in 1 .. LastOf["producer2"] /\ \A t \in ThreadName \ {"producer2"} : lc'[t] = lc[t]
    BY <1>1, <1>3, <2>1 DEF Falls, LastOf
  <2>7. (CriticalAt("producer2", 2) <=> CriticalAt("producer2", 1))
    BY DEF CriticalAt
  <2> QED
    BY <1>1, <1>3, <1>9, <2>3, <2>4, <2>5, <2>6, <2>7, ThreadGoesOn
<1>10. CASE RunsAt("producer2", {2})
  <2>1. Sound(d, p, q, c, f, e, m, buffer) /\ Where("producer2") = 2 /\ Innermost.at = 2 /\ Innermost.t = "producer2"
        /\ d \in {0, 6}
    BY <1>10, SoundNow
  <2>2. Statement.arg = "mutex"
    BY <2>1, Producer2Code DEF Statement
  <2>3. semaphore' = [semaphore EXCEPT !["mutex"] = semaphore["mutex"] - 1] /\ semaphore["mutex"] > 0
        /\ inside' = inside \cup {"producer2"}
    BY <1>1, <2>1, <2>2
  <2>4. SemTyped' /\ semaphore'["mutex"] = semaphore["mutex"] - 1
        /\ \A z \in {"full", "empty", "mutex"} \ {"mutex"} : semaphore'[z] = semaphore[z]
    <3>1. semaphore["mutex"] - 1 \in Nat
      BY <1>4, <2>3 DEF SemTyped
    <3> QED
      BY <1>4, <2>3, <3>1, Counted1
  <2>5. Sound(d, p, 3, c, f, e, m - 1, buffer)
    <3> HIDE DEF d, p, q, c, f, e, m
    <3>1. q = 2 /\ m > 0
      BY <2>1, <2>3 DEF p, q, c, f, e, m
    <3> QED
      BY <2>1, <3>1, SoundSteps
  <2>6. GoesTo(3) /\ 3 \in 1 .. LastOf["producer2"] /\ \A t \in ThreadName \ {"producer2"} : lc'[t] = lc[t]
    BY <1>1, <1>3, <2>1 DEF Falls, LastOf
  <2>7. CriticalAt("producer2", 3)
    BY DEF CriticalAt
  <2> QED
    BY <1>1, <1>3, <1>10, <2>3, <2>4, <2>5, <2>6, <2>7, ThreadGoesOn
<1> QED
  BY <1>2, <1>5, <1>6, <1>7, <1>8, <1>9, <1>10 DEF RunsAt

LEMMA SemWaitKeeps ==
  ASSUME PtIInv, SemWait
  PROVE  PtIInv'
<1>1. CASE ~Holds(semaphore[Statement.arg] > 0)
  <2>1. Return(PT_WAITING) /\ LC_SET /\ UNCHANGED <<semaphore, buffer, inside>>
    BY <1>1 DEF SemWait
  <2>2. RunsAt("producer", {2, 3}) \/ RunsAt("consumer", {2, 3}) \/ RunsAt("producer2", {1, 2})
    BY WhoRunsWhere DEF SemWait, PtIInv
  <2>3. PICK r : RunsAt(r, Nat) /\ r # "driver"
    BY <2>2 DEF RunsAt
  <2> QED
    BY <2>1, <2>3, ReturnsToWait
<1> QED
  BY <1>1, SemTaken

LEMMA SemSignalKeeps ==
  ASSUME PtIInv, SemSignal
  PROVE  PtIInv'
<1> DEFINE d == SetUpTo
           p == Where("producer")
           q == Where("producer2")
           c == Where("consumer")
           f == semaphore["full"]
           e == semaphore["empty"]
           m == semaphore["mutex"]
<1>1. /\ semaphore' = [semaphore EXCEPT ![Statement.arg] = @ + 1]
      /\ inside' = IF Statement.arg = "mutex" THEN inside \ {Innermost.t} ELSE inside
      /\ Falls /\ alive' = alive /\ lc' = lc /\ buffer' = buffer
  BY DEF SemSignal
<1>2. RunsAt("producer", {5, 6}) \/ RunsAt("consumer", {5, 6}) \/ RunsAt("producer2", {5, 6})
  BY WhoRunsWhere DEF SemSignal, PtIInv
<1>3. LcOK' /\ \A t \in ThreadName \ {Innermost.t} : lc'[t] = lc[t]
  BY <1>1, LcStays DEF PtIInv, LcOK
<1>4. SemTyped
  BY DEF PtIInv
<1>5. CASE RunsAt("producer", {5})
  <2>1. Sound(d, p, q, c, f, e, m, buffer) /\ Where("producer") = 5 /\ Innermost.at = 5 /\ Innermost.t = "producer"
        /\ d = 6
    BY <1>5, SoundNow
  <2>2. Statement.arg = "mutex"
    BY <2>1, ProducerCode DEF Statement
  <2>3. semaphore' = [semaphore EXCEPT !["mutex"] = semaphore["mutex"] + 1]
        /\ inside' = inside \ {"producer"}
    BY <1>1, <2>1, <2>2
  <2>4. SemTyped' /\ semaphore'["mutex"] = semaphore["mutex"] + 1
        /\ \A z \in {"full", "empty", "mutex"} \ {"mutex"} : semaphore'[z] = semaphore[z]
    <3>1. semaphore["mutex"] + 1 \in Nat
      BY <1>4, <2>3 DEF SemTyped
    <3> QED
      BY <1>4, <2>3, <3>1, Counted1
  <2>5. Sound(d, 6, q, c, f, e, m + 1, buffer)
    <3> HIDE DEF d, p, q, c, f, e, m
    <3>1. p = 5
      BY <2>1, <2>3 DEF p, q, c, f, e, m
    <3> QED
      BY <2>1, <3>1, SoundSteps
  <2>6. GoesTo(6) /\ 6 \in 1 .. LastOf["producer"] /\ \A t \in ThreadName \ {"producer"} : lc'[t] = lc[t]
    BY <1>1, <1>3, <2>1 DEF Falls, LastOf
  <2>7. ~CriticalAt("producer", 6)
    BY DEF CriticalAt
  <2> QED
    BY <1>1, <1>3, <1>5, <2>3, <2>4, <2>5, <2>6, <2>7, ThreadGoesOn
<1>6. CASE RunsAt("producer", {6})
  <2>1. Sound(d, p, q, c, f, e, m, buffer) /\ Where("producer") = 6 /\ Innermost.at = 6 /\ Innermost.t = "producer"
        /\ d = 6
    BY <1>6, SoundNow
  <2>2. Statement.arg = "empty"
    BY <2>1, ProducerCode DEF Statement
  <2>3. semaphore' = [semaphore EXCEPT !["empty"] = semaphore["empty"] + 1]
        /\ inside' = inside
    BY <1>1, <2>1, <2>2
  <2>4. SemTyped' /\ semaphore'["empty"] = semaphore["empty"] + 1
        /\ \A z \in {"full", "empty", "mutex"} \ {"empty"} : semaphore'[z] = semaphore[z]
    <3>1. semaphore["empty"] + 1 \in Nat
      BY <1>4, <2>3 DEF SemTyped
    <3> QED
      BY <1>4, <2>3, <3>1, Counted1
  <2>5. Sound(d, 7, q, c, f, e + 1, m, buffer)
    <3> HIDE DEF d, p, q, c, f, e, m
    <3>1. p = 6
      BY <2>1, <2>3 DEF p, q, c, f, e, m
    <3> QED
      BY <2>1, <3>1, SoundSteps
  <2>6. GoesTo(7) /\ 7 \in 1 .. LastOf["producer"] /\ \A t \in ThreadName \ {"producer"} : lc'[t] = lc[t]
    BY <1>1, <1>3, <2>1 DEF Falls, LastOf
  <2>7. (CriticalAt("producer", 7) <=> CriticalAt("producer", 6))
    BY DEF CriticalAt
  <2> QED
    BY <1>1, <1>3, <1>6, <2>3, <2>4, <2>5, <2>6, <2>7, ThreadGoesOn
<1>7. CASE RunsAt("consumer", {5})
  <2>1. Sound(d, p, q, c, f, e, m, buffer) /\ Where("consumer") = 5 /\ Innermost.at = 5 /\ Innermost.t = "consumer"
        /\ d = 6
    BY <1>7, SoundNow
  <2>2. Statement.arg = "mutex"
    BY <2>1, ConsumerCode DEF Statement
  <2>3. semaphore' = [semaphore EXCEPT !["mutex"] = semaphore["mutex"] + 1]
        /\ inside' = inside \ {"consumer"}
    BY <1>1, <2>1, <2>2
  <2>4. SemTyped' /\ semaphore'["mutex"] = semaphore["mutex"] + 1
        /\ \A z \in {"full", "empty", "mutex"} \ {"mutex"} : semaphore'[z] = semaphore[z]
    <3>1. semaphore["mutex"] + 1 \in Nat
      BY <1>4, <2>3 DEF SemTyped
    <3> QED
      BY <1>4, <2>3, <3>1, Counted1
  <2>5. Sound(d, p, q, 6, f, e, m + 1, buffer)
    <3> HIDE DEF d, p, q, c, f, e, m
    <3>1. c = 5
      BY <2>1, <2>3 DEF p, q, c, f, e, m
    <3> QED
      BY <2>1, <3>1, SoundSteps
  <2>6. GoesTo(6) /\ 6 \in 1 .. LastOf["consumer"] /\ \A t \in ThreadName \ {"consumer"} : lc'[t] = lc[t]
    BY <1>1, <1>3, <2>1 DEF Falls, LastOf
  <2>7. ~CriticalAt("consumer", 6)
    BY DEF CriticalAt
  <2> QED
    BY <1>1, <1>3, <1>7, <2>3, <2>4, <2>5, <2>6, <2>7, ThreadGoesOn
<1>8. CASE RunsAt("consumer", {6})
  <2>1. Sound(d, p, q, c, f, e, m, buffer) /\ Where("consumer") = 6 /\ Innermost.at = 6 /\ Innermost.t = "consumer"
        /\ d = 6
    BY <1>8, SoundNow
  <2>2. Statement.arg = "full"
    BY <2>1, ConsumerCode DEF Statement
  <2>3. semaphore' = [semaphore EXCEPT !["full"] = semaphore["full"] + 1]
        /\ inside' = inside
    BY <1>1, <2>1, <2>2
  <2>4. SemTyped' /\ semaphore'["full"] = semaphore["full"] + 1
        /\ \A z \in {"full", "empty", "mutex"} \ {"full"} : semaphore'[z] = semaphore[z]
    <3>1. semaphore["full"] + 1 \in Nat
      BY <1>4, <2>3 DEF SemTyped
    <3> QED
      BY <1>4, <2>3, <3>1, Counted1
  <2>5. Sound(d, p, q, 7, f + 1, e, m, buffer)
    <3> HIDE DEF d, p, q, c, f, e, m
    <3>1. c = 6
      BY <2>1, <2>3 DEF p, q, c, f, e, m
    <3> QED
      BY <2>1, <3>1, SoundSteps
  <2>6. GoesTo(7) /\ 7 \in 1 .. LastOf["consumer"] /\ \A t \in ThreadName \ {"consumer"} : lc'[t] = lc[t]
    BY <1>1, <1>3, <2>1 DEF Falls, LastOf
  <2>7. (CriticalAt("consumer", 7) <=> CriticalAt("consumer", 6))
    BY DEF CriticalAt
  <2> QED
    BY <1>1, <1>3, <1>8, <2>3, <2>4, <2>5, <2>6, <2>7, ThreadGoesOn
<1>9. CASE RunsAt("producer2", {5})
  <2>1. Sound(d, p, q, c, f, e, m, buffer) /\ Where("producer2") = 5 /\ Innermost.at = 5 /\ Innermost.t = "producer2"
        /\ d \in {0, 6}
    BY <1>9, SoundNow
  <2>2. Statement.arg = "mutex"
    BY <2>1, Producer2Code DEF Statement
  <2>3. semaphore' = [semaphore EXCEPT !["mutex"] = semaphore["mutex"] + 1]
        /\ inside' = inside \ {"producer2"}
    BY <1>1, <2>1, <2>2
  <2>4. SemTyped' /\ semaphore'["mutex"] = semaphore["mutex"] + 1
        /\ \A z \in {"full", "empty", "mutex"} \ {"mutex"} : semaphore'[z] = semaphore[z]
    <3>1. semaphore["mutex"] + 1 \in Nat
      BY <1>4, <2>3 DEF SemTyped
    <3> QED
      BY <1>4, <2>3, <3>1, Counted1
  <2>5. Sound(d, p, 6, c, f, e, m + 1, buffer)
    <3> HIDE DEF d, p, q, c, f, e, m
    <3>1. q = 5
      BY <2>1, <2>3 DEF p, q, c, f, e, m
    <3> QED
      BY <2>1, <3>1, SoundSteps
  <2>6. GoesTo(6) /\ 6 \in 1 .. LastOf["producer2"] /\ \A t \in ThreadName \ {"producer2"} : lc'[t] = lc[t]
    BY <1>1, <1>3, <2>1 DEF Falls, LastOf
  <2>7. ~CriticalAt("producer2", 6)
    BY DEF CriticalAt
  <2> QED
    BY <1>1, <1>3, <1>9, <2>3, <2>4, <2>5, <2>6, <2>7, ThreadGoesOn
<1>10. CASE RunsAt("producer2", {6})
  <2>1. Sound(d, p, q, c, f, e, m, buffer) /\ Where("producer2") = 6 /\ Innermost.at = 6 /\ Innermost.t = "producer2"
        /\ d \in {0, 6}
    BY <1>10, SoundNow
  <2>2. Statement.arg = "empty"
    BY <2>1, Producer2Code DEF Statement
  <2>3. semaphore' = [semaphore EXCEPT !["empty"] = semaphore["empty"] + 1]
        /\ inside' = inside
    BY <1>1, <2>1, <2>2
  <2>4. SemTyped' /\ semaphore'["empty"] = semaphore["empty"] + 1
        /\ \A z \in {"full", "empty", "mutex"} \ {"empty"} : semaphore'[z] = semaphore[z]
    <3>1. semaphore["empty"] + 1 \in Nat
      BY <1>4, <2>3 DEF SemTyped
    <3> QED
      BY <1>4, <2>3, <3>1, Counted1
  <2>5. Sound(d, p, 7, c, f, e + 1, m, buffer)
    <3> HIDE DEF d, p, q, c, f, e, m
    <3>1. q = 6
      BY <2>1, <2>3 DEF p, q, c, f, e, m
    <3> QED
      BY <2>1, <3>1, SoundSteps
  <2>6. GoesTo(7) /\ 7 \in 1 .. LastOf["producer2"] /\ \A t \in ThreadName \ {"producer2"} : lc'[t] = lc[t]
    BY <1>1, <1>3, <2>1 DEF Falls, LastOf
  <2>7. (CriticalAt("producer2", 7) <=> CriticalAt("producer2", 6))
    BY DEF CriticalAt
  <2> QED
    BY <1>1, <1>3, <1>10, <2>3, <2>4, <2>5, <2>6, <2>7, ThreadGoesOn
<1> QED
  BY <1>2, <1>5, <1>6, <1>7, <1>8, <1>9, <1>10 DEF RunsAt

LEMMA UseBufferKeeps ==
  ASSUME PtIInv, UseBuffer
  PROVE  PtIInv'
<1> DEFINE d == SetUpTo
           p == Where("producer")
           q == Where("producer2")
           c == Where("consumer")
           f == semaphore["full"]
           e == semaphore["empty"]
           m == semaphore["mutex"]
<1>1. /\ buffer' = IF Statement.op = "add" THEN buffer + 1 ELSE buffer - 1
      /\ Falls /\ alive' = alive /\ lc' = lc /\ semaphore' = semaphore /\ inside' = inside
  BY DEF UseBuffer
<1>2. RunsAt("producer", {4}) \/ RunsAt("producer2", {4}) \/ RunsAt("consumer", {4})
  BY WhoRunsWhere DEF UseBuffer, PtIInv
<1>3. LcOK' /\ SemTyped' /\ \A t \in ThreadName \ {Innermost.t} : lc'[t] = lc[t]
  BY <1>1, LcStays DEF PtIInv, LcOK, SemTyped
<1>4. CASE RunsAt("producer", {4})
  <2>1. Sound(d, p, q, c, f, e, m, buffer) /\ p = 4 /\ Innermost.at = 4 /\ Innermost.t = "producer"
        /\ d = 6
    BY <1>4, SoundNow
  <2>2. Sound(d, 5, q, c, f, e, m, buffer + 1)
    <3> HIDE DEF d, p, q, c, f, e, m
    <3> QED
      BY <2>1, SoundSteps
  <2>3. buffer' = buffer + 1
    BY <1>1, <2>1, ProducerCode DEF Statement
  <2>4. GoesTo(5) /\ 5 \in 1 .. LastOf["producer"] /\ (CriticalAt("producer", 5) <=> CriticalAt("producer", 4))
    BY <1>1, <2>1 DEF Falls, LastOf, CriticalAt
  <2> QED
    BY <1>1, <1>3, <1>4, <2>1, <2>2, <2>3, <2>4, ThreadGoesOn
<1>5. CASE RunsAt("producer2", {4})
  <2>1. Sound(d, p, q, c, f, e, m, buffer) /\ q = 4 /\ Innermost.at = 4 /\ Innermost.t = "producer2"
        /\ d \in {0, 6}
    BY <1>5, SoundNow
  <2>2. Sound(d, p, 5, c, f, e, m, buffer + 1)
    <3> HIDE DEF d, p, q, c, f, e, m
    <3> QED
      BY <2>1, SoundSteps
  <2>3. buffer' = buffer + 1
    BY <1>1, <2>1, Producer2Code DEF Statement
  <2>4. GoesTo(5) /\ 5 \in 1 .. LastOf["producer2"] /\ (CriticalAt("producer2", 5) <=> CriticalAt("producer2", 4))
    BY <1>1, <2>1 DEF Falls, LastOf, CriticalAt
  <2> QED
    BY <1>1, <1>3, <1>5, <2>1, <2>2, <2>3, <2>4, ThreadGoesOn
<1>6. CASE RunsAt("consumer", {4})
  <2>1. Sound(d, p, q, c, f, e, m, buffer) /\ c = 4 /\ Innermost.at = 4 /\ Innermost.t = "consumer"
        /\ d = 6
    BY <1>6, SoundNow
  <2>2. Sound(d, p, q, 5, f, e, m, buffer - 1)
    <3> HIDE DEF d, p, q, c, f, e, m
    <3> QED
      BY <2>1, SoundSteps
  <2>3. buffer' = buffer - 1
    BY <1>1, <2>1, ConsumerCode DEF Statement
  <2>4. GoesTo(5) /\ 5 \in 1 .. LastOf["consumer"] /\ (CriticalAt("consumer", 5) <=> CriticalAt("consumer", 4))
    BY <1>1, <2>1 DEF Falls, LastOf, CriticalAt
  <2> QED
    BY <1>1, <1>3, <1>6, <2>1, <2>2, <2>3, <2>4, ThreadGoesOn
<1> QED
  BY <1>2, <1>4, <1>5, <1>6

LEMMA ForKeeps ==
  ASSUME PtIInv, For
  PROVE  PtIInv'
<1> DEFINE d == SetUpTo
           p == Where("producer")
           q == Where("producer2")
           c == Where("consumer")
           f == semaphore["full"]
           e == semaphore["empty"]
           m == semaphore["mutex"]
<1>1. lc' = lc /\ alive' = alive /\ semaphore' = semaphore /\ inside' = inside /\ buffer' = buffer
  BY DEF For
<1>2. LcOK' /\ SemTyped' /\ \A t \in ThreadName \ {Innermost.t} : lc'[t] = lc[t]
  BY <1>1, LcStays DEF PtIInv, LcOK, SemTyped
<1>3. \E r \in {"producer", "consumer"} :
        \/ RunsAt(r, {1}) /\ GoesTo(2)
        \/ RunsAt(r, {7}) /\ (GoesTo(2) \/ GoesTo(8))
  <2>1. CASE RunsTo("for") /\ Falls
    BY <2>1, WhoRunsWhere DEF PtIInv, Falls, RunsAt
  <2>2. CASE RunsTo("again") /\ (GoesTo(Statement.arg) \/ Falls)
    <3>1. PICK r \in {"producer", "consumer"} : RunsAt(r, {7})
      BY <2>2, WhoRunsWhere DEF PtIInv
    <3>2. Statement.arg = 2 /\ Innermost.at = 7
      BY <3>1, ProducerCode, ConsumerCode DEF Statement, RunsAt
    <3> QED
      BY <2>2, <3>1, <3>2 DEF Falls
  <2> QED
    BY <2>1, <2>2 DEF For
<1>4. PICK r \in {"producer", "consumer"}, a \in {1, 7}, n \in {2, 8} : RunsAt(r, {a}) /\ GoesTo(n)
  BY <1>3
<1>5. /\ Sound(d, p, q, c, f, e, m, buffer) /\ d = 6
      /\ r = "producer" => p = a
      /\ r = "consumer" => c = a
      /\ Innermost.t = r
  BY <1>4, SoundNow
<1>6. /\ r = "producer" => Sound(d, n, q, c, f, e, m, buffer)
      /\ r = "consumer" => Sound(d, p, q, n, f, e, m, buffer)
  <2> HIDE DEF d, p, q, c, f, e, m
  <2> QED
    BY <1>5, SoundElsewhere
<1>7. n \in 1 .. LastOf[r] /\ (CriticalAt(r, n) <=> CriticalAt(r, a)) /\ a \in Nat
  BY <1>4 DEF LastOf, CriticalAt
<1> QED
  BY <1>1, <1>2, <1>4, <1>5, <1>6, <1>7, ThreadGoesOn

LEMMA YieldKeeps ==
  ASSUME PtIInv, Yield
  PROVE  PtIInv'
<1> DEFINE d == SetUpTo
           p == Where("producer")
           q == Where("producer2")
           c == Where("consumer")
           f == semaphore["full"]
           e == semaphore["empty"]
           m == semaphore["mutex"]
<1>1. /\ LC_SET /\ UNCHANGED <<semaphore, buffer, inside>>
      /\ \/ Falls /\ alive' = alive
         \/ Return(PT_YIELDED)
  BY DEF Yield
<1>2. RunsAt("producer2", {3}) \/ RunsAt("process2", {1, 5})
  BY WhoRunsWhere DEF Yield, PtIInv
<1>3. CASE Return(PT_YIELDED)
  <2>1. PICK r : RunsAt(r, Nat) /\ r # "driver"
    BY <1>2 DEF RunsAt
  <2> QED
    BY <1>1, <1>3, <2>1, ReturnsToWait
<1>4. CASE Falls /\ alive' = alive
  <2>1. LcOK' /\ \A t \in ThreadName \ {Innermost.t} : lc'[t] = lc[t]
    <3>1. stack # <<>> /\ Innermost.t # "driver" /\ alive' \subseteq PtProcess
      BY <1>2, <1>4 DEF RunsAt, PtIInv, LcOK
    <3> QED
      BY <1>1, <3>1, SetThere DEF PtIInv
  <2>2. CASE RunsAt("producer2", {3})
    <3>1. Sound(d, p, q, c, f, e, m, buffer) /\ q = 3 /\ Innermost.at = 3 /\ Innermost.t = "producer2"
      BY <2>2, SoundNow
    <3>2. Sound(d, p, 4, c, f, e, m, buffer)
      <4> HIDE DEF d, p, q, c, f, e, m
      <4> QED
        BY <3>1, SoundSteps
    <3>3. GoesTo(4) /\ 4 \in 1 .. LastOf["producer2"] /\ (CriticalAt("producer2", 4) <=> CriticalAt("producer2", 3))
      BY <1>4, <3>1 DEF Falls, LastOf, CriticalAt
    <3>4. SemTyped'
      BY <1>1 DEF SemTyped, PtIInv
    <3> QED
      BY <1>1, <1>4, <2>1, <2>2, <3>1, <3>2, <3>3, <3>4, ThreadGoesOn
  <2>3. CASE RunsAt("process2", {1, 5})
    <3>1. RunsAt("process2", Nat) /\ Innermost.t = "process2" /\ Innermost.at \in {1, 5}
      BY <2>3, OneOnly
    <3>2. PICK n : n = Innermost.at + 1
      OBVIOUS
    <3>3. GoesTo(n) /\ n \in 1 .. LastOf["process2"]
      BY <1>4, <3>1, <3>2 DEF Falls, LastOf
    <3> QED
      BY <1>1, <1>4, <2>1, <3>1, <3>3, Process2GoesOn
  <2> QED
    BY <1>2, <2>2, <2>3
<1> QED
  BY <1>1, <1>3, <1>4

LEMMA PostBranchKeeps ==
  ASSUME PtIInv, Post \/ Branch
  PROVE  PtIInv'
<1>1. lc' = lc /\ alive' = alive /\ UNCHANGED <<semaphore, buffer, inside>>
  BY DEF Post, Branch
<1>2. LcOK' /\ \A t \in ThreadName : lc'[t] = lc[t]
  BY <1>1, LcStays DEF PtIInv, LcOK
<1>3. \E n \in {5, 7, 8} : RunsAt("process2", {4, 6}) /\ GoesTo(n)
  <2>1. CASE Post
    <3>1. RunsAt("process2", {4}) /\ Falls
      BY <2>1, WhoRunsWhere DEF PtIInv, Post
    <3> QED
      BY <3>1 DEF RunsAt, Falls
  <2>2. CASE Branch
    <3>1. RunsAt("process2", {6}) /\ (Falls \/ GoesTo(Statement.arg))
      BY <2>2, WhoRunsWhere DEF PtIInv, Branch
    <3>2. Statement.arg = 8 /\ Innermost.at = 6
      BY <3>1, Process2Code DEF Statement, RunsAt
    <3> QED
      BY <3>1, <3>2 DEF RunsAt, Falls
  <2> QED
    BY <2>1, <2>2
<1>4. PICK n \in {5, 7, 8} : RunsAt("process2", {4, 6}) /\ GoesTo(n)
  BY <1>3
<1>5. RunsAt("process2", Nat) /\ Innermost.at # 3 /\ n \in 1 .. LastOf["process2"]
  BY <1>4 DEF RunsAt, LastOf
<1> QED
  BY <1>1, <1>2, <1>4, <1>5, Process2GoesOn

LEMMA SemInitKeeps ==
  ASSUME PtIInv, SemInit
  PROVE  PtIInv'
<1>1. RunsAt("driver", {1, 2, 3}) /\ Falls /\ lc' = lc /\ alive' = alive /\ inside' = inside /\ buffer' = buffer
      /\ semaphore' = [semaphore EXCEPT ![Statement.arg.s] = Statement.arg.c]
  BY WhoRunsWhere DEF SemInit, PtIInv
<1>2. RunsAt("driver", Nat) /\ Innermost.t = "driver" /\ Innermost.at \in {1, 2, 3} /\ stack # <<>>
  BY <1>1, OneOnly
<1>3. LcOK' /\ \A t \in ThreadName : lc'[t] = lc[t]
  BY <1>1, LcStays DEF PtIInv, LcOK
<1> DEFINE p == Where("producer")
           q == Where("producer2")
           c == Where("consumer")
           f == semaphore["full"]
           e == semaphore["empty"]
           m == semaphore["mutex"]
<1>4. Sound(Innermost.at, p, q, c, f, e, m, buffer) /\ SemTyped
  BY <1>2, SetUpWhen DEF PtIInv, BufferSound
<1>5. CASE Innermost.at = 1
  <2>1. semaphore' = [semaphore EXCEPT !["empty"] = 0]
    BY <1>1, <1>2, <1>5, DriverCode DEF Statement
  <2>2. SemTyped' /\ semaphore'["empty"] = 0
        /\ \A z \in {"full", "empty", "mutex"} \ {"empty"} : semaphore'[z] = semaphore[z]
    BY <1>4, <2>1, Counted1, BufferAssumption
  <2>3. Sound(2, p, q, c, f, 0, m, buffer)
    <3> HIDE DEF p, q, c, f, e, m
    <3> QED
      BY <1>4, <1>5, SoundSetUp
  <2>4. GoesTo(2) /\ 2 \in 1 .. LastOf["driver"]
    BY <1>1, <1>5 DEF Falls, LastOf
  <2> QED
    BY <1>1, <1>2, <1>3, <2>2, <2>3, <2>4, DriverGoesOn
<1>6. CASE Innermost.at = 2
  <2>1. semaphore' = [semaphore EXCEPT !["full"] = BUFFER_SIZE]
    BY <1>1, <1>2, <1>6, DriverCode DEF Statement
  <2>2. SemTyped' /\ semaphore'["full"] = BUFFER_SIZE
        /\ \A z \in {"full", "empty", "mutex"} \ {"full"} : semaphore'[z] = semaphore[z]
    BY <1>4, <2>1, Counted1, BufferAssumption
  <2>3. Sound(3, p, q, c, BUFFER_SIZE, e, m, buffer)
    <3> HIDE DEF p, q, c, f, e, m
    <3> QED
      BY <1>4, <1>6, SoundSetUp
  <2>4. GoesTo(3) /\ 3 \in 1 .. LastOf["driver"]
    BY <1>1, <1>6 DEF Falls, LastOf
  <2> QED
    BY <1>1, <1>2, <1>3, <2>2, <2>3, <2>4, DriverGoesOn
<1>7. CASE Innermost.at = 3
  <2>1. semaphore' = [semaphore EXCEPT !["mutex"] = 1]
    BY <1>1, <1>2, <1>7, DriverCode DEF Statement
  <2>2. SemTyped' /\ semaphore'["mutex"] = 1
        /\ \A z \in {"full", "empty", "mutex"} \ {"mutex"} : semaphore'[z] = semaphore[z]
    BY <1>4, <2>1, Counted1, BufferAssumption
  <2>3. Sound(4, p, q, c, f, e, 1, buffer)
    <3> HIDE DEF p, q, c, f, e, m
    <3> QED
      BY <1>4, <1>7, SoundSetUp
  <2>4. GoesTo(4) /\ 4 \in 1 .. LastOf["driver"]
    BY <1>1, <1>7 DEF Falls, LastOf
  <2> QED
    BY <1>1, <1>2, <1>3, <2>2, <2>3, <2>4, DriverGoesOn
<1> QED
  BY <1>2, <1>5, <1>6, <1>7

LEMMA InitChildKeeps ==
  ASSUME PtIInv, InitChild
  PROVE  PtIInv'
<1>1. /\ lc' = [lc EXCEPT ![Statement.arg] = 0] /\ Falls /\ alive' = alive
      /\ UNCHANGED <<semaphore, buffer, inside>>
  BY DEF InitChild
<1>2. RunsAt("driver", {4, 5}) \/ RunsAt("process2", {2})
  BY WhoRunsWhere DEF InitChild, PtIInv
<1>3. SemTyped' /\ SemTyped
  BY <1>1 DEF PtIInv, SemTyped
<1>4. CASE RunsAt("driver", {4, 5})
  <2>1. RunsAt("driver", Nat) /\ Innermost.t = "driver" /\ Innermost.at \in {4, 5} /\ stack # <<>>
    BY <1>4, OneOnly
  <2>2. PICK child : child = Statement.arg
    OBVIOUS
  <2>3. child \in {"producer", "consumer"}
    BY <2>1, <2>2, DriverCode DEF Statement
  <2>4. Sound(Innermost.at, Where("producer"), Where("producer2"), Where("consumer"),
              semaphore["full"], semaphore["empty"], semaphore["mutex"], buffer)
    BY <2>1, SetUpWhen DEF PtIInv, BufferSound
  <2>5. /\ Where("producer") = 0 /\ Where("consumer") = 0
        /\ Sound(Innermost.at + 1, Where("producer"), Where("producer2"), Where("consumer"),
                 semaphore["full"], semaphore["empty"], semaphore["mutex"], buffer)
    BY <2>1, <2>4, SoundSetUp
  <2>6. lc[child] = 0
    BY <2>1, <2>3, <2>5 DEF Where
  <2>7. LcOK' /\ \A t \in ThreadName : lc'[t] = lc[t]
    <3>1. child \in ThreadName /\ lc' = [lc EXCEPT ![child] = 0] /\ alive' \subseteq PtProcess
      BY <1>1, <2>2, <2>3 DEF ThreadName, PtIInv, LcOK
    <3> QED
      BY <2>6, <3>1, SetToBegin DEF PtIInv
  <2>8. PICK n : n = Innermost.at + 1
    OBVIOUS
  <2>9. GoesTo(n) /\ n \in 1 .. LastOf["driver"] /\ n = IF n <= 5 THEN n ELSE 6
    BY <1>1, <2>1, <2>8 DEF Falls, LastOf
  <2> QED
    BY <1>1, <1>3, <2>1, <2>5, <2>7, <2>8, <2>9, DriverGoesOn
<1>5. CASE RunsAt("process2", {2})
  <2>1. RunsAt("process2", Nat) /\ Innermost.t = "process2" /\ Innermost.at = 2 /\ stack # <<>>
    BY <1>5, OneOnly
  <2>2. Statement.arg = "producer2"
    BY <2>1, Process2Code DEF Statement
  <2>3. Where("producer2") = 0
    BY <2>1, WhereTheOthersAre DEF PtIInv, Spawned
  <2>4. lc["producer2"] = 0
    BY <2>1, <2>3 DEF Where
  <2>5. LcOK' /\ \A t \in ThreadName : lc'[t] = lc[t]
    <3>1. "producer2" \in ThreadName /\ lc' = [lc EXCEPT !["producer2"] = 0] /\ alive' \subseteq PtProcess
      BY <1>1, <2>2 DEF ThreadName, PtIInv, LcOK
    <3> QED
      BY <2>4, <3>1, SetToBegin DEF PtIInv
  <2>6. GoesTo(3) /\ 3 \in 1 .. LastOf["process2"]
    BY <1>1, <2>1 DEF Falls, LastOf
  <2> QED
    BY <1>1, <2>1, <2>3, <2>5, <2>6, Process2GoesOn
<1> QED
  BY <1>2, <1>4, <1>5

\* A thread is called where it stopped.
LEMMA CalledAgain ==
  ASSUME PtIInv, stack # <<>>, NEW c,
         \/ Innermost.t = "driver" /\ Innermost.at = 6 /\ c \in {"producer", "consumer"}
         \/ Innermost.t = "process2" /\ Innermost.at = 3 /\ c = "producer2",
         stack' = Append(stack, PT_BEGIN(c)), LC_SET, alive' = alive,
         UNCHANGED <<semaphore, buffer, inside>>
  PROVE  PtIInv'
<1> DEFINE d == SetUpTo
           p == Where("producer")
           q == Where("producer2")
           k == Where("consumer")
           f == semaphore["full"]
           e == semaphore["empty"]
           m == semaphore["mutex"]
<1>1. \/ RunsAt("driver", {6}) /\ c \in {"producer", "consumer"}
      \/ RunsAt("process2", {3}) /\ c = "producer2"
  BY DEF RunsAt
<1>2. PICK n : n = IF lc[c] = 0 THEN 1 ELSE lc[c]
  OBVIOUS
<1>3. StackOK' /\ OnlyMoves(c, n) /\ RunsAt(c, 1 .. LastOf[c])'
  BY <1>1, <1>2, Calling2 DEF PtIInv
<1>4. LcOK'
  <2>1. Innermost.t = "driver" => Innermost.at = 6
    BY <1>1 DEF RunsAt
  <2> QED
    BY <2>1, SetThere DEF PtIInv, LcOK
<1>5. Where(c) = lc[c] /\ c \in {"producer", "producer2", "consumer"} /\ c \in ThreadName
  BY DEF Where, ThreadName
<1>6. SetUpTo \in 0 .. 6 /\ (c # "producer2" => SetUpTo = 6)
  <2>1. RunsAt("driver", {6}) => SetUpTo = 6
    BY OneOnly, SetUpWhen DEF PtIInv
  <2> QED
    BY <1>1, <2>1 DEF PtIInv, BufferSound, Sound
<1>7. Sound(d, p, q, k, f, e, m, buffer)
  BY DEF PtIInv, BufferSound
<1>8. Sound(d, IF c = "producer" THEN n ELSE p, IF c = "producer2" THEN n ELSE q,
            IF c = "consumer" THEN n ELSE k, f, e, m, buffer)
  <2>1. /\ c = "producer" => n = IF p = 0 THEN 1 ELSE p
        /\ c = "producer2" => n = IF q = 0 THEN 1 ELSE q
        /\ c = "consumer" => n = IF k = 0 THEN 1 ELSE k
    BY <1>2, <1>5
  <2>2. c # "producer2" => d = 6
    BY <1>6
  <2> HIDE DEF d, p, q, k, f, e, m
  <2>3. CASE c = "producer"
    BY <1>7, <2>1, <2>2, <2>3, SoundElsewhere
  <2>4. CASE c = "producer2"
    BY <1>7, <2>1, <2>4, SoundElsewhere
  <2>5. CASE c = "consumer"
    BY <1>7, <2>1, <2>2, <2>5, SoundElsewhere
  <2> QED
    BY <1>5, <2>3, <2>4, <2>5
<1>9. BufferSound' /\ SemTyped'
  <2>1. SemTyped'
    BY DEF PtIInv, SemTyped
  <2> QED
    BY <1>3, <1>5, <1>8, <2>1, Balances
<1>10. InsideOK'
  <2>1. CriticalAt(c, n) <=> CriticalAt(c, Where(c))
    BY <1>2, <1>5 DEF CriticalAt
  <2> QED
    BY <1>3, <1>5, <2>1, InsideMoves DEF PtIInv
<1>11. Spawned'
  <2>1. c = "producer2" => Where("process2") = 3 /\ "process2" \in alive
    <3>1. CASE c = "producer2"
      <4>1. RunsAt("process2", Nat) /\ Innermost.at = 3
        BY <1>1, <3>1, OneOnly
      <4> QED
        BY <4>1, WhereTheOthersAre DEF PtIInv, PtProcess
    <3> QED
      BY <3>1
  <2>2. Where("process2")' = Where("process2") /\ (c # "producer2" => Where("producer2")' = Where("producer2"))
    BY <1>3, <1>5 DEF OnlyMoves, ThreadName
  <2>3. ~RunsAt("process2", {3})'
    BY <1>3, <1>5 DEF RunsAt
  <2> QED
    BY <2>1, <2>2, <2>3 DEF Spawned, PtIInv
<1> QED
  BY <1>3, <1>4, <1>9, <1>10, <1>11 DEF PtIInv

\* The producer of the second process has left when the wait for it ends.
LEMMA LeftWhenDone ==
  ASSUME PtIInv, RunsAt("process2", {3}), Children = DOMAIN Innermost.got, ~PT_SCHEDULE(Results)
  PROVE  Where("producer2") = 0
<1>1. Statement.arg = <<"producer2">>
  BY Process2Code DEF Statement, RunsAt
<1>2. Children = {"producer2"} /\ Results = Innermost.got["producer2"]
  BY <1>1 DEF Children, Results
<1>3. ~(Innermost.got["producer2"] < 2)
  BY <1>2 DEF PT_SCHEDULE, PT_EXITED
<1> QED
  BY <1>2, <1>3 DEF PtIInv, Spawned

LEMMA WaitThreadKeeps ==
  ASSUME PtIInv, WaitThread
  PROVE  PtIInv'
<1>1. LC_SET /\ UNCHANGED <<semaphore, buffer, inside>>
  BY DEF WaitThread
<1>2. RunsAt("driver", {6}) \/ RunsAt("process2", {3})
  BY WhoRunsWhere DEF WaitThread, PtIInv
<1>3. stack # <<>> /\ (Innermost.t = "driver" => Innermost.at = 6)
  BY <1>2 DEF RunsAt
<1>4. /\ Innermost.t = "driver" => Statement.arg = <<"producer", "consumer">>
      /\ Innermost.t = "process2" => Statement.arg = <<"producer2">>
  BY <1>2, DriverCode, Process2Code DEF Statement, RunsAt
<1>5. ASSUME alive' = alive
      PROVE  LcOK' /\ \A t \in ThreadName \ {Innermost.t} : lc'[t] = lc[t]
  BY <1>1, <1>3, <1>5, SetThere DEF PtIInv, LcOK
<1>6. ASSUME NEW c \in Children, stack' = Append(stack, PT_BEGIN(c)), alive' = alive
      PROVE  PtIInv'
  <2>1. \/ Innermost.t = "driver" /\ Innermost.at = 6 /\ c \in {"producer", "consumer"}
        \/ Innermost.t = "process2" /\ Innermost.at = 3 /\ c = "producer2"
    <3>1. CASE RunsAt("driver", {6})
      <4>1. Statement.arg = <<"producer", "consumer">>
        BY <1>4, <3>1 DEF RunsAt
      <4> QED
        BY <1>6, <3>1, <4>1 DEF Children, RunsAt
    <3>2. CASE RunsAt("process2", {3})
      <4>1. Statement.arg = <<"producer2">>
        BY <1>4, <3>2 DEF RunsAt
      <4> QED
        BY <1>6, <3>2, <4>1 DEF Children, RunsAt
    <3> QED
      BY <1>2, <3>1, <3>2
  <2> QED
    BY <1>1, <1>3, <1>6, <2>1, CalledAgain
<1>7. CASE Return(PT_WAITING)
  <2>1. PICK r : RunsAt(r, Nat) /\ (r = "driver" => Innermost.at = 6)
    BY <1>2 DEF RunsAt
  <2> QED
    BY <1>1, <1>7, <2>1, ReturnsToWait
<1>8. CASE Children = DOMAIN Innermost.got /\ ~PT_SCHEDULE(Results) /\ Falls /\ alive' = alive
  <2>1. CASE RunsAt("driver", {6})
    <3>1. RunsAt("driver", Nat) /\ Innermost.t = "driver" /\ Innermost.at = 6
      BY <2>1, OneOnly
    <3>2. GoesTo(7) /\ 7 \in 1 .. LastOf["driver"] /\ ~(7 <= 5) /\ SemTyped' /\ inside' = inside
      BY <1>1, <1>8, <3>1 DEF Falls, LastOf, PtIInv, SemTyped
    <3>3. Sound(6, Where("producer"), Where("producer2"), Where("consumer"),
                semaphore'["full"], semaphore'["empty"], semaphore'["mutex"], buffer')
      BY <1>1, <3>1, SetUpWhen DEF PtIInv, BufferSound
    <3> QED
      BY <1>5, <1>8, <3>1, <3>2, <3>3, DriverGoesOn
  <2>2. CASE RunsAt("process2", {3})
    <3>1. RunsAt("process2", Nat) /\ Innermost.t = "process2" /\ Innermost.at = 3
      BY <2>2, OneOnly
    <3>2. GoesTo(4) /\ 4 \in 1 .. LastOf["process2"]
      BY <1>8, <3>1 DEF Falls, LastOf
    <3>3. Where("producer2") = 0
      BY <1>8, <2>2, LeftWhenDone
    <3> QED
      BY <1>1, <1>5, <1>8, <3>1, <3>2, <3>3, Process2GoesOn
  <2> QED
    BY <1>2, <2>1, <2>2
<1> QED
  BY <1>6, <1>7, <1>8 DEF WaitThread

\* What every exit, end or restart has in common.
LEMMA HasLeft ==
  ASSUME PtIInv, NEW r, RunsAt(r, Nat), NEW v \in {PT_WAITING, PT_EXITED, PT_ENDED}, Return(v), LC_INIT
  PROVE  /\ StackOK' /\ LcOK' /\ OnlyMoves(r, 0) /\ r \in ThreadName
         /\ alive' = IF r \in PtProcess /\ v # PT_WAITING THEN alive \ {r} ELSE alive
         /\ r \in PtProcess => stack' = <<>>
         /\ r = "producer2" => RunsAt("process2", {3})'
         /\ r \notin PtProcess /\ r # "producer2" => RunsAt("driver", {6})'
<1>1. stack # <<>> /\ Innermost.t = r /\ StackOK /\ LcOK
  BY DEF RunsAt, PtIInv
<1>2. r \in ThreadName /\ lc' = [lc EXCEPT ![r] = 0]
  BY <1>1, InnermostOK DEF FrameOK, LC_INIT
<1>3. alive' \subseteq PtProcess
  BY <1>1 DEF Return, LcOK
<1>4. LcOK' /\ lc'[r] = 0 /\ \A t \in ThreadName \ {r} : lc'[t] = lc[t]
  BY <1>1, <1>2, <1>3, SetToBegin
<1>5. v \in {PT_EXITED, PT_ENDED} <=> v # PT_WAITING
  BY DEF PT_WAITING, PT_EXITED, PT_ENDED
<1>6. /\ StackOK' /\ OnlyMoves(r, lc'[r])
      /\ r \in PtProcess =>
           /\ stack' = <<>>
           /\ alive' = IF v \in {PT_EXITED, PT_ENDED} THEN alive \ {r} ELSE alive
      /\ r \notin PtProcess =>
           /\ alive' = alive
           /\ r = "producer2" => RunsAt("process2", {3})'
           /\ r # "producer2" => RunsAt("driver", {6})'
  BY <1>1, <1>4, Returning
<1>7. OnlyMoves(r, 0)
  BY <1>4, <1>6 DEF OnlyMoves
<1>8. "producer2" \notin PtProcess
  BY DEF PtProcess
<1> QED
  BY <1>2, <1>4, <1>5, <1>6, <1>7, <1>8

LEMMA LeaveKeeps ==
  ASSUME PtIInv, Leave
  PROVE  PtIInv'
<1>1. LC_INIT /\ UNCHANGED <<semaphore, buffer, inside>>
  BY DEF Leave
<1>2. \/ RunsAt("producer", {8}) /\ Return(PT_ENDED)
      \/ RunsAt("consumer", {8}) /\ Return(PT_ENDED)
      \/ RunsAt("driver", {7}) /\ Return(PT_ENDED)
      \/ RunsAt("producer2", {7}) /\ Return(PT_EXITED)
      \/ RunsAt("process2", {7}) /\ Return(PT_EXITED)
      \/ RunsAt("process2", {8}) /\ Return(PT_WAITING)
  BY WhoRunsWhere DEF Leave, PtIInv
<1>3. SemTyped'
  BY <1>1 DEF PtIInv, SemTyped
<1> DEFINE d == SetUpTo
           p == Where("producer")
           q == Where("producer2")
           c == Where("consumer")
           f == semaphore["full"]
           e == semaphore["empty"]
           m == semaphore["mutex"]
<1>4. ASSUME NEW r \in {"producer", "consumer", "producer2"}, NEW a \in {7, 8},
             r = "producer2" => a = 7, r # "producer2" => a = 8, RunsAt(r, {a}),
             NEW v \in {PT_EXITED, PT_ENDED}, Return(v)
      PROVE  PtIInv'
  <2>1. RunsAt(r, Nat) /\ r \notin PtProcess
    BY <1>4, OneOnly DEF PtProcess
  <2>2. /\ StackOK' /\ LcOK' /\ OnlyMoves(r, 0) /\ r \in ThreadName /\ alive' = alive
        /\ r = "producer2" => RunsAt("process2", {3})'
        /\ r # "producer2" => RunsAt("driver", {6})'
    <3>1. v \in {PT_WAITING, PT_EXITED, PT_ENDED}
      BY <1>4
    <3> QED
      BY <1>1, <1>4, <2>1, <3>1, HasLeft
  <2>3. /\ Sound(d, p, q, c, f, e, m, buffer) /\ Where(r) = a
        /\ r = "producer" => p = 8 /\ d = 6
        /\ r = "consumer" => c = 8 /\ d = 6
        /\ r = "producer2" => q = 7
    BY <1>4, SoundNow
  <2>4. Sound(d, IF r = "producer" THEN 0 ELSE p, IF r = "producer2" THEN 0 ELSE q,
              IF r = "consumer" THEN 0 ELSE c, f, e, m, buffer)
    <3> HIDE DEF d, p, q, c, f, e, m
    <3> QED
      BY <1>4, <2>3, SoundElsewhere
  <2>5. BufferSound'
    BY <1>1, <2>2, <2>4, Balances
  <2>6. InsideOK'
    <3>1. CriticalAt(r, 0) <=> CriticalAt(r, Where(r))
      BY <1>4, <2>3 DEF CriticalAt
    <3> QED
      BY <1>1, <2>2, <3>1, InsideMoves DEF PtIInv
  <2>7. Spawned'
    <3>1. Where("process2")' = Where("process2") /\ (r # "producer2" => Where("producer2")' = Where("producer2"))
          /\ (r = "producer2" => Where("producer2")' = 0)
      BY <1>4, <2>2 DEF OnlyMoves, ThreadName
    <3>2. r # "producer2" => ~RunsAt("process2", {3})'
      BY <2>2 DEF RunsAt
    <3> QED
      BY <2>2, <3>1, <3>2 DEF Spawned, PtIInv
  <2> QED
    BY <1>3, <2>2, <2>5, <2>6, <2>7 DEF PtIInv
<1>5. CASE RunsAt("driver", {7}) /\ Return(PT_ENDED)
  <2>1. RunsAt("driver", Nat) /\ "driver" \in PtProcess /\ Innermost.at = 7
    BY <1>5, OneOnly DEF PtProcess
  <2>2. StackOK' /\ LcOK' /\ OnlyMoves("driver", 0) /\ alive' = alive \ {"driver"} /\ stack' = <<>>
    <3>1. PT_ENDED # PT_WAITING
      BY DEF PT_ENDED, PT_WAITING
    <3> QED
      BY <1>1, <1>5, <2>1, <3>1, HasLeft
  <2>3. d = 6 /\ d' = 6
    BY <2>1, <2>2, SetUpWhen DEF SetUpTo, PtIInv
  <2>4. BufferSound'
    BY <1>1, <2>2, <2>3 DEF BufferSound, OnlyMoves, ThreadName, PtIInv
  <2>5. InsideOK'
    <3>1. "driver" \in ThreadName /\ (CriticalAt("driver", 0) <=> CriticalAt("driver", Where("driver")))
      BY DEF ThreadName, CriticalAt
    <3> QED
      BY <1>1, <2>2, <3>1, InsideMoves DEF PtIInv
  <2>6. Spawned'
    BY <2>2 DEF Spawned, PtIInv, RunsAt, OnlyMoves, ThreadName
  <2> QED
    BY <1>3, <2>2, <2>4, <2>5, <2>6 DEF PtIInv
<1>6. ASSUME NEW a \in {7, 8}, RunsAt("process2", {a}), NEW v \in {PT_EXITED, PT_WAITING}, Return(v)
      PROVE  PtIInv'
  <2>1. RunsAt("process2", Nat) /\ "process2" \in PtProcess /\ Innermost.at = a
    BY <1>6, OneOnly DEF PtProcess
  <2>2. /\ StackOK' /\ LcOK' /\ OnlyMoves("process2", 0) /\ stack' = <<>>
        /\ alive' = alive \ {"process2"} \/ alive' = alive
    <3>1. v \in {PT_WAITING, PT_EXITED, PT_ENDED}
      BY <1>6
    <3> QED
      BY <1>1, <1>6, <2>1, <3>1, HasLeft
  <2>3. SemTyped' /\ BufferSound' /\ InsideOK'
    BY <1>1, <2>2, StandsStill DEF OnlyMoves
  <2>4. Where("producer2")' = 0
    <3>1. Where("process2") # 3
      BY <1>6, <2>1, WhereTheOthersAre DEF PtIInv
    <3> QED
      BY <2>2, <3>1 DEF PtIInv, Spawned, OnlyMoves, ThreadName
  <2>5. Spawned'
    BY <2>2, <2>4 DEF Spawned, OnlyMoves, RunsAt
  <2> QED
    BY <2>2, <2>3, <2>5 DEF PtIInv
<1> QED
  BY <1>2, <1>4, <1>5, <1>6

\* The kernel calls a process.
LEMMA CallKeeps ==
  ASSUME PtIInv, NEW r \in PtProcess, NEW event, Call(r, event)
  PROVE  PtIInv'
<1>1. /\ stack = <<>> /\ r \in alive /\ stack' = <<PT_BEGIN(r)>>
      /\ UNCHANGED <<lc, semaphore, buffer, inside, alive>>
  BY DEF Call
<1>2. PICK h : h = PT_BEGIN(r)
  OBVIOUS
<1>3. PICK n : n = IF lc[r] = 0 THEN 1 ELSE lc[r]
  OBVIOUS
<1>4. r \in ThreadName /\ n \in 1 .. LastOf[r] /\ LcOK
  BY <1>3 DEF LcOK, ThreadName, LastOf, PtProcess, PtIInv
<1>5. FrameOK(h) /\ h.t = r /\ h.at = n /\ h.got = <<>>
  BY <1>2, <1>3, <1>4 DEF FrameOK, PT_BEGIN
<1>6. stack' = <<h>> /\ stack' # <<>> /\ Innermost' = h
  BY <1>1, <1>2, TupleEnds DEF Innermost
<1>7. StackOK'
  <2>1. OneRuns(h)'
    BY <1>1, <1>5, <1>6 DEF OneRuns, FrameOK
  <2> QED
    BY <2>1 DEF StackOK
<1>8. OnlyMoves(r, n) /\ Where(r) = lc[r]
  BY <1>1, <1>5, <1>6 DEF OnlyMoves, Where
<1>9. LcOK'
  BY <1>1, <1>4, LcStays DEF LcOK
<1>10. CASE r = "process2"
  <2>1. SemTyped' /\ BufferSound' /\ InsideOK'
    BY <1>1, <1>8, <1>10, StandsStill DEF OnlyMoves
  <2>2. Where("process2")' = n /\ Where("producer2")' = Where("producer2") /\ (n = 3 <=> Where("process2") = 3)
    BY <1>3, <1>8, <1>10 DEF OnlyMoves, ThreadName
  <2>3. Spawned'
    BY <1>1, <1>5, <1>6, <1>10, <2>2 DEF Spawned, PtIInv
  <2> QED
    BY <1>7, <1>9, <2>1, <2>3 DEF PtIInv
<1>11. CASE r = "driver"
  <2>1. n = (IF Where("driver") = 0 THEN 1 ELSE 6) /\ Where("driver") \in {0, 6}
    BY <1>3, <1>4, <1>8, <1>11 DEF LcOK
  <2>2. SetUpTo = Where("driver") /\ SetUpTo' = n
    BY <1>1, <1>8, <1>11, <2>1 DEF SetUpTo, OnlyMoves
  <2>3. BufferSound'
    <3> DEFINE d == SetUpTo
               p == Where("producer")
               q == Where("producer2")
               c == Where("consumer")
               f == semaphore["full"]
               e == semaphore["empty"]
               m == semaphore["mutex"]
    <3>1. Sound(d, p, q, c, f, e, m, buffer)
      BY DEF BufferSound, PtIInv
    <3>2. Sound(n, p, q, c, f, e, m, buffer)
      <4>1. n = IF d = 0 THEN 1 ELSE d
        BY <2>1, <2>2
      <4> HIDE DEF d, p, q, c, f, e, m
      <4> QED
        BY <3>1, <4>1, SoundSetUp
    <3> QED
      BY <1>1, <1>8, <1>11, <2>2, <3>2 DEF BufferSound, OnlyMoves, ThreadName
  <2>4. InsideOK'
    <3>1. CriticalAt("driver", n) <=> CriticalAt("driver", Where("driver"))
      BY DEF CriticalAt
    <3> QED
      BY <1>1, <1>4, <1>8, <1>11, <3>1, InsideMoves DEF PtIInv
  <2>5. Spawned'
    BY <1>1, <1>5, <1>6, <1>8, <1>11 DEF Spawned, PtIInv, RunsAt, OnlyMoves, ThreadName
  <2>6. SemTyped'
    BY <1>1 DEF SemTyped, PtIInv
  <2> QED
    BY <1>7, <1>9, <2>3, <2>4, <2>5, <2>6 DEF PtIInv
<1> QED
  BY <1>10, <1>11 DEF PtProcess

LEMMA StartKeeps ==
  ASSUME PtIInv, process_start
  PROVE  PtIInv'
<1>1. /\ stack = <<>> /\ stack' = <<>> /\ alive' = alive \cup {"process2"} /\ "process2" \notin alive
      /\ lc' = [lc EXCEPT !["process2"] = 0] /\ UNCHANGED <<semaphore, buffer, inside>>
  BY DEF process_start
<1>2. LcOK' /\ lc'["process2"] = 0 /\ \A t \in ThreadName \ {"process2"} : lc'[t] = lc[t]
  <2>1. "process2" \in ThreadName /\ alive' \subseteq PtProcess
    BY <1>1 DEF PtIInv, LcOK, ThreadName, PtProcess
  <2> QED
    BY <1>1, <2>1, SetToBegin DEF PtIInv
<1>3. Where("process2")' = 0 /\ \A t \in ThreadName \ {"process2"} : Where(t)' = Where(t)
  BY <1>1, <1>2 DEF Where
<1>4. SemTyped' /\ BufferSound' /\ InsideOK'
  BY <1>1, <1>3, StandsStill
<1>5. StackOK' /\ Spawned'
  BY <1>1, <1>3 DEF StackOK, Spawned, PtIInv, RunsAt, ThreadName
<1> QED
  BY <1>2, <1>4, <1>5 DEF PtIInv

LEMMA PtInitial ==
  ASSUME ProtothreadInit
  PROVE  PtIInv
<1>1. stack = <<>> /\ \A t \in ThreadName : Where(t) = 0
  <2>1. \A t \in ThreadName : t \in Thread
    BY DEF Thread, Code, ThreadName
  <2> QED
    BY <2>1 DEF ProtothreadInit, Where
<1>2. LcOK
  <2>1. Thread = ThreadName
    BY DEF Thread, Code, ThreadName
  <2> QED
    BY <2>1 DEF LcOK, ProtothreadInit, ThreadName, LastOf
<1>3. SemTyped
  BY DEF SemTyped, ProtothreadInit
<1>4. BufferSound
  <2>1. SetUpTo = 0
    BY <1>1 DEF SetUpTo, ProtothreadInit, PtProcess, ThreadName
  <2> QED
    BY <1>1, <2>1 DEF BufferSound, Sound, NotYet, ProtothreadInit, ThreadName
<1>5. InsideOK
  BY <1>1 DEF InsideOK, CriticalAt, ProtothreadInit
<1>6. Spawned
  BY <1>1 DEF Spawned, ProtothreadInit, RunsAt, ThreadName, PtProcess
<1> QED
  BY <1>1, <1>2, <1>3, <1>4, <1>5, <1>6 DEF PtIInv, StackOK

LEMMA PtUnchanged ==
  ASSUME PtIInv, UNCHANGED ptVars
  PROVE  PtIInv'
<1>1. /\ stack' = stack /\ lc' = lc /\ alive' = alive /\ UNCHANGED <<semaphore, buffer, inside>>
  BY DEF ptVars
<1>2. \A t : Where(t)' = Where(t)
  BY <1>1 DEF Where, Innermost
<1>3. SemTyped' /\ BufferSound' /\ InsideOK'
  BY <1>1, <1>2, StandsStill
<1>4. StackOK' /\ LcOK'
  BY <1>1 DEF StackOK, OneRuns, TwoRun, FrameOK, Waiting, LcOK, PtIInv
<1>5. Spawned'
  BY <1>1, <1>2 DEF Spawned, PtIInv, RunsAt, Innermost
<1> QED
  BY <1>3, <1>4, <1>5 DEF PtIInv

LEMMA PtStep ==
  ASSUME PtIInv, [ProtothreadNext]_ptVars
  PROVE  PtIInv'
<1>1. CASE \E p \in PtProcess, e \in {"go", "continue"} : Call(p, e)
  BY <1>1, CallKeeps
<1> QED
  BY <1>1, StartKeeps, SemInitKeeps, SemWaitKeeps, SemSignalKeeps, UseBufferKeeps, ForKeeps,
     YieldKeeps, LeaveKeeps, InitChildKeeps, PostBranchKeeps, WaitThreadKeeps, PtUnchanged
     DEF ProtothreadNext

\* At most one is inside.
LEMMA PtShared ==
  ASSUME PtIInv
  PROVE  BufferShared
<1> DEFINE d == SetUpTo
           p == Where("producer")
           q == Where("producer2")
           c == Where("consumer")
           f == semaphore["full"]
           e == semaphore["empty"]
           m == semaphore["mutex"]
<1>1. Sound(d, p, q, c, f, e, m, buffer)
  BY DEF PtIInv, BufferSound
<1>2. /\ buffer \in 0 .. BUFFER_SIZE /\ f + buffer <= BUFFER_SIZE /\ e <= buffer
      /\ m + In(p, 4, 5) + In(q, 3, 5) + In(c, 4, 5) <= 1 /\ m \in Nat
      /\ p \in Nat /\ q \in Nat /\ c \in Nat
  <2> HIDE DEF d, p, q, c, f, e, m
  <2>1. p \in Nat /\ q \in Nat /\ c \in Nat
    BY <1>1 DEF Sound
  <2> QED
    BY <1>1, <2>1, SoundMeans
<1>3. \A t : t \in inside <=>
         \/ t = "producer" /\ p \in 4 .. 5
         \/ t = "consumer" /\ c \in 4 .. 5
         \/ t = "producer2" /\ q \in 3 .. 5
  BY DEF PtIInv, InsideOK, CriticalAt, ThreadName
<1> HIDE DEF d, p, q, c, f, e, m
<1>4. inside = {} \/ (m = 0 /\ \E t : inside = {t})
  <2>1. CASE p \in 4 .. 5
    <3>1. m = 0 /\ ~(q \in 3 .. 5) /\ ~(c \in 4 .. 5)
      BY <1>2, <2>1 DEF In
    <3>2. inside = {"producer"}
      BY <1>3, <2>1, <3>1
    <3> QED
      BY <3>1, <3>2
  <2>2. CASE q \in 3 .. 5
    <3>1. m = 0 /\ ~(p \in 4 .. 5) /\ ~(c \in 4 .. 5)
      BY <1>2, <2>2 DEF In
    <3>2. inside = {"producer2"}
      BY <1>3, <2>2, <3>1
    <3> QED
      BY <3>1, <3>2
  <2>3. CASE c \in 4 .. 5
    <3>1. m = 0 /\ ~(p \in 4 .. 5) /\ ~(q \in 3 .. 5)
      BY <1>2, <2>3 DEF In
    <3>2. inside = {"consumer"}
      BY <1>3, <2>3, <3>1
    <3> QED
      BY <3>1, <3>2
  <2>4. CASE ~(p \in 4 .. 5 \/ q \in 3 .. 5 \/ c \in 4 .. 5)
    <3>1. inside = {}
      BY <1>3, <2>4
    <3> QED
      BY <3>1
  <2> QED
    BY <2>1, <2>2, <2>3, <2>4
<1>5. Cardinality(inside) <= 1 /\ m + Cardinality(inside) <= 1
  <2>1. CASE inside = {}
    <3>1. Cardinality(inside) = 0 /\ m <= 1
      BY <1>2, <2>1, FS_EmptySet DEF In
    <3> QED
      BY <1>2, <3>1
  <2>2. CASE m = 0 /\ \E t : inside = {t}
    <3>1. Cardinality(inside) = 1
      BY <2>2, FS_Singleton
    <3> QED
      BY <2>2, <3>1
  <2> QED
    BY <1>4, <2>1, <2>2
<1> QED
  BY <1>2, <1>5 DEF BufferShared, f, e, m

-----------------------------------------------------------------------------
(***************************************************************************)
(* For every size of packetbuf and of its header, and whatever payloads,   *)
(* headers and frames there are: the pointers stay in bounds.              *)
(***************************************************************************)

USE SizesAssumption, OctetAssumption

Addresses == [receiver : Octet, sender : Octet]

\* Bytes written into packetbuf are bytes, wherever they are written.
LEMMA WrittenType ==
  ASSUME packetbuf \in [Place -> Octet], NEW to \in Int, NEW bytes \in Seq(Octet)
  PROVE  Written(to, bytes) \in [Place -> Octet]
<1> SUFFICES ASSUME NEW k \in Place, k \in to .. to + Len(bytes) - 1
             PROVE  bytes[k - to + 1] \in Octet
  BY DEF Written
<1>1. k - to + 1 \in 1 .. Len(bytes)
  BY DEF Place
<1> QED
  BY <1>1

\* What is read inside packetbuf are bytes, as many as were asked for.
LEMMA BytesType ==
  ASSUME packetbuf \in [Place -> Octet], NEW from \in Nat, NEW len \in Nat,
         from + len <= PACKETBUF_HDR_SIZE + PACKETBUF_SIZE
  PROVE  BytesAt(from, len) \in Seq(Octet) /\ Len(BytesAt(from, len)) = len
<1>1. \A k \in 1 .. len : from + k - 1 \in Place
  BY DEF Place
<1>2. BytesAt(from, len) \in [1 .. len -> Octet]
  BY <1>1 DEF BytesAt
<1> QED
  BY <1>2

LEMMA HeadType ==
  ASSUME NEW s \in Seq(Octet), NEW m \in 0 .. Len(s)
  PROVE  SubSeq(s, 1, m) \in Seq(Octet) /\ Len(SubSeq(s, 1, m)) = m
  OBVIOUS

LEMMA FittingType ==
  ASSUME NEW s \in Seq(Octet)
  PROVE  Fitting(s) \in Seq(Octet) /\ Len(Fitting(s)) \in 0 .. PACKETBUF_SIZE
<1>1. (IF Len(s) > PACKETBUF_SIZE THEN PACKETBUF_SIZE ELSE Len(s)) \in 0 .. Len(s)
  OBVIOUS
<1> QED
  BY <1>1, HeadType DEF Fitting

\* The header and the data of a packet in bounds.
LEMMA PacketTypes ==
  ASSUME InBounds
  PROVE  /\ HdrBytes \in Seq(Octet) /\ Len(HdrBytes) = packetbuf_hdrlen
         /\ packetbuf_hdrlen \in 0 .. PACKETBUF_HDR_SIZE
         /\ DataBytes \in Seq(Octet) /\ Len(DataBytes) = buflen
         /\ buflen \in Nat
         /\ ~packetbuf_is_reference => buflen \in 0 .. PACKETBUF_SIZE
<1>1. /\ packetbuf_hdrlen \in 0 .. PACKETBUF_HDR_SIZE /\ buflen \in Nat
      /\ ~packetbuf_is_reference => buflen \in 0 .. PACKETBUF_SIZE
  BY DEF InBounds, PointersInBounds, packetbuf_hdrlen
<1>2. HdrBytes \in Seq(Octet) /\ Len(HdrBytes) = packetbuf_hdrlen
  BY <1>1, BytesType DEF HdrBytes, InBounds, PacketTypeOK, PointersInBounds, packetbuf_hdrlen
<1>3. CASE packetbuf_is_reference
  <2>1. packetbufptr \in Seq(Octet) /\ bufptr = 0 /\ buflen = Len(packetbufptr)
    BY <1>3 DEF InBounds, PacketTypeOK, PointersInBounds, packetbuf_is_reference
  <2>2. DataBytes = SubSeq(packetbufptr, 1, buflen)
    BY <1>1, <1>3, <2>1 DEF DataBytes
  <2> QED
    BY <1>1, <1>2, <2>1, <2>2, HeadType
<1>4. CASE ~packetbuf_is_reference
  <2>1. PACKETBUF_HDR_SIZE + bufptr + buflen <= PACKETBUF_HDR_SIZE + PACKETBUF_SIZE
    BY <1>4 DEF InBounds, PointersInBounds
  <2> QED
    BY <1>1, <1>2, <1>4, <2>1, BytesType
    DEF DataBytes, InBounds, PacketTypeOK, PointersInBounds
<1> QED
  BY <1>3, <1>4

Entry == [hdr : Seq(Octet), data : Seq(Octet), addrs : Addresses, copied : BOOLEAN]

\* A packet and its bounds, with something new in the queue.
LEMMA QueuedInBounds ==
  ASSUME InBounds, NEW q \in Entry, qbuf' = <<q>>,
         Len(q.hdr) <= PACKETBUF_HDR_SIZE,
         q.copied => Len(q.data) <= PACKETBUF_HDR_SIZE + PACKETBUF_SIZE,
         UNCHANGED <<packetbuf, spilled, pointerVars, packetbuf_addrs>>
  PROVE  InBounds'
<1>1. qbuf' \in Seq(Entry) /\ Len(qbuf') = 1 /\ qbuf'[1] = q
  OBVIOUS
<1>2. PacketTypeOK'
  BY <1>1 DEF InBounds, PacketTypeOK, Entry, Addresses, pointerVars
<1>3. QueuedFits'
  BY <1>1 DEF QueuedFits
<1>4. PointersInBounds'
  BY DEF InBounds, PointersInBounds, pointerVars, packetbuf_is_reference
<1>5. SpilledByReference'
  BY DEF InBounds, SpilledByReference, pointerVars, packetbuf_is_reference
<1> QED
  BY <1>2, <1>3, <1>4, <1>5 DEF InBounds

LEMMA InitInBounds == ASSUME PacketbufInit PROVE InBounds
  BY DEF PacketbufInit, InBounds, PacketTypeOK, PointersInBounds, QueuedFits,
         SpilledByReference, packetbuf_is_reference, NullAddrs

\* A packet that is made anew: copied, received, or taken back from the queue.
LEMMA NewPacket ==
  ASSUME InBounds, NEW bytes \in Seq(Octet), Len(bytes) <= PACKETBUF_SIZE,
         packetbuf_clear(NoReference, Len(bytes)),
         Write(PACKETBUF_HDR_SIZE, bytes),
         packetbuf_addrs' \in Addresses,
         qbuf' = qbuf \/ qbuf' = <<>>
  PROVE  InBounds'
<1>1. packetbuf' \in [Place -> Octet]
  BY WrittenType DEF InBounds, PacketTypeOK, Write
<1>2. PacketTypeOK' /\ QueuedFits'
  <2>1. CASE qbuf' = qbuf
    BY <1>1, <2>1 DEF InBounds, PacketTypeOK, QueuedFits, Addresses, packetbuf_clear
  <2>2. CASE qbuf' = <<>>
    BY <1>1, <2>2 DEF InBounds, PacketTypeOK, QueuedFits, Addresses, packetbuf_clear
  <2> QED
    BY <2>1, <2>2
<1>3. PointersInBounds'
  BY DEF PointersInBounds, packetbuf_clear, packetbuf_is_reference
<1>4. ~Outside(PACKETBUF_HDR_SIZE, bytes)
  BY DEF Outside
<1>5. SpilledByReference'
  BY <1>4 DEF SpilledByReference, Write
<1> QED
  BY <1>2, <1>3, <1>5 DEF InBounds

LEMMA NullAddrsType == NullAddrs \in Addresses
  BY DEF NullAddrs, Addresses

LEMMA CopyfromInBounds ==
  ASSUME InBounds, NEW bytes \in Seq(Octet), copyfrom(bytes),
         packetbuf_addrs' \in Addresses, qbuf' = qbuf \/ qbuf' = <<>>
  PROVE  InBounds'
<1>1. PICK fitting \in Seq(Octet) : fitting = Fitting(bytes) /\ Len(fitting) <= PACKETBUF_SIZE
  BY FittingType
<1> QED
  BY <1>1, NewPacket DEF copyfrom

LEMMA ReferenceInBounds ==
  ASSUME InBounds, ~spilled, NEW bytes \in Payload, packetbuf_reference(bytes)
  PROVE  InBounds'
<1>1. bytes \in Seq(Octet) /\ bytes # NoReference
  OBVIOUS
<1>2. PacketTypeOK' /\ QueuedFits'
  BY NullAddrsType
  DEF InBounds, PacketTypeOK, QueuedFits, Addresses, packetbuf_reference, packetbuf_clear
<1>3. PointersInBounds'
  BY <1>1 DEF InBounds, PointersInBounds, packetbuf_reference, packetbuf_clear,
              packetbuf_is_reference
<1> QED
  BY <1>2, <1>3 DEF InBounds, SpilledByReference, packetbuf_reference

LEMMA PushInBounds ==
  ASSUME InBounds, NEW bytes \in Seq(Octet), PushHeader(bytes)
  PROVE  InBounds'
<1>1. hdrptr' \in 0 .. PACKETBUF_HDR_SIZE
  BY DEF InBounds, PointersInBounds, PushHeader, HasHeaderRoom
<1>2. packetbuf' \in [Place -> Octet]
  BY <1>1, WrittenType DEF InBounds, PacketTypeOK, PushHeader, Write
<1>3. ~spilled'
  <2>1. PICK at \in 0 .. PACKETBUF_HDR_SIZE :
          at = hdrptr' /\ at + Len(bytes) <= PACKETBUF_HDR_SIZE
    BY <1>1 DEF InBounds, PointersInBounds, PushHeader, HasHeaderRoom
  <2>2. ~Outside(at, bytes)
    BY <2>1 DEF Outside
  <2> QED
    BY <2>1, <2>2 DEF PushHeader, Write
<1>4. PacketTypeOK' /\ QueuedFits'
  BY <1>2 DEF InBounds, PacketTypeOK, QueuedFits, PushHeader
<1>5. PointersInBounds'
  BY <1>1 DEF InBounds, PointersInBounds, PushHeader, packetbuf_is_reference
<1> QED
  BY <1>3, <1>4, <1>5 DEF InBounds, SpilledByReference

\* One that does not fit is not written.
LEMMA FailsInBounds ==
  ASSUME InBounds, ~spilled, NEW size \in Nat, packetbuf_hdralloc_fails(size)
  PROVE  InBounds'
  BY DEF packetbuf_hdralloc_fails, InBounds, PacketTypeOK, PointersInBounds, QueuedFits,
         SpilledByReference, packetbuf_is_reference

\* A header taken off stays within the data there is.
LEMMA ReduceInBounds ==
  ASSUME InBounds, ~spilled, NEW size \in Nat, packetbuf_hdrreduce(size),
         packetbuf_addrs' \in Addresses
  PROVE  InBounds'
<1>1. PacketTypeOK' /\ QueuedFits'
  BY DEF InBounds, PacketTypeOK, QueuedFits, Addresses, packetbuf_hdrreduce
<1>2. PointersInBounds'
  BY DEF InBounds, PointersInBounds, packetbuf_hdrreduce, IsIncoming, packetbuf_is_reference
<1> QED
  BY <1>1, <1>2 DEF InBounds, SpilledByReference, packetbuf_hdrreduce

\* Bytes that are moved stay in packetbuf; referenced data may be too long for it.
LEMMA CompactWrites ==
  ASSUME InBounds, ~spilled, packetbuf_compact
  PROVE  packetbuf' \in [Place -> Octet] /\ SpilledByReference
         /\ (spilled' => packetbuf_is_reference /\ Len(packetbufptr) > PACKETBUF_SIZE)
<1>1. CASE packetbuf_is_reference
  <2>1. packetbufptr \in Seq(Octet) /\ buflen = Len(packetbufptr)
    BY <1>1 DEF InBounds, PacketTypeOK, PointersInBounds, packetbuf_is_reference
  <2>2. SubSeq(packetbufptr, 1, buflen) \in Seq(Octet)
        /\ Len(SubSeq(packetbufptr, 1, buflen)) = buflen
    BY <2>1, HeadType
  <2>3. PICK bytes \in Seq(Octet) :
          bytes = SubSeq(packetbufptr, 1, buflen) /\ Len(bytes) = buflen
    BY <2>2
  <2>4. Write(PACKETBUF_HDR_SIZE, bytes)
    BY <1>1, <2>3 DEF packetbuf_compact
  <2>5. packetbuf' \in [Place -> Octet]
    BY <2>4, WrittenType DEF InBounds, PacketTypeOK, Write
  <2>6. Outside(PACKETBUF_HDR_SIZE, bytes) => Len(bytes) > PACKETBUF_SIZE
    BY DEF Outside
  <2> QED
    BY <1>1, <2>1, <2>3, <2>4, <2>5, <2>6 DEF Write, InBounds
<1>2. CASE ~packetbuf_is_reference /\ bufptr > 0
  <2>1. PICK bytes \in Seq(Octet) : bytes = DataBytes /\ Len(bytes) <= PACKETBUF_SIZE
    BY <1>2, PacketTypes
  <2>2. Write(PACKETBUF_HDR_SIZE, bytes)
    BY <1>2, <2>1 DEF packetbuf_compact
  <2>3. packetbuf' \in [Place -> Octet]
    BY <2>2, WrittenType DEF InBounds, PacketTypeOK, Write
  <2>4. ~Outside(PACKETBUF_HDR_SIZE, bytes)
    BY <2>1 DEF Outside
  <2> QED
    BY <2>2, <2>3, <2>4 DEF Write, InBounds
<1>3. CASE ~packetbuf_is_reference /\ ~(bufptr > 0)
  BY <1>3 DEF packetbuf_compact, InBounds, PacketTypeOK
<1> QED
  BY <1>1, <1>2, <1>3

LEMMA SendInBounds ==
  ASSUME InBounds, ~spilled, send_packet
  PROVE  InBounds'
<1>1. packetbuf' \in [Place -> Octet]
      /\ (spilled' => packetbuf_is_reference /\ Len(packetbufptr) > PACKETBUF_SIZE)
  BY CompactWrites DEF send_packet
<1>2. PacketTypeOK' /\ QueuedFits'
  BY <1>1 DEF InBounds, PacketTypeOK, QueuedFits, send_packet
<1>3. PointersInBounds'
  BY DEF InBounds, PointersInBounds, send_packet, packetbuf_is_reference
<1>4. SpilledByReference'
  BY <1>1 DEF SpilledByReference, send_packet, packetbuf_is_reference
<1> QED
  BY <1>2, <1>3, <1>4 DEF InBounds

\* What goes into the queue can come back: a header and data that were kept
\* apart fit into the room they came from.
LEMMA SaveInBounds ==
  ASSUME InBounds, queuebuf_new_from_packetbuf
  PROVE  InBounds'
<1>1. CASE packetbuf_is_reference
  <2>1. packetbufptr \in Seq(Octet) /\ buflen = Len(packetbufptr)
    BY <1>1 DEF InBounds, PacketTypeOK, PointersInBounds, packetbuf_is_reference
  <2>2. /\ SubSeq(packetbufptr, 1, buflen) \in Seq(Octet)
        /\ Len(SubSeq(packetbufptr, 1, buflen)) = buflen
    BY <2>1, HeadType
  <2>3. HdrBytes \in Seq(Octet) /\ Len(HdrBytes) <= PACKETBUF_HDR_SIZE
    BY PacketTypes
  <2>4. PICK h \in Seq(Octet) : h = HdrBytes
    BY <2>3
  <2>5. PICK d \in Seq(Octet) : d = SubSeq(packetbufptr, 1, buflen)
    BY <2>2
  <2>6. Len(h) <= PACKETBUF_HDR_SIZE
    BY <2>3, <2>4
  <2>7. PICK q \in Entry :
          q = [hdr |-> h, data |-> d, addrs |-> packetbuf_addrs, copied |-> FALSE]
    BY DEF Entry, Addresses, InBounds, PacketTypeOK
  <2>8. qbuf' = <<q>> /\ UNCHANGED <<packetbuf, spilled, pointerVars, packetbuf_addrs>>
    BY <1>1, <2>4, <2>5, <2>7 DEF queuebuf_new_from_packetbuf
  <2> QED
    BY <2>6, <2>7, <2>8, QueuedInBounds
<1>2. CASE ~packetbuf_is_reference
  <2>1. PICK h \in Seq(Octet) : h = HdrBytes /\ Len(h) <= PACKETBUF_HDR_SIZE
    BY PacketTypes
  <2>b. PICK rest \in Seq(Octet) : rest = DataBytes /\ Len(rest) <= PACKETBUF_SIZE
    BY <1>2, PacketTypes
  <2>2. h \o rest \in Seq(Octet) /\ Len(h \o rest) <= PACKETBUF_HDR_SIZE + PACKETBUF_SIZE
    BY <2>1, <2>b
  <2>3. PICK d \in Seq(Octet) :
          d = packetbuf_copyto /\ Len(d) <= PACKETBUF_HDR_SIZE + PACKETBUF_SIZE
    BY <2>1, <2>b, <2>2 DEF packetbuf_copyto
  <2>a. PICK none \in Seq(Octet) : none = <<>> /\ Len(none) = 0
    <3>1. << >> \in Seq(Octet) /\ Len(<< >>) = 0
      OBVIOUS
    <3> QED
      BY <3>1, Zenon
  <2>4. PICK q \in Entry :
          q = [hdr |-> none, data |-> d, addrs |-> packetbuf_addrs, copied |-> TRUE]
    BY DEF Entry, Addresses, InBounds, PacketTypeOK
  <2>5. qbuf' = <<q>> /\ UNCHANGED <<packetbuf, spilled, pointerVars, packetbuf_addrs>>
    BY <1>2, <2>a, <2>3, <2>4 DEF queuebuf_new_from_packetbuf
  <2>6. Len(q.hdr) <= PACKETBUF_HDR_SIZE
    BY <2>a, <2>4
  <2>7. Len(q.data) <= PACKETBUF_HDR_SIZE + PACKETBUF_SIZE
    BY <2>3, <2>4
  <2> QED
    BY <2>5, <2>6, <2>7, QueuedInBounds
<1> QED
  BY <1>1, <1>2

LEMMA RestoreInBounds ==
  ASSUME InBounds, queuebuf_to_packetbuf
  PROVE  InBounds'
<1> DEFINE q == Head(qbuf)
<1>1. q \in Entry /\ q = qbuf[1] /\ 1 \in 1 .. Len(qbuf)
  <2>1. qbuf \in Seq(Entry) /\ qbuf # <<>>
    BY DEF InBounds, PacketTypeOK, Addresses, Entry, queuebuf_to_packetbuf
  <2> QED
    BY <2>1
<1>a. /\ q.hdr \in Seq(Octet) /\ q.data \in Seq(Octet)
      /\ q.addrs \in Addresses /\ q.copied \in BOOLEAN
  BY <1>1 DEF Entry
<1>2. CASE q.copied
  BY <1>a, <1>2, CopyfromInBounds DEF queuebuf_to_packetbuf
<1>3. CASE ~q.copied
  <2>1. Len(q.hdr) \in 0 .. PACKETBUF_HDR_SIZE
    BY <1>1, <1>a DEF InBounds, QueuedFits
  <2>2. PICK fitting \in Seq(Octet) :
          fitting = Fitting(q.data) /\ Len(fitting) \in 0 .. PACKETBUF_SIZE
    BY <1>a, FittingType
  <2>a. PICK head \in Seq(Octet) : head = q.hdr /\ Len(head) \in 0 .. PACKETBUF_HDR_SIZE
    BY <1>a, <2>1
  <2>3. PICK bytes \in Seq(Octet) :
          bytes = head \o fitting /\ Len(bytes) = Len(head) + Len(fitting)
    <3>1. head \o fitting \in Seq(Octet) /\ Len(head \o fitting) = Len(head) + Len(fitting)
      OBVIOUS
    <3> QED
      BY <3>1
  <2>b. PICK len \in 0 .. PACKETBUF_HDR_SIZE : len = Len(head)
    BY <2>a
  <2>4. PICK to \in 0 .. PACKETBUF_HDR_SIZE :
          /\ to = IF PACKETBUF_HDR_SIZE > len THEN PACKETBUF_HDR_SIZE - len ELSE 0
          /\ to + len = PACKETBUF_HDR_SIZE
    <3>1. CASE PACKETBUF_HDR_SIZE > len
      <4>1. PACKETBUF_HDR_SIZE - len \in 0 .. PACKETBUF_HDR_SIZE
        BY <3>1
      <4> QED
        BY <3>1, <4>1
    <3>2. CASE PACKETBUF_HDR_SIZE = len
      BY <3>2
    <3> QED
      BY <3>1, <3>2
  <2>5. /\ buflen' = Len(fitting) /\ bufptr' = 0 /\ hdrptr' = to
        /\ packetbufptr' = NoReference
        /\ Write(to, bytes)
        /\ packetbuf_addrs' = NullAddrs /\ qbuf' = <<>>
    BY <1>3, <2>2, <2>3, <2>4, <2>a, <2>b DEF queuebuf_to_packetbuf
  <2>6. packetbuf' \in [Place -> Octet]
    BY <2>5, WrittenType DEF InBounds, PacketTypeOK, Write
  <2>7. ~Outside(to, bytes)
    <3>1. PICK f \in 0 .. PACKETBUF_SIZE : f = Len(fitting)
      BY <2>2
    <3>2. Len(bytes) = len + f
      BY <2>3, <2>b, <3>1
    <3>3. to + (len + f) <= PACKETBUF_HDR_SIZE + PACKETBUF_SIZE
      BY <2>4
    <3> QED
      BY <3>2, <3>3 DEF Outside
  <2>8. PacketTypeOK' /\ QueuedFits'
    BY <2>5, <2>6, NullAddrsType DEF InBounds, PacketTypeOK, QueuedFits, Addresses
  <2>9. PointersInBounds'
    BY <2>2, <2>5 DEF PointersInBounds, packetbuf_is_reference
  <2> QED
    BY <2>5, <2>7, <2>8, <2>9 DEF InBounds, SpilledByReference, Write
<1> QED
  BY <1>2, <1>3

\* Every operation, but for the bound on their number, keeps the bounds.
LEMMA OperationInBounds ==
  ASSUME InBounds, ~spilled, Operation
  PROVE  InBounds'
<1>1. CASE \E bytes \in Payload : packetbuf_copyfrom(bytes)
  BY <1>1, CopyfromInBounds, NullAddrsType DEF packetbuf_copyfrom
<1>2. CASE \E bytes \in Payload : packetbuf_reference(bytes)
  BY <1>2, ReferenceInBounds
<1>3. CASE \E a \in Addr : packetbuf_set_addr(a)
  BY <1>3 DEF packetbuf_set_addr, InBounds, PacketTypeOK, PointersInBounds, QueuedFits,
              SpilledByReference, pointerVars, packetbuf_is_reference
<1>4. CASE packetbuf_clear_hdr
  BY <1>4 DEF packetbuf_clear_hdr, InBounds, PacketTypeOK, PointersInBounds, QueuedFits,
              SpilledByReference, packetbuf_is_reference
<1>5. CASE \E bytes \in Header : PushHeader(bytes)
  BY <1>5, PushInBounds
<1>6. CASE \E bytes \in Header : packetbuf_hdralloc_fails(Len(bytes))
  <2>1. PICK bytes \in Header : packetbuf_hdralloc_fails(Len(bytes))
    BY <1>6
  <2>2. Len(bytes) \in Nat
    OBVIOUS
  <2> QED
    BY <2>1, <2>2, FailsInBounds
<1>7. CASE \E bytes \in Header : Reduce(Len(bytes))
  <2>1. packetbuf_addrs \in Addresses
    BY DEF InBounds, PacketTypeOK, Addresses
  <2> QED
    BY <1>7, <2>1, ReduceInBounds DEF Reduce
<1>8. CASE create
  <2>1. MacHeader \in Seq(Octet)
    BY DEF InBounds, PacketTypeOK, MacHeader
  <2>2. Len(MacHeader) \in Nat
    BY <2>1
  <2> QED
    BY <1>8, <2>1, <2>2, PushInBounds, FailsInBounds DEF create
<1>9. CASE parse
  <2>1. DataBytes[1] \in Octet /\ DataBytes[2] \in Octet
    BY <1>9, PacketTypes DEF parse, packetbuf_hdrreduce
  <2> QED
    BY <1>9, <2>1, ReduceInBounds DEF parse, Addresses
<1>10. CASE send_packet
  BY <1>10, SendInBounds
<1>11. CASE \E frame \in Foreign : read_packet(frame)
  BY <1>11, NewPacket, NullAddrsType DEF read_packet
<1>12. CASE queuebuf_new_from_packetbuf
  BY <1>12, SaveInBounds
<1>13. CASE queuebuf_to_packetbuf
  BY <1>13, RestoreInBounds
<1> QED
  BY <1>1, <1>2, <1>3, <1>4, <1>5, <1>6, <1>7, <1>8, <1>9, <1>10, <1>11, <1>12, <1>13
  DEF Operation

\* For all sizes and whatever is done to the packet, no pointer of packetbuf.c leaves
\* the packet's memory, and nothing is written behind packetbuf but, when it is sent
\* without having been queued, referenced data longer than packetbuf.
THEOREM PointersStayInBounds == PacketbufSpec => []InBounds
<1>1. PacketbufInit => InBounds
  BY InitInBounds
<1>2. InBounds /\ [PacketbufNext]_packetbufVars => InBounds'
  <2> SUFFICES ASSUME InBounds, [PacketbufNext]_packetbufVars
               PROVE  InBounds'
    OBVIOUS
  <2>1. CASE PacketbufNext
    BY <2>1, OperationInBounds DEF PacketbufNext
  <2>2. CASE UNCHANGED packetbufVars
    BY <2>2 DEF packetbufVars, pointerVars, InBounds, PacketTypeOK, PointersInBounds,
                QueuedFits, SpilledByReference, packetbuf_is_reference
  <2> QED
    BY <2>1, <2>2
<1> QED
  BY <1>1, <1>2, PTL DEF PacketbufSpec

-----------------------------------------------------------------------------
(***************************************************************************)
(* The serial port (native drivers/usci.c, cpu/ez430/usci.c) and the       *)
(* packet printer, for every length of an octet and of a packet and any    *)
(* number of octets and packets. That no octet is lost rests on            *)
(* SentInTime: the handler of the port that tests the transmitter's flag   *)
(* leaves an octet waiting while one is sent, and that one has gone before *)
(* the next has come.                                                      *)
(***************************************************************************)

\* What the registers and the counters are.
UartTypes ==
  /\ port \in {"embedded", "contiki"}
  /\ UCA0RXIFG \in BOOLEAN /\ UCA0TXIFG \in BOOLEAN
  /\ UCA0RXBUF \in 0 .. Numbers - 1
  /\ next_in \in 0 .. Numbers - 1 /\ got \in 0 .. Numbers - 1
  /\ coming \in 0 .. OCTET /\ going \in 0 .. OCTET
  /\ posted \in 0 .. MaxPosted
  /\ print \in [on : BOOLEAN, i : Int, waiting : BOOLEAN]

\* The flag of the transmitter tells whether its buffer is empty, and uart_putchar
\* returns only when it is.
TransmitterKnown ==
  /\ UCA0TXIFG <=> UCA0TXBUF = <<>>
  /\ ~print.waiting => UCA0TXIFG
  /\ print.waiting => print.on

\* The octet that waits for the callback is the one it is to be given next.
OctetKnown ==
  IF UCA0RXIFG THEN UCA0RXBUF = got /\ next_in = (got + 1) % Numbers ELSE next_in = got

\* An octet that waits for the handler of the port that tests the wrong flag: the
\* shift register is free before another octet has come.
SentInTime ==
  UCA0RXIFG /\ UCA0TXBUF # <<>> =>
    going < OCTET /\ (coming > 0 => coming > 1 /\ going < coming)

\* Whoever sent the packet received last on its way to be printed.
ToBePrinted == shown \/ posted > 0 \/ (print.on /\ ~cut)

UartIInv ==
  /\ UartTypes /\ TransmitterKnown /\ OctetKnown /\ SentInTime /\ ToBePrinted /\ ~lost

LEMMA UartInitIInv == uart_init => UartIInv
<1> SUFFICES ASSUME uart_init PROVE UartIInv
  OBVIOUS
<1>1. print = [on |-> FALSE, i |-> 0, waiting |-> FALSE]
  BY DEF uart_init, NoPrint
<1>2. print \in [on : BOOLEAN, i : Int, waiting : BOOLEAN] /\ ~print.waiting
  BY <1>1
<1>3. UartTypes
  <2>1. 0 \in 0 .. Numbers - 1 /\ 0 \in 0 .. OCTET /\ 0 \in 0 .. MaxPosted
    BY UartAssumption
  <2> QED
    BY <1>2, <2>1 DEF uart_init, UartTypes
<1> QED
  BY <1>2, <1>3 DEF uart_init, UartIInv, TransmitterKnown, OctetKnown, SentInTime, ToBePrinted

\* A tick: what comes, and what goes.
LEMMA TickKeeps == UartIInv /\ UartTick => UartIInv'
<1> SUFFICES ASSUME UartIInv, UartTick PROVE UartIInv'
  OBVIOUS
<1> USE UartAssumption
<1>1. UartTypes /\ TransmitterKnown /\ OctetKnown /\ SentInTime /\ ToBePrinted /\ ~lost
  BY DEF UartIInv
<1>2. /\ Receives /\ Transmits /\ ~(UCA0RXIFG /\ Handles)
      /\ UNCHANGED <<port, got, msg, posted, print, cut, shown>>
  BY DEF UartTick, printVars
<1>3. coming = 1 => ~UCA0RXIFG
  BY <1>1, <1>2 DEF SentInTime, TransmitterKnown, Handles, UartTypes
<1>4. ~lost' /\ OctetKnown'
  <2>1. CASE coming # 1
    BY <1>1, <1>2, <2>1 DEF Receives, OctetKnown, UartTypes
  <2>2. CASE coming = 1
    BY <1>1, <1>2, <1>3, <2>2 DEF Receives, OctetKnown, UartTypes
  <2> QED
    BY <2>1, <2>2
<1>5. UCA0RXBUF' \in 0 .. Numbers - 1 /\ next_in' \in 0 .. Numbers - 1
      /\ coming' \in 0 .. OCTET /\ UCA0RXIFG' \in BOOLEAN
  <2>1. CASE coming # 1
    BY <1>1, <1>2, <2>1 DEF Receives, UartTypes
  <2>2. CASE coming = 1
    BY <1>1, <1>2, <2>2 DEF Receives, UartTypes
  <2> QED
    BY <2>1, <2>2
<1>6. going' \in 0 .. OCTET /\ UCA0TXIFG' \in BOOLEAN /\ TransmitterKnown'
  <2>1. CASE going > 1 \/ UCA0TXBUF = <<>>
    BY <1>1, <1>2, <2>1 DEF Transmits, UartTypes, TransmitterKnown
  <2>2. CASE ~(going > 1 \/ UCA0TXBUF = <<>>)
    BY <1>1, <1>2, <2>2 DEF Transmits, UartTypes, TransmitterKnown
  <2> QED
    BY <2>1, <2>2
<1>7. UartTypes'
  BY <1>1, <1>2, <1>5, <1>6 DEF UartTypes
<1>8. SentInTime'
  <2> SUFFICES ASSUME UCA0RXIFG', UCA0TXBUF' # <<>>
               PROVE  going' < OCTET /\ (coming' > 0 => coming' > 1 /\ going' < coming')
    BY DEF SentInTime
  <2>1. going > 1 /\ going' = going - 1 /\ UCA0TXBUF # <<>>
    BY <1>1, <1>2 DEF Transmits, UartTypes
  <2>2. CASE coming = 1
    BY <1>1, <1>2, <2>1, <2>2 DEF Receives, UartTypes
  <2>3. CASE coming # 1
    <3>1. UCA0RXIFG /\ coming' = IF coming = 0 THEN 0 ELSE coming - 1
      BY <1>2, <2>3 DEF Receives
    <3> QED
      BY <1>1, <2>1, <2>3, <3>1 DEF SentInTime, UartTypes
  <2> QED
    BY <2>2, <2>3
<1>9. ToBePrinted'
  BY <1>1, <1>2 DEF ToBePrinted
<1> QED
  BY <1>4, <1>6, <1>7, <1>8, <1>9 DEF UartIInv

\* The handler, the start of an octet, and the program.
LEMMA UartNextKeeps == UartIInv /\ UartNext => UartIInv'
<1> SUFFICES ASSUME UartIInv, UartNext PROVE UartIInv'
  OBVIOUS
<1> USE UartAssumption
<1>0. UartTypes /\ TransmitterKnown /\ OctetKnown /\ SentInTime /\ ToBePrinted /\ ~lost
  BY DEF UartIInv
<1>1. CASE UartTick
  BY <1>1, TickKeeps
<1>2. CASE LineStarts
  BY <1>0, <1>2
  DEF LineStarts, UartIInv, UartTypes, TransmitterKnown, OctetKnown, SentInTime, ToBePrinted, printVars
<1>3. CASE usci_irq
  <2>1. UCA0RXBUF = got /\ next_in = (got + 1) % Numbers /\ got' = (got + 1) % Numbers
    BY <1>0, <1>3 DEF usci_irq, OctetKnown
  <2>2. ~lost' /\ OctetKnown'
    BY <1>0, <1>3, <2>1 DEF usci_irq, OctetKnown
  <2>3. UartTypes'
    <3>1. (got + 1) % Numbers \in 0 .. Numbers - 1
      BY <1>0 DEF UartTypes
    <3> QED
      BY <1>0, <1>3, <2>1, <3>1 DEF usci_irq, UartTypes, printVars
  <2>4. TransmitterKnown' /\ SentInTime' /\ ToBePrinted'
    BY <1>0, <1>3 DEF usci_irq, TransmitterKnown, SentInTime, ToBePrinted, printVars
  <2> QED
    BY <2>2, <2>3, <2>4 DEF UartIInv
<1>4. ASSUME NEW n \in Length, rx(n) PROVE UartIInv'
  <2>1. posted' \in 0 .. MaxPosted /\ posted' > 0
    BY <1>0, <1>4 DEF rx, UartTypes
  <2>2. UartTypes' /\ ToBePrinted'
    BY <1>0, <1>4, <2>1 DEF rx, UartTypes, ToBePrinted, usciVars
  <2>3. TransmitterKnown' /\ SentInTime' /\ OctetKnown' /\ ~lost'
    BY <1>0, <1>4 DEF rx, TransmitterKnown, SentInTime, OctetKnown, usciVars
  <2> QED
    BY <2>2, <2>3 DEF UartIInv
<1>5. CASE PrintBegins
  <2>1. posted' \in 0 .. MaxPosted
    BY <1>0, <1>5 DEF PrintBegins, UartTypes
  <2>a. print' = [on |-> TRUE, i |-> 0, waiting |-> FALSE]
    BY <1>5 DEF PrintBegins, NoPrint
  <2>b. print' \in [on : BOOLEAN, i : Int, waiting : BOOLEAN] /\ print'.on
    BY <2>a
  <2>2. UartTypes' /\ ToBePrinted'
    BY <1>0, <1>5, <2>1, <2>b DEF PrintBegins, UartTypes, ToBePrinted, usciVars
  <2>3. TransmitterKnown'
    <3>1. UCA0TXIFG
      BY <1>0, <1>5 DEF PrintBegins, UartTypes, TransmitterKnown, UartMain
    <3> QED
      BY <1>0, <1>5, <3>1 DEF PrintBegins, TransmitterKnown, usciVars
  <2>4. SentInTime' /\ OctetKnown' /\ ~lost'
    BY <1>0, <1>5 DEF PrintBegins, SentInTime, OctetKnown, usciVars
  <2> QED
    BY <2>2, <2>3, <2>4 DEF UartIInv
<1>6. CASE uart_putchar
  <2>1. ~lost' /\ UCA0TXBUF' # <<>> /\ ~UCA0TXIFG' /\ ~UCA0RXIFG'
    BY <1>0, <1>6 DEF uart_putchar, TransmitterKnown, UartMain
  <2>2. print' \in [on : BOOLEAN, i : Int, waiting : BOOLEAN] /\ print'.waiting /\ print'.on
    <3>1. print' = [print EXCEPT !.i = @ + 1, !.waiting = TRUE] /\ print.on
      BY <1>6 DEF uart_putchar, Waits
    <3>2. print \in [on : BOOLEAN, i : Int, waiting : BOOLEAN]
      BY <1>0 DEF UartTypes
    <3>3. PICK n \in Int : n = print.i + 1
      BY <3>2
    <3>4. print' = [print EXCEPT !.i = n, !.waiting = TRUE]
      BY <3>1, <3>3
    <3>5. print' \in [on : BOOLEAN, i : Int, waiting : BOOLEAN]
      BY <3>2, <3>4
    <3>6. print'.waiting /\ print'.on
      BY <3>1, <3>2
    <3> QED
      BY <3>5, <3>6
  <2>3. UartTypes'
    BY <1>0, <1>6, <2>1, <2>2 DEF uart_putchar, UartTypes
  <2>4. TransmitterKnown' /\ SentInTime'
    BY <2>1, <2>2 DEF TransmitterKnown, SentInTime
  <2>5. OctetKnown' /\ ToBePrinted'
    BY <1>0, <1>6, <2>2 DEF uart_putchar, OctetKnown, ToBePrinted
  <2> QED
    BY <2>1, <2>3, <2>4, <2>5 DEF UartIInv
<1>7. CASE PutcharReturns
  <2>1. /\ print' \in [on : BOOLEAN, i : Int, waiting : BOOLEAN]
        /\ print'.on = print.on /\ UCA0TXIFG
    BY <1>0, <1>7 DEF PutcharReturns, UartTypes
  <2> QED
    BY <1>0, <1>7, <2>1
    DEF PutcharReturns, UartIInv, UartTypes, TransmitterKnown, OctetKnown, SentInTime, ToBePrinted, usciVars
<1>8. CASE PrintEnds
  <2>1. /\ print' \in [on : BOOLEAN, i : Int, waiting : BOOLEAN]
        /\ print'.waiting = print.waiting /\ UCA0TXIFG
    BY <1>0, <1>8 DEF PrintEnds, UartTypes, TransmitterKnown
  <2> QED
    BY <1>0, <1>8, <2>1
    DEF PrintEnds, UartIInv, UartTypes, TransmitterKnown, OctetKnown, SentInTime, ToBePrinted, usciVars
<1> QED
  BY <1>1, <1>2, <1>3, <1>4, <1>5, <1>6, <1>7, <1>8 DEF UartNext

\* What the serial port and the packet printer keep.
LEMMA UartKeepsAll ==
  /\ uart_init => UartIInv
  /\ UartIInv /\ [UartNext]_uartVars => UartIInv'
  /\ UartIInv => OctetsAndPacketsPass
<1>1. UartIInv /\ [UartNext]_uartVars => UartIInv'
  <2>1. UartIInv /\ UNCHANGED uartVars => UartIInv'
    BY DEF uartVars, usciVars, printVars, UartIInv, UartTypes, TransmitterKnown, OctetKnown, SentInTime, ToBePrinted
  <2> QED
    BY <2>1, UartNextKeeps
<1> QED
  BY <1>1, UartInitIInv DEF UartIInv, OctetsAndPacketsPass, ToBePrinted

-----------------------------------------------------------------------------
(***************************************************************************)
(* The robot of the host (vizual/robot.py), for every reach of a step and  *)
(* any number of walks. Where the body is follows from what each rotation  *)
(* adds, so the invariant says how far the legs are within a walk (InStep, *)
(* WithinReach) and what the walks done have added up to (BodyAt).         *)
(***************************************************************************)

\* One height and one distance for all parts, and what the loops keep in variables.
RobotTypes ==
  /\ next_walk \in {"left", "right"} /\ phase \in {"still", "out", "back"}
  /\ left_current_angle \in Int /\ slips \in Int /\ walks \in Int
  /\ deltah_current \in Int /\ deltad_current \in Int
  /\ pos \in [Part -> Int \X Int] /\ turned \in [Leg -> Int]

Together ==
  /\ \A p \in Part : pos[p] = pos["body"]
  /\ turned["left_leg"] + turned["right_leg"] = 0

\* What the angle and the two variables beside it mean within a walk.
InStep ==
  IF phase = "still" THEN turned["left_leg"] = 0
  ELSE /\ turned["left_leg"] = left_current_angle
       /\ deltah_current = Height(left_current_angle)
       /\ deltad_current = - Outward * left_current_angle

\* How far the legs are: beyond zero by one rotation at most.
WithinReach ==
  /\ phase = "out" => left_current_angle * Outward \in 0 .. Reach - 1
  /\ phase = "back" => left_current_angle * Outward \in -1 .. Reach

BodyAt ==
  /\ pos["body"][1] = - Height(turned["left_leg"]) - (slips - SlipsNow) * Height(1)
  /\ pos["body"][2] = walks * 2 * Distance(Reach) + (slips - SlipsNow) + Forward

RobotIInv == RobotTypes /\ Together /\ InStep /\ WithinReach /\ BodyAt

\* The heights the argument needs, and that a stride is twice the reach.
LEMMA Heights ==
  /\ Height(0) = 0 /\ Height(1) = LegHeight /\ Height(-1) = LegHeight
  /\ LegHeight \in Int
  /\ \A a \in Int : Height(a) \in Int
  BY DEF Height, LegHeight

LEMMA OutwardIs ==
  ASSUME RobotTypes
  PROVE  /\ Outward = (IF next_walk = "left" THEN -1 ELSE 1)
         /\ Outward \in {-1, 1} /\ Outward * Outward = 1
         /\ \A a \in Int : (IF next_walk = "left" THEN Distance(a) ELSE - Distance(a)) = - Outward * a
  BY DEF RobotTypes, Outward, Distance

LEMMA RobotInitIInv == RobotInit => RobotIInv
<1> SUFFICES ASSUME RobotInit PROVE RobotIInv
  OBVIOUS
<1>1. "body" \in Part /\ "left_leg" \in Leg /\ "right_leg" \in Leg
  BY DEF Part, Leg
<1>2. RobotTypes
  BY DEF RobotInit, RobotTypes
<1>3. Together /\ InStep /\ WithinReach
  <2>1. turned["left_leg"] = 0 /\ turned["right_leg"] = 0 /\ phase = "still"
    BY <1>1 DEF RobotInit
  <2>2. \A p \in Part : pos[p] = pos["body"]
    BY <1>1 DEF RobotInit
  <2>3. turned["left_leg"] + turned["right_leg"] = 0
    BY <2>1
  <2>4. Together
    BY <2>2, <2>3 DEF Together
  <2>5. InStep /\ WithinReach
    BY <2>1 DEF InStep, WithinReach
  <2> QED
    BY <2>4, <2>5
<1>4. SlipsNow = 0 /\ Forward = 0
  BY DEF RobotInit, SlipsNow, Forward
<1>5. BodyAt
  BY <1>1, <1>4, Heights, RobotAssumption DEF RobotInit, BodyAt, Distance
<1> QED
  BY <1>2, <1>3, <1>5 DEF RobotIInv

\* A step of a loop carries all parts by y and z, and turns the legs by o.
LEMMA BodyMoved ==
  ASSUME RobotIInv, NEW y \in Int, NEW z \in Int, NEW o \in Int, move_body(y, z), rotate_legs(o)
  PROVE  /\ pos' \in [Part -> Int \X Int] /\ turned' \in [Leg -> Int] /\ Together'
         /\ pos'["body"][1] = pos["body"][1] + y /\ pos'["body"][2] = pos["body"][2] + z
         /\ turned'["left_leg"] = turned["left_leg"] + o
<1>1. "body" \in Part /\ Leg = {"left_leg", "right_leg"}
  BY DEF Part, Leg
<1>2. /\ pos \in [Part -> Int \X Int] /\ turned \in [Leg -> Int]
      /\ \A p \in Part : pos[p] = pos["body"]
      /\ turned["left_leg"] + turned["right_leg"] = 0
  BY DEF RobotIInv, RobotTypes, Together
<1>3. /\ pos' \in [Part -> Int \X Int]
      /\ \A p \in Part : pos'[p] = <<pos["body"][1] + y, pos["body"][2] + z>>
  BY <1>1, <1>2 DEF move_body
<1>4. /\ turned' \in [Leg -> Int]
      /\ turned'["left_leg"] = turned["left_leg"] + o
      /\ turned'["right_leg"] = turned["right_leg"] + (- o)
  BY <1>1, <1>2 DEF rotate_legs
<1>5. turned["left_leg"] \in Int /\ turned["right_leg"] \in Int
  BY <1>1, <1>2
<1>6. Together'
  <2>1. \A p \in Part : pos'[p] = pos'["body"]
    BY <1>1, <1>3
  <2>2. turned'["left_leg"] + turned'["right_leg"] = 0
    BY <1>2, <1>4, <1>5
  <2> QED
    BY <2>1, <2>2 DEF Together
<1>7. /\ pos'["body"][1] = pos["body"][1] + y /\ pos'["body"][2] = pos["body"][2] + z
  BY <1>1, <1>3
<1> QED
  BY <1>3, <1>4, <1>6, <1>7

LEMMA SwingOutKeeps == RobotIInv /\ SwingOut => RobotIInv'
<1> SUFFICES ASSUME RobotIInv, SwingOut PROVE RobotIInv'
  OBVIOUS
<1>0. RobotTypes /\ InStep /\ WithinReach /\ BodyAt /\ Reach \in Nat \ {0}
  BY RobotAssumption DEF RobotIInv
<1>1. PICK o \in {-1, 1} : o = Outward
  BY <1>0, OutwardIs
<1>2. PICK a \in Int : a = left_current_angle
  BY <1>0 DEF RobotTypes
<1>3. PICK b \in Int : b = a + o
  OBVIOUS
<1>4. /\ phase = "out" /\ a * o \in 0 .. Reach - 1
      /\ turned["left_leg"] = a /\ deltah_current = Height(a) /\ deltad_current = - o * a
  BY <1>0, <1>1, <1>2 DEF SwingOut, InStep, WithinReach
<1>5. (IF next_walk = "left" THEN Distance(b) ELSE - Distance(b)) = - o * b
  BY <1>0, <1>1, OutwardIs
<1>6. PICK y \in Int, z \in Int : y = Height(a) - Height(b) /\ z = (- o * a) - (- o * b)
  <2>1. Height(a) - Height(b) \in Int
    BY Heights
  <2>2. (- o * a) - (- o * b) \in Int
    BY <1>1
  <2> QED
    BY <2>1, <2>2
<1>7. /\ left_current_angle' = b /\ rotate_legs(o) /\ move_body(y, z)
      /\ deltah_current' = Height(b) /\ deltad_current' = - o * b
      /\ phase' = (IF b = Reach * o THEN "back" ELSE "out")
      /\ UNCHANGED <<next_walk, walks, slips>>
  BY <1>1, <1>2, <1>3, <1>4, <1>5, <1>6 DEF SwingOut
<1>8. /\ pos' \in [Part -> Int \X Int] /\ turned' \in [Leg -> Int] /\ Together'
      /\ pos'["body"][1] = pos["body"][1] + y /\ pos'["body"][2] = pos["body"][2] + z
      /\ turned'["left_leg"] = a + o
  <2>1. o \in Int /\ rotate_legs(o) /\ move_body(y, z)
    BY <1>1, <1>7
  <2> QED
    BY <1>4, <2>1, BodyMoved
<1>9. z = 1
  BY <1>1, <1>3, <1>6
<1>10. Outward' = o
  BY <1>1, <1>7 DEF Outward
<1>11. b * o \in 1 .. Reach /\ (b # Reach * o => b * o \in 0 .. Reach - 1)
  <2>1. CASE o = 1
    BY <1>0, <1>3, <1>4, <2>1
  <2>2. CASE o = -1
    BY <1>0, <1>3, <1>4, <2>2
  <2> QED
    BY <2>1, <2>2
<1>12. RobotTypes'
  <2>1. b \in Int /\ Height(b) \in Int /\ - o * b \in Int
    BY <1>1, Heights
  <2>2. left_current_angle' \in Int /\ deltah_current' \in Int /\ deltad_current' \in Int
    BY <1>7, <2>1
  <2>3. slips' \in Int /\ walks' \in Int /\ next_walk' \in {"left", "right"}
    BY <1>0, <1>7 DEF RobotTypes
  <2>4. phase' \in {"still", "out", "back"}
    BY <1>4, <1>7
  <2> QED
    BY <1>8, <2>2, <2>3, <2>4 DEF RobotTypes
<1>13. InStep'
  BY <1>3, <1>7, <1>8, <1>10 DEF InStep
<1>14. WithinReach'
  BY <1>0, <1>7, <1>10, <1>11 DEF WithinReach
<1>15. SlipsNow = 0 /\ SlipsNow' = 0
  <2>1. ~(b * o < 0)
    BY <1>11
  <2> QED
    BY <1>4, <1>7, <1>10, <2>1 DEF SlipsNow
<1>16. Forward = a * o /\ Forward' = b * o
  <2>1. Abs(a) = a * o /\ Abs(b) = b * o /\ (b = Reach * o => b * o = Reach)
    <3>1. CASE o = 1
      <4>1. a >= 0 /\ b >= 0 /\ a * o = a /\ b * o = b /\ Reach * o = Reach
        BY <1>0, <1>4, <1>11, <3>1
      <4> QED
        BY <4>1 DEF Abs
    <3>2. CASE o = -1
      <4>1. PICK m \in Int, n \in Int, r \in Int : m = a * o /\ n = b * o /\ r = Reach * o
        BY <1>0, <3>2
      <4>2. a + m = 0 /\ b + n = 0 /\ r + Reach = 0
        BY <1>0, <3>2, <4>1
      <4>3. m >= 0 /\ n > 0
        BY <1>0, <1>4, <1>11, <4>1
      <4>4. Abs(a) = m /\ Abs(b) = n
        BY <4>2, <4>3 DEF Abs
      <4>5. b = r => n = Reach
        BY <1>0, <4>2
      <4> QED
        BY <4>1, <4>4, <4>5
    <3> QED
      BY <3>1, <3>2
  <2>2. Forward = Abs(a)
    BY <1>2, <1>4 DEF Forward
  <2>3. CASE b = Reach * o
    <3>1. Forward' = 2 * Reach - b * o
      BY <1>7, <1>10, <2>3 DEF Forward
    <3>2. 2 * Reach - Reach = Reach
      BY <1>0
    <3> QED
      BY <2>1, <2>2, <2>3, <3>1, <3>2
  <2>4. CASE b # Reach * o
    <3>1. Forward' = Abs(b)
      BY <1>7, <2>4 DEF Forward
    <3> QED
      BY <2>1, <2>2, <3>1
  <2> QED
    BY <2>3, <2>4
<1>17. b * o = a * o + 1
  BY <1>1, <1>3
<1>18. BodyAt'
  <2>1. PICK w \in Int : w = walks * 2 * Distance(Reach) /\ w = walks' * 2 * Distance(Reach)
    BY <1>0, <1>7 DEF RobotTypes, Distance
  <2>2. pos["body"][2] = w + (slips - 0) + a * o
    BY <1>0, <1>15, <1>16, <2>1 DEF BodyAt
  <2>3. pos'["body"][2] = w + (slips - 0) + b * o
    BY <1>0, <1>1, <1>8, <1>9, <1>17, <2>2 DEF RobotTypes
  <2>4. PICK s \in Int, h \in Int, g \in Int : s = slips /\ h = Height(a) /\ g = Height(b)
    BY <1>0, Heights DEF RobotTypes
  <2>5. slips - SlipsNow = s /\ slips' - SlipsNow' = s
    BY <1>0, <1>7, <1>15, <2>4 DEF RobotTypes
  <2>a. PICK c \in Int : c = s * Height(1)
    BY <2>4, Heights DEF LegHeight
  <2>6. pos["body"][1] = - h - c
    BY <1>0, <1>4, <2>4, <2>5, <2>a DEF BodyAt
  <2>7. pos'["body"][1] = - g - c
    BY <1>6, <1>8, <2>4, <2>6
  <2>8. turned'["left_leg"] = b
    BY <1>3, <1>8
  <2>9. pos'["body"][1] = - Height(turned'["left_leg"]) - (slips' - SlipsNow') * Height(1)
    BY <2>4, <2>5, <2>7, <2>8, <2>a
  <2>10. pos'["body"][2] = walks' * 2 * Distance(Reach) + (slips' - SlipsNow') + Forward'
    BY <1>16, <2>1, <2>3, <2>4, <2>5
  <2> QED
    BY <2>9, <2>10 DEF BodyAt
<1> QED
  BY <1>8, <1>12, <1>13, <1>14, <1>18 DEF RobotIInv

LEMMA SwingBackKeeps == RobotIInv /\ SwingBack => RobotIInv'
<1> SUFFICES ASSUME RobotIInv, SwingBack PROVE RobotIInv'
  OBVIOUS
<1>0. RobotTypes /\ InStep /\ WithinReach /\ BodyAt /\ Reach \in Nat \ {0}
  BY RobotAssumption DEF RobotIInv
<1>1. PICK o \in {-1, 1} : o = Outward
  BY <1>0, OutwardIs
<1>2. PICK a \in Int : a = left_current_angle
  BY <1>0 DEF RobotTypes
<1>3. PICK b \in Int : b = a - o
  OBVIOUS
<1>4. /\ phase = "back" /\ a * o \in 0 .. Reach
      /\ turned["left_leg"] = a /\ deltah_current = Height(a) /\ deltad_current = - o * a
  BY <1>0, <1>1, <1>2 DEF SwingBack, InStep, WithinReach
<1>5. (IF next_walk = "left" THEN Distance(b) ELSE - Distance(b)) = - o * b
  BY <1>0, <1>1, OutwardIs
<1>6. PICK y \in Int, z \in Int : y = Height(a) - Height(b) /\ z = (- o * b) - (- o * a)
  <2>1. Height(a) - Height(b) \in Int
    BY Heights
  <2>2. (- o * b) - (- o * a) \in Int
    BY <1>1
  <2> QED
    BY <2>1, <2>2
<1>7. /\ left_current_angle' = b /\ rotate_legs(- o) /\ move_body(y, z)
      /\ deltah_current' = Height(b) /\ deltad_current' = - o * b
      /\ slips' = (IF a = 0 THEN slips + 1 ELSE slips)
      /\ UNCHANGED <<next_walk, phase, walks>>
  BY <1>1, <1>2, <1>3, <1>4, <1>5, <1>6 DEF SwingBack
<1>8. /\ pos' \in [Part -> Int \X Int] /\ turned' \in [Leg -> Int] /\ Together'
      /\ pos'["body"][1] = pos["body"][1] + y /\ pos'["body"][2] = pos["body"][2] + z
      /\ turned'["left_leg"] = a + (- o)
  <2>1. PICK n \in Int : n = - o
    BY <1>1
  <2>2. rotate_legs(n) /\ move_body(y, z)
    BY <1>7, <2>1
  <2>3. turned'["left_leg"] = turned["left_leg"] + n
    BY <2>2, BodyMoved
  <2> QED
    BY <1>4, <2>1, <2>2, <2>3, BodyMoved
<1>9. z = 1
  BY <1>1, <1>3, <1>6
<1>10. Outward' = o
  BY <1>1, <1>7 DEF Outward
<1>11. b * o = a * o - 1 /\ (a = 0 <=> a * o = 0)
  BY <1>1, <1>3
<1>12. RobotTypes'
  <2>1. b \in Int /\ Height(b) \in Int /\ - o * b \in Int
    BY <1>1, Heights
  <2>2. left_current_angle' \in Int /\ deltah_current' \in Int /\ deltad_current' \in Int
    BY <1>7, <2>1
  <2>3. slips' \in Int /\ walks' \in Int /\ next_walk' \in {"left", "right"}
    BY <1>0, <1>7 DEF RobotTypes
  <2>4. phase' \in {"still", "out", "back"}
    BY <1>4, <1>7
  <2> QED
    BY <1>8, <2>2, <2>3, <2>4 DEF RobotTypes
<1>13. InStep'
  BY <1>3, <1>4, <1>7, <1>8, <1>10 DEF InStep
<1>14. WithinReach'
  BY <1>0, <1>4, <1>7, <1>10, <1>11 DEF WithinReach
<1>15. SlipsNow = 0 /\ SlipsNow' = (IF a = 0 THEN 1 ELSE 0) /\ slips' - SlipsNow' = slips
  <2>1. ~(a * o < 0) /\ (b * o < 0 <=> a = 0)
    BY <1>0, <1>4, <1>11
  <2> QED
    BY <1>0, <1>1, <1>2, <1>4, <1>7, <1>10, <2>1 DEF SlipsNow, RobotTypes
<1>16. Forward = 2 * Reach - a * o /\ Forward' = 2 * Reach - b * o
  BY <1>1, <1>2, <1>4, <1>7, <1>10 DEF Forward
<1>18. BodyAt'
  <2>1. PICK w \in Int : w = walks * 2 * Distance(Reach) /\ w = walks' * 2 * Distance(Reach)
    BY <1>0, <1>7 DEF RobotTypes, Distance
  <2>2. pos["body"][2] = w + (slips - 0) + (2 * Reach - a * o)
    BY <1>0, <1>15, <1>16, <2>1 DEF BodyAt
  <2>3. pos'["body"][2] = w + slips + (2 * Reach - b * o)
    BY <1>0, <1>1, <1>8, <1>9, <1>11, <2>2 DEF RobotTypes
  <2>4. PICK s \in Int, h \in Int, g \in Int : s = slips /\ h = Height(a) /\ g = Height(b)
    BY <1>0, Heights DEF RobotTypes
  <2>5. slips - SlipsNow = s /\ slips' - SlipsNow' = s
    BY <1>0, <1>15, <2>4 DEF RobotTypes
  <2>a. PICK c \in Int : c = s * Height(1)
    BY <2>4, Heights DEF LegHeight
  <2>6. pos["body"][1] = - h - c
    BY <1>0, <1>4, <2>4, <2>5, <2>a DEF BodyAt
  <2>7. pos'["body"][1] = - g - c
    BY <1>6, <1>8, <2>4, <2>6
  <2>8. turned'["left_leg"] = b
    BY <1>1, <1>3, <1>8
  <2>9. pos'["body"][1] = - Height(turned'["left_leg"]) - (slips' - SlipsNow') * Height(1)
    BY <2>4, <2>5, <2>7, <2>8, <2>a
  <2>10. pos'["body"][2] = walks' * 2 * Distance(Reach) + (slips' - SlipsNow') + Forward'
    BY <1>16, <2>1, <2>3, <2>4, <2>5
  <2> QED
    BY <2>9, <2>10 DEF BodyAt
<1> QED
  BY <1>8, <1>12, <1>13, <1>14, <1>18 DEF RobotIInv

LEMMA StraightenKeeps == RobotIInv /\ Straighten => RobotIInv'
<1> SUFFICES ASSUME RobotIInv, Straighten PROVE RobotIInv'
  OBVIOUS
<1>0. RobotTypes /\ Together /\ InStep /\ WithinReach /\ BodyAt /\ Reach \in Nat \ {0}
  BY RobotAssumption DEF RobotIInv
<1>1. PICK o \in {-1, 1} : o = Outward
  BY <1>0, OutwardIs
<1>2. PICK a \in Int : a = left_current_angle
  BY <1>0 DEF RobotTypes
<1>3. /\ phase = "back" /\ a * o \in {-1, 0} /\ turned["left_leg"] = a
      /\ rotate_legs(- a) /\ phase' = "still" /\ walks' = walks + 1
      /\ next_walk' \in {"left", "right"}
      /\ UNCHANGED <<left_current_angle, deltah_current, deltad_current, pos, slips>>
  BY <1>0, <1>1, <1>2 DEF Straighten, InStep, WithinReach
<1>4. move_body(0, 0)
  <2>1. pos \in [Part -> Int \X Int]
    BY <1>0 DEF RobotTypes
  <2>2. pos = [p \in Part |-> <<pos[p][1] + 0, pos[p][2] + 0>>]
    BY <2>1
  <2> QED
    BY <1>3, <2>2 DEF move_body
<1>5. turned' \in [Leg -> Int] /\ Together' /\ turned'["left_leg"] = a + (- a)
  <2>1. - a \in Int
    OBVIOUS
  <2> QED
    BY <1>3, <1>4, <2>1, BodyMoved
<1>6. RobotTypes' /\ InStep' /\ WithinReach'
  BY <1>0, <1>3, <1>5 DEF RobotTypes, InStep, WithinReach
<1>7. SlipsNow = (IF a * o = 0 THEN 0 ELSE 1) /\ Forward = 2 * Reach - a * o
  BY <1>1, <1>2, <1>3 DEF SlipsNow, Forward
<1>8. SlipsNow' = 0 /\ Forward' = 0
  BY <1>3 DEF SlipsNow, Forward
<1>9. Height(a) = (IF a * o = 0 THEN 0 ELSE LegHeight)
  <2>1. CASE a * o = 0
    BY <1>1, <2>1, Heights
  <2>2. CASE a * o # 0
    <3>1. a = 1 \/ a = -1
      BY <1>1, <1>3, <2>2
    <3> QED
      BY <2>2, <3>1, Heights
  <2> QED
    BY <2>1, <2>2
<1>10. BodyAt'
  <2>1. PICK w \in Int : w = walks * 2 * Distance(Reach)
    BY <1>0 DEF RobotTypes, Distance
  <2>2. walks' * 2 * Distance(Reach) = w + 2 * Reach
    BY <1>0, <1>3, <2>1 DEF RobotTypes, Distance
  <2>3. PICK k \in {-1, 0} : k = a * o
    BY <1>3
  <2>4. pos["body"][2] = w + (slips - (IF k = 0 THEN 0 ELSE 1)) + (2 * Reach - k)
    BY <1>0, <1>7, <2>1, <2>3 DEF BodyAt
  <2>5. pos["body"][2] = (w + 2 * Reach) + (slips - 0) + 0
    BY <1>0, <2>4 DEF RobotTypes
  <2>a. PICK s \in Int : s = slips
    BY <1>0 DEF RobotTypes
  <2>6. pos["body"][1] =
          - (IF k = 0 THEN 0 ELSE LegHeight) - (s - (IF k = 0 THEN 0 ELSE 1)) * LegHeight
    BY <1>0, <1>3, <1>7, <1>9, <2>3, <2>a, Heights DEF BodyAt
  <2>7. pos["body"][1] = - 0 - (s - 0) * LegHeight
    BY <2>6 DEF LegHeight
  <2>8. turned'["left_leg"] = 0
    BY <1>5
  <2> QED
    BY <1>3, <1>8, <2>2, <2>5, <2>7, <2>8, <2>a, Heights DEF BodyAt
<1> QED
  BY <1>5, <1>6, <1>10 DEF RobotIInv

LEMMA WalkKeeps == RobotIInv /\ walk => RobotIInv'
<1> SUFFICES ASSUME RobotIInv, walk PROVE RobotIInv'
  OBVIOUS
<1>0. RobotTypes /\ Together /\ InStep /\ BodyAt /\ Reach \in Nat \ {0}
  BY RobotAssumption DEF RobotIInv
<1>1. /\ phase = "still" /\ phase' = "out" /\ turned["left_leg"] = 0
      /\ left_current_angle' = 0 /\ deltah_current' = 0 /\ deltad_current' = 0
      /\ UNCHANGED <<next_walk, pos, turned, walks, slips>>
  BY <1>0 DEF walk, InStep
<1>2. RobotTypes' /\ Together'
  BY <1>0, <1>1 DEF RobotTypes, Together
<1>3. Outward' = Outward /\ Outward \in {-1, 1}
  BY <1>0, <1>1, OutwardIs DEF Outward
<1>4. InStep' /\ WithinReach'
  BY <1>0, <1>1, <1>3, Heights DEF InStep, WithinReach
<1>5. SlipsNow = 0 /\ SlipsNow' = 0 /\ Forward = 0 /\ Forward' = 0
  BY <1>1 DEF SlipsNow, Forward, Abs
<1>6. BodyAt'
  BY <1>0, <1>1, <1>5 DEF BodyAt
<1> QED
  BY <1>2, <1>4, <1>6 DEF RobotIInv

\* What the robot keeps.
LEMMA RobotKeepsUpright ==
  /\ RobotInit => RobotIInv
  /\ RobotIInv /\ [RobotNext]_robotVars => RobotIInv'
  /\ RobotIInv => WalksUpright
<1>1. RobotIInv /\ UNCHANGED robotVars => RobotIInv'
  BY DEF robotVars, RobotIInv, RobotTypes, Together, InStep, WithinReach, BodyAt, Outward, SlipsNow, Forward
<1>2. RobotIInv => WalksUpright
  <2> SUFFICES ASSUME RobotIInv PROVE WalksUpright
    OBVIOUS
  <2>1. \A p, q \in Part : pos[p] = pos[q]
    BY DEF RobotIInv, Together
  <2>2. turned["left_leg"] = - turned["right_leg"]
    <3>1. turned["left_leg"] \in Int /\ turned["right_leg"] \in Int
      BY DEF RobotIInv, RobotTypes, Leg
    <3> QED
      BY <3>1 DEF RobotIInv, Together
  <2>3. phase = "still" => turned["left_leg"] = 0
    BY DEF RobotIInv, InStep
  <2>4. ASSUME NEW leg \in Leg
        PROVE  Foot(leg) = - Sinking - (slips - SlipsNow) * Height(1)
    <3>1. PICK a \in Int : a = turned["left_leg"]
      BY DEF RobotIInv, RobotTypes, Leg
    <3>2. turned[leg] * turned[leg] = a * a
      <4>1. turned[leg] \in Int /\ (turned[leg] = a \/ turned[leg] = - a)
        <5>1. turned["right_leg"] \in Int
          BY DEF RobotIInv, RobotTypes, Leg
        <5> QED
          BY <2>2, <3>1, <5>1 DEF Leg
      <4> QED
        BY <4>1
    <3>3. PICK c \in Int : c = (slips - SlipsNow) * Height(1)
      BY Heights DEF RobotIInv, RobotTypes, SlipsNow, LegHeight
    <3>4. pos[leg][1] = - Height(a) - c
      <4>1. leg \in Part /\ "body" \in Part
        BY DEF Leg, Part
      <4> QED
        BY <2>1, <3>1, <3>3, <4>1 DEF RobotIInv, BodyAt
    <3>5. PICK q \in Int : q = a * a
      OBVIOUS
    <3>6. - LegHeight * q - c + HipToFoot * q = - (LegHeight - HipToFoot) * q - c
      BY DEF LegHeight, HipToFoot
    <3>7. Foot(leg) = - LegHeight * q - c + HipToFoot * q
      BY <3>2, <3>4, <3>5 DEF Foot, Height, LegHeight, HipToFoot
    <3>8. - Sinking = - (LegHeight - HipToFoot) * q
      BY <3>1, <3>5 DEF Sinking, LegHeight, HipToFoot
    <3> QED
      BY <3>3, <3>6, <3>7, <3>8
  <2>5. pos["body"][2] = walks * 2 * Distance(Reach) + (slips - SlipsNow) + Forward
    BY DEF RobotIInv, BodyAt
  <2> QED
    BY <2>1, <2>2, <2>3, <2>4, <2>5 DEF WalksUpright
<1> QED
  BY <1>1, <1>2, RobotInitIInv, WalkKeeps, SwingOutKeeps, SwingBackKeeps, StraightenKeeps DEF RobotNext

-----------------------------------------------------------------------------
(***************************************************************************)
(* The commands to the radio (drivers/cc2500.c and                         *)
(* platform/ez/dev/cc2500.c over the SPI functions of cpu/ez430/usci.c),   *)
(* for every set of registers, values and strobes. The invariant counts    *)
(* octets: as many are on their way or waiting in the receive buffer as    *)
(* commands wait for one (Outstanding), so that a command that was         *)
(* interrupted in its frame still gets an octet, if not its own. A command *)
(* that runs by itself is at each of its octets where the chip and the     *)
(* results are as ChipAfter, FrameAfter and GotAfter say.                  *)
(***************************************************************************)

SpiPc == {"idle", "select", "send", "take", "settle", "deselect", "done", "hung"}
RadioHeld == RadioValue \cup {Odd, 0, "first", "second"}
Octets ==
  {<<"strobe", s>> : s \in Strobe} \cup {<<"data", d>> : d \in RadioHeld} \cup RadioHeader
Chips ==
  [reg : [RadioRegister -> RadioHeld], strobes : Seq(Strobe), tx : Seq(RadioHeld), rx : Int]
Contexts ==
  [pc : SpiPc, cmd : Command \cup {<<"none">>}, i : 0 .. 3, got : Seq(RadioHeld \cup Int),
   before : Chips \cup {<<>>}, crossed : BOOLEAN]

\* The octets of a command, the functions that send them, and how many there are.
Count(c) ==
  CASE c[1] = "strobe" -> 1
    [] c[1] \in {"read", "write"} -> 2
    [] OTHER -> 3
FnAt(c, k) ==
  CASE k > 1 /\ c[1] = "txfifo" -> "spi_write"
    [] k > 1 /\ c[1] \in {"read", "rxfifo"} -> "spi_read_single"
    [] OTHER -> "spi_write_single"
OctetAt(c, k) ==
  CASE k = 1 /\ c[1] = "write" -> <<"write", c[2]>>
    [] k = 1 /\ c[1] # "write" -> c
    [] k # 1 /\ c[1] = "write" -> <<"data", c[3]>>
    [] k # 1 /\ c[1] = "txfifo" -> <<"data", FifoData[k - 1]>>
    [] OTHER -> <<"data", 0>>

LEMMA Kinds ==
  ASSUME NEW c \in Command
  PROVE  \/ \E s \in Strobe : c = <<"strobe", s>> /\ c[1] = "strobe" /\ c[2] = s
         \/ \E r \in RadioRegister : c = <<"read", r>> /\ c[1] = "read" /\ c[2] = r
         \/ \E r \in RadioRegister, v \in RadioValue :
              c = <<"write", r, v>> /\ c[1] = "write" /\ c[2] = r /\ c[3] = v
         \/ c = <<"txfifo">> /\ c[1] = "txfifo"
         \/ c = <<"rxfifo">> /\ c[1] = "rxfifo"
BY DEF Command

LEMMA FifoDatas == FifoData[1] = "first" /\ FifoData[2] = "second" /\ DOMAIN FifoData = 1 .. 2
BY DEF FifoData

LEMMA TransfersAre ==
  ASSUME NEW c \in Command
  PROVE  /\ Count(c) \in 1 .. 3 /\ Len(Transfers(c)) = Count(c)
         /\ \A k \in 1 .. Count(c) :
              /\ Transfers(c)[k].fn = FnAt(c, k)
              /\ Transfers(c)[k].octet = OctetAt(c, k)
<1> USE DEF Count, FnAt, OctetAt, Transfers, single, read
<1>1. CASE c[1] = "strobe"
  BY <1>1
<1>2. CASE c[1] = "read"
  BY <1>2
<1>3. CASE c[1] = "write"
  BY <1>3
<1>4. CASE c[1] = "txfifo"
  <2> DEFINE S == [k \in DOMAIN FifoData |-> [fn |-> "spi_write", octet |-> <<"data", FifoData[k]>>]]
             T == <<[fn |-> "spi_write_single", octet |-> c]>>
  <2>1. S = <<[fn |-> "spi_write", octet |-> <<"data", "first">>], [fn |-> "spi_write", octet |-> <<"data", "second">>]>>
    BY FifoDatas
  <2>2. Transfers(c) = T \o S
    BY <1>4
  <2>3. Transfers(c) = <<[fn |-> "spi_write_single", octet |-> c], [fn |-> "spi_write", octet |-> <<"data", "first">>], [fn |-> "spi_write", octet |-> <<"data", "second">>]>>
    <3> HIDE DEF Transfers, S
    <3> QED BY <2>1, <2>2, ShortJoin
  <2>4. Count(c) = 3
    BY <1>4
  <2>5. \A k \in 1 .. 3 : k = 1 \/ k = 2 \/ k = 3
    OBVIOUS
  <2> HIDE DEF Transfers
  <2> QED
    BY <1>4, <2>3, <2>4, <2>5, FifoDatas
<1>5. CASE c[1] = "rxfifo"
  BY <1>5
<1> QED
  BY <1>1, <1>2, <1>3, <1>4, <1>5, Kinds

LEMMA OctetsAre ==
  ASSUME NEW c \in Command, NEW k \in 1 .. Count(c)
  PROVE  OctetAt(c, k) \in Octets
<1> USE DEF Count, OctetAt, Octets, RadioHeader, RadioHeld
<1>1. CASE c[1] = "strobe"
  BY <1>1, Kinds
<1>2. CASE c[1] = "read"
  BY <1>2, Kinds
<1>3. CASE c[1] = "write"
  BY <1>3, Kinds
<1>4. CASE c[1] = "txfifo"
  BY <1>4, Kinds, FifoDatas
<1>5. CASE c[1] = "rxfifo"
  BY <1>5, Kinds
<1> QED
  BY <1>1, <1>2, <1>3, <1>4, <1>5, Kinds

\* What the chip and its frame are k octets into a command it found as it was b,
\* and what the reads have returned.
FrameAfter(c, k) ==
  CASE k = 0 \/ c[1] = "strobe" \/ (c[1] = "write" /\ k = 2) -> <<"header">>
    [] c[1] = "read" /\ k = 2 -> <<"read", Odd>>
    [] OTHER -> OctetAt(c, 1)
ChipAfter(c, b, k) ==
  CASE c[1] = "strobe" /\ k = 1 -> [b EXCEPT !.strobes = Append(@, c[2])]
    [] c[1] = "write" /\ k = 2 -> [b EXCEPT !.reg[c[2]] = c[3]]
    [] c[1] = "txfifo" /\ k = 2 -> [b EXCEPT !.tx = Append(@, "first")]
    [] c[1] = "txfifo" /\ k = 3 -> [b EXCEPT !.tx = Append(Append(@, "first"), "second")]
    [] c[1] = "rxfifo" /\ k = 2 -> [b EXCEPT !.rx = @ + 1]
    [] c[1] = "rxfifo" /\ k = 3 -> [b EXCEPT !.rx = @ + 2]
    [] OTHER -> b
GotAfter(c, b, k) ==
  CASE c[1] = "read" /\ k = 2 -> <<b.reg[c[2]]>>
    [] c[1] = "rxfifo" /\ k = 2 -> <<b.rx + 1>>
    [] c[1] = "rxfifo" /\ k = 3 -> <<b.rx + 1, b.rx + 2>>
    [] OTHER -> <<>>

\* What a whole command leaves is what it is for.
LEMMA WholeCommand ==
  ASSUME NEW c \in Command, NEW b \in Chips
  PROVE  /\ ChipAfter(c, b, Count(c)) = Effect(c, b)
         /\ GotAfter(c, b, Count(c)) = Result(c, b)
         /\ ChipAfter(c, b, 0) = b /\ FrameAfter(c, 0) = <<"header">>
         /\ GotAfter(c, b, 0) = <<>>
<1> USE DEF Count, ChipAfter, GotAfter, FrameAfter, Effect, Result
<1>1. CASE c[1] = "strobe"
  BY <1>1
<1>2. CASE c[1] = "read"
  BY <1>2
<1>3. CASE c[1] = "write"
  BY <1>3
<1>4. CASE c[1] = "txfifo"
  <2>1. b.tx \in Seq(RadioHeld)
    BY DEF Chips
  <2>2. Append(Append(b.tx, "first"), "second") = b.tx \o FifoData
    BY <2>1 DEF FifoData
  <2> QED
    BY <1>4, <2>2
<1>5. CASE c[1] = "rxfifo"
  BY <1>5
<1> QED
  BY <1>1, <1>2, <1>3, <1>4, <1>5, Kinds

LEMMA SecondAppended ==
  ASSUME NEW p, NEW q
  PROVE  Append(<<p>>, q) = <<p, q>>
<1> DEFINE S == {p, q}
           s == Append(<<p>>, q)
           t == <<p, q>>
<1>1. <<p>> \in Seq(S) /\ t \in Seq(S) /\ Len(t) = 2
  OBVIOUS
<1>2. s \in Seq(S) /\ Len(s) = 2
  BY <1>1
<1>3. s[1] = p /\ s[2] = q /\ t[1] = p /\ t[2] = q
  BY <1>1
<1>4. \A k \in 1 .. Len(s) : s[k] = t[k]
  BY <1>2, <1>3
<1>5. t \in Seq(S) /\ Len(s) = Len(t)
  BY <1>1, <1>2
<1>6. s = t
  <2> HIDE DEF s, t, S
  <2> QED
    BY <1>2, <1>4, <1>5, SeqEqual
<1> QED
  BY <1>6

\* The next octet of a command does what it should, and is answered.
LEMMA NextOctet ==
  ASSUME NEW c \in Command, NEW b \in Chips, NEW k \in 1 .. Count(c),
         chip = ChipAfter(c, b, k - 1), chip_frame = FrameAfter(c, k - 1)
  PROVE  /\ ChipTakes(OctetAt(c, k)) = {<<ChipAfter(c, b, k), FrameAfter(c, k)>>}
         /\ FnAt(c, k) = "spi_read_single" =>
              GotAfter(c, b, k) = Append(GotAfter(c, b, k - 1), Answer)
         /\ FnAt(c, k) # "spi_read_single" => GotAfter(c, b, k) = GotAfter(c, b, k - 1)
<1> USE DEF Count, ChipAfter, GotAfter, FrameAfter, OctetAt, FnAt, ChipTakes, Answer, SentAs
<1>0. b.tx \in Seq(RadioHeld) /\ b.rx \in Int /\ b.reg \in [RadioRegister -> RadioHeld]
  BY DEF Chips
<1>1. CASE c[1] = "strobe"
  <2>1. PICK s \in Strobe : c = <<"strobe", s>>
    BY <1>1, Kinds
  <2>2. k = 1
    BY <1>1
  <2>3. chip = b /\ chip_frame = <<"header">>
    BY <1>1, <2>2
  <2>4. OctetAt(c, k) = c /\ c[1] = "strobe" /\ FnAt(c, k) = "spi_write_single"
    BY <1>1, <2>2
  <2>5. ChipAfter(c, b, k) = [b EXCEPT !.strobes = Append(@, c[2])] /\ FrameAfter(c, k) = <<"header">>
    BY <1>1, <2>2
  <2>6. ChipTakes(c) = {<<[chip EXCEPT !.strobes = Append(@, c[2])], chip_frame>>}
    BY <1>1, <2>3 DEF ChipTakes
  <2>7. [b EXCEPT !.strobes = Append(@, c[2])] = [chip EXCEPT !.strobes = Append(@, c[2])]
    BY <2>3
  <2>8. GotAfter(c, b, k) = <<>> /\ GotAfter(c, b, k - 1) = <<>>
    BY <1>1, <2>2
  <2> HIDE DEF Count, ChipAfter, GotAfter, FrameAfter, OctetAt, FnAt, ChipTakes, Answer, SentAs
  <2> QED
    BY <2>7, <2>8, <1>1, <2>2, <2>3, <2>4, <2>5, <2>6
<1>2. CASE c[1] = "read"
  <2>1. PICK r \in RadioRegister : c = <<"read", r>>
    BY <1>2, Kinds
  <2>2. r # Odd
    BY SpiAssumption
  <2>3. CASE k = 1
    BY <1>2, <2>1, <2>3
  <2>4. CASE k = 2
    BY <1>2, <2>1, <2>2, <2>4
  <2> QED
    BY <1>2, <2>3, <2>4
<1>3. CASE c[1] = "write"
  <2>1. PICK r \in RadioRegister, v \in RadioValue : c = <<"write", r, v>>
    BY <1>3, Kinds
  <2>3. CASE k = 1
    BY <1>3, <2>1, <2>3
  <2>4. CASE k = 2
    BY <1>3, <2>1, <2>4
  <2> QED
    BY <1>3, <2>3, <2>4
<1>4. CASE c[1] = "txfifo"
  <2>1. c = <<"txfifo">>
    BY <1>4, Kinds
  <2>3. CASE k = 1
    BY <1>4, <2>1, <2>3
  <2>4. CASE k = 2
    BY <1>4, <2>1, <2>4, FifoDatas
  <2>5. CASE k = 3
    <3>1. chip = [b EXCEPT !.tx = Append(@, "first")] /\ chip_frame = <<"txfifo">>
      BY <1>4, <2>1, <2>5
    <3>2. chip.tx = Append(b.tx, "first")
      BY <3>1 DEF Chips
    <3>3. ChipAfter(c, b, 3) = [b EXCEPT !.tx = Append(Append(b.tx, "first"), "second")]
      BY <1>4, <2>1
    <3>4. [chip EXCEPT !.tx = Append(@, "second")] = [b EXCEPT !.tx = Append(chip.tx, "second")]
      BY <3>1 DEF Chips
    <3>5. OctetAt(c, 3) = <<"data", "second">> /\ FrameAfter(c, 3) = <<"txfifo">>
      BY <1>4, <2>1, FifoDatas
    <3>6. ChipTakes(<<"data", "second">>) = {<<[chip EXCEPT !.tx = Append(@, "second")], chip_frame>>}
      <4>1. /\ chip_frame = <<"txfifo">> /\ chip_frame[1] = "txfifo" /\ chip_frame # <<"header">>
            /\ chip_frame[1] # "write" /\ chip_frame[1] # "read"
        BY <3>1
      <4>2. SentAs(<<"data", "second">>) = "second"
        OBVIOUS
      <4> HIDE DEF Count, ChipAfter, GotAfter, FrameAfter, OctetAt, FnAt, Answer, SentAs
      <4> QED
        BY ONLY <4>1, <4>2 DEF ChipTakes
    <3>7. FnAt(c, 3) = "spi_write" /\ GotAfter(c, b, 3) = <<>> /\ GotAfter(c, b, 2) = <<>>
      BY <1>4
    <3> HIDE DEF Count, ChipAfter, GotAfter, FrameAfter, OctetAt, FnAt, ChipTakes, Answer, SentAs
    <3>8. ChipTakes(OctetAt(c, 3)) = {<<ChipAfter(c, b, 3), FrameAfter(c, 3)>>}
      BY <3>1, <3>2, <3>3, <3>4, <3>5, <3>6
    <3>9. FnAt(c, 3) # "spi_read_single"
      BY <3>4, <3>6, <3>7
    <3>10. k - 1 = 2
      BY <2>5
    <3> QED
      BY <2>5, <3>4, <3>7, <3>8, <3>9, <3>10
  <2>6. k = 1 \/ k = 2 \/ k = 3
    BY <1>4
  <2> QED
    BY <2>3, <2>4, <2>5, <2>6
<1>5. CASE c[1] = "rxfifo"
  <2>1. c = <<"rxfifo">>
    BY <1>5, Kinds
  <2>3. CASE k = 1
    BY <1>5, <2>1, <2>3
  <2>4. CASE k = 2
    BY <1>0, <1>5, <2>1, <2>4
  <2>5. CASE k = 3
    <3>1. chip = [b EXCEPT !.rx = @ + 1] /\ chip_frame = <<"rxfifo">> /\ chip.rx = b.rx + 1
      BY <1>5, <2>1, <2>5 DEF Chips
    <3>2. ChipAfter(c, b, 3) = [b EXCEPT !.rx = b.rx + 2]
      BY <1>5, <2>1
    <3>3. [chip EXCEPT !.rx = @ + 1] = [b EXCEPT !.rx = b.rx + 2]
      <4>1. chip.rx + 1 = b.rx + 2
        BY <1>0, <3>1
      <4>2. [chip EXCEPT !.rx = @ + 1] = [b EXCEPT !.rx = chip.rx + 1]
        BY <3>1 DEF Chips
      <4> QED
        BY <4>1, <4>2
    <3>4. OctetAt(c, 3) = <<"data", 0>> /\ FrameAfter(c, 3) = <<"rxfifo">> /\ FnAt(c, 3) = "spi_read_single"
      BY <1>5, <2>1
    <3>5. ChipTakes(<<"data", 0>>) = {<<[chip EXCEPT !.rx = @ + 1], chip_frame>>}
      <4>1. chip_frame[1] = "rxfifo" /\ chip_frame # <<"header">>
        BY <3>1
      <4> QED
        BY <4>1
    <3>6. Answer = b.rx + 2
      BY <1>0, <3>1
    <3>7. GotAfter(c, b, 3) = <<b.rx + 1, b.rx + 2>> /\ GotAfter(c, b, 2) = <<b.rx + 1>>
      BY <1>5
    <3> HIDE DEF Count, ChipAfter, GotAfter, FrameAfter, OctetAt, FnAt, ChipTakes, Answer, SentAs
    <3>8. ChipTakes(OctetAt(c, 3)) = {<<ChipAfter(c, b, 3), FrameAfter(c, 3)>>}
      BY <3>1, <3>2, <3>3, <3>4, <3>5, <3>6
    <3>9. GotAfter(c, b, 3) = Append(GotAfter(c, b, 2), Answer)
      <4>1. Append(<<b.rx + 1>>, b.rx + 2) = <<b.rx + 1, b.rx + 2>>
        BY SecondAppended
      <4> QED
        BY <4>1, <3>6, <3>7
    <3>10. k - 1 = 2
      BY <2>5
    <3> QED
      BY <2>5, <3>4, <3>7, <3>8, <3>9, <3>10
  <2>6. k = 1 \/ k = 2 \/ k = 3
    BY <1>5
  <2> QED
    BY <2>3, <2>4, <2>5, <2>6
<1> QED
  BY <1>1, <1>2, <1>3, <1>4, <1>5, Kinds

\* Whatever octet comes, the chip stays one.
LEMMA ChipStays ==
  ASSUME chip \in Chips, chip_frame \in RadioFrame, NEW o \in Octets,
         NEW outcome \in ChipTakes(o)
  PROVE  outcome[1] \in Chips /\ outcome[2] \in RadioFrame
<1>0. chip.tx \in Seq(RadioHeld) /\ chip.strobes \in Seq(Strobe) /\ chip.rx \in Int
      /\ chip.reg \in [RadioRegister -> RadioHeld]
  BY DEF Chips
<1>1. PICK d \in RadioHeld : d = SentAs(o)
  BY DEF SentAs, Octets, RadioHeader, RadioHeld
<1>2. CASE chip_frame = <<"header">> /\ o[1] = "strobe"
  <2>1. o[2] \in Strobe
    BY <1>2 DEF Octets, RadioHeader
  <2>2. outcome = <<[chip EXCEPT !.strobes = Append(@, o[2])], chip_frame>>
    BY <1>2 DEF ChipTakes
  <2>3. Append(chip.strobes, o[2]) \in Seq(Strobe)
    BY <1>0, <2>1
  <2> QED
    BY <2>2, <2>3 DEF Chips
<1>3. CASE chip_frame = <<"header">> /\ o[1] = "data"
  BY <1>3 DEF ChipTakes
<1>4. CASE chip_frame = <<"header">> /\ o[1] \notin {"strobe", "data"}
  <2>1. o \in RadioHeader
    BY <1>4 DEF Octets
  <2>2. outcome = <<chip, o>>
    BY <1>4 DEF ChipTakes
  <2> QED
    BY <2>1, <2>2 DEF RadioFrame
<1>5. CASE chip_frame[1] = "write"
  <2>1. PICK r \in RadioRegister : chip_frame = <<"write", r>>
    BY <1>5 DEF RadioFrame, RadioHeader
  <2>2. outcome = <<[chip EXCEPT !.reg[chip_frame[2]] = SentAs(o)], <<"header">> >>
    BY <1>5, <2>1 DEF ChipTakes
  <2>3. [chip EXCEPT !.reg[r] = d] \in Chips
    BY <1>0 DEF Chips
  <2> QED
    BY <1>1, <2>1, <2>2, <2>3 DEF RadioFrame
<1>6. CASE chip_frame[1] = "read"
  <2>1. chip_frame # <<"header">>
    BY <1>6
  <2>2. outcome = <<chip, <<"read", Odd>> >>
    BY <1>6, <2>1 DEF ChipTakes
  <2> QED
    BY <2>2 DEF RadioFrame
<1>7. CASE chip_frame[1] = "txfifo"
  <2>1. chip_frame # <<"header">>
    BY <1>7
  <2>2. outcome = <<[chip EXCEPT !.tx = Append(@, SentAs(o))], chip_frame>>
    BY <1>7, <2>1 DEF ChipTakes
  <2>3. Append(chip.tx, d) \in Seq(RadioHeld)
    BY <1>0
  <2> QED
    BY <1>1, <2>2, <2>3 DEF Chips
<1>8. CASE chip_frame[1] = "rxfifo"
  <2>1. chip_frame # <<"header">>
    BY <1>8
  <2>2. outcome = <<[chip EXCEPT !.rx = @ + 1], chip_frame>>
    BY <1>8, <2>1 DEF ChipTakes
  <2>3. PICK n \in Int : n = chip.rx + 1
    BY <1>0
  <2>4. [chip EXCEPT !.rx = n] \in Chips
    BY <1>0 DEF Chips
  <2> QED
    BY <2>2, <2>3, <2>4
<1>9. chip_frame = <<"header">> \/ chip_frame[1] \in {"write", "read", "txfifo", "rxfifo"}
  BY DEF RadioFrame, RadioHeader
<1> QED
  BY <1>2, <1>3, <1>4, <1>5, <1>6, <1>7, <1>8, <1>9

LEMMA AnswerType ==
  ASSUME chip \in Chips, chip_frame \in RadioFrame
  PROVE  Answer \in RadioHeld \cup Int
<1>0. chip.rx \in Int /\ chip.reg \in [RadioRegister -> RadioHeld] /\ Odd \in RadioHeld
  BY DEF Chips, RadioHeld
<1>1. chip_frame[1] = "read" => chip_frame[2] = Odd \/ chip_frame[2] \in RadioRegister
  BY DEF RadioFrame, RadioHeader
<1>2. CASE chip_frame[1] = "read"
  BY <1>0, <1>1, <1>2 DEF Answer
<1>3. CASE chip_frame[1] = "rxfifo"
  BY <1>0, <1>3 DEF Answer
<1>4. CASE chip_frame[1] \notin {"read", "rxfifo"}
  BY <1>0, <1>4 DEF Answer
<1> QED
  BY <1>2, <1>3, <1>4

\* The contexts that the functions make of a context.
LEMMA ContextFields ==
  ASSUME NEW ctx \in Contexts
  PROVE  /\ ctx.pc \in SpiPc /\ ctx.cmd \in Command \cup {<<"none">>} /\ ctx.i \in 0 .. 3
         /\ ctx.got \in Seq(RadioHeld \cup Int) /\ ctx.before \in Chips \cup {<<>>}
         /\ ctx.crossed \in BOOLEAN
BY DEF Contexts

LEMMA CtxGoesOn ==
  ASSUME NEW ctx \in Contexts, ctx.cmd \in Command, ctx.i \in 1 .. Count(ctx.cmd)
  PROVE  /\ GoOn(ctx) \in Contexts
         /\ GoOn(ctx).cmd = ctx.cmd /\ GoOn(ctx).got = ctx.got
         /\ GoOn(ctx).before = ctx.before /\ GoOn(ctx).crossed = ctx.crossed
         /\ ctx.i = Count(ctx.cmd) => GoOn(ctx).pc = "deselect" /\ GoOn(ctx).i = ctx.i
         /\ ctx.i < Count(ctx.cmd) => GoOn(ctx).pc = "send" /\ GoOn(ctx).i = ctx.i + 1
<1>1. Len(Transfers(ctx.cmd)) = Count(ctx.cmd) /\ Count(ctx.cmd) \in 1 .. 3
  BY TransfersAre
<1>2. CASE ctx.i = Count(ctx.cmd)
  <2>1. GoOn(ctx) = [ctx EXCEPT !.pc = "deselect"]
    BY <1>1, <1>2 DEF GoOn, IsLast
  <2> QED
    BY <1>2, <2>1 DEF Contexts, SpiPc
<1>3. CASE ctx.i < Count(ctx.cmd)
  <2>1. GoOn(ctx) = [ctx EXCEPT !.pc = "send", !.i = @ + 1]
    BY <1>1, <1>3 DEF GoOn, IsLast
  <2>2. PICK n \in 0 .. 3 : n = ctx.i + 1
    BY <1>1, <1>3
  <2>3. GoOn(ctx) = [ctx EXCEPT !.pc = "send", !.i = n]
    BY <2>1, <2>2
  <2>4. GoOn(ctx) \in Contexts
    BY <2>3 DEF Contexts, SpiPc
  <2> QED
    BY <1>3, <2>2, <2>3, <2>4 DEF Contexts
<1> QED
  BY <1>1, <1>2, <1>3

LEMMA CurrentIs ==
  ASSUME NEW ctx, ctx.cmd \in Command, ctx.i \in 1 .. Count(ctx.cmd)
  PROVE  /\ Current(ctx).fn = FnAt(ctx.cmd, ctx.i) /\ Current(ctx).octet = OctetAt(ctx.cmd, ctx.i)
         /\ Current(ctx).octet \in Octets
         /\ IsLast(ctx) <=> ctx.i = Count(ctx.cmd)
BY TransfersAre, OctetsAre DEF Current, IsLast

LEMMA NoCommandType ==
  /\ NoCommand \in Contexts /\ NoCommand.pc = "idle" /\ ~NoCommand.crossed
  /\ \A c \in Command :
       /\ Begun(c) \in Contexts /\ Begun(c).pc = "select" /\ Begun(c).cmd = c /\ Begun(c).i = 1
       /\ Begun(c).got = <<>> /\ ~Begun(c).crossed
<1>1. <<>> \in Seq(RadioHeld \cup Int)
  OBVIOUS
<1>2. NoCommand \in Contexts
  BY <1>1 DEF NoCommand, Contexts, SpiPc
<1>3. NoCommand.got = <<>> /\ ~NoCommand.crossed /\ NoCommand.pc = "idle"
  BY DEF NoCommand
<1>4. ASSUME NEW c \in Command
      PROVE  /\ Begun(c) \in Contexts /\ Begun(c).pc = "select" /\ Begun(c).cmd = c
             /\ Begun(c).i = 1 /\ Begun(c).got = <<>> /\ ~Begun(c).crossed
  <2>1. Begun(c) = [NoCommand EXCEPT !.pc = "select", !.cmd = c, !.i = 1]
    BY DEF Begun
  <2>2. Begun(c) \in Contexts
    <3>1. PICK d \in Command \cup {<<"none">>}, p \in SpiPc, n \in 0 .. 3 : d = c /\ p = "select" /\ n = 1
      BY DEF SpiPc
    <3>2. Begun(c) = [NoCommand EXCEPT !.pc = p, !.cmd = d, !.i = n]
      BY <2>1, <3>1
    <3> QED
      BY <1>2, <3>2 DEF Contexts
  <2>3. Begun(c).got = NoCommand.got /\ Begun(c).crossed = NoCommand.crossed
    BY <1>2, <2>1 DEF Contexts
  <2>4. Begun(c).pc = "select" /\ Begun(c).cmd = c /\ Begun(c).i = 1
    BY <1>2, <2>1 DEF Contexts
  <2> QED
    BY <1>3, <2>2, <2>3, <2>4
<1> QED
  BY <1>2, <1>3, <1>4

SpiTypes ==
  /\ chip \in Chips /\ chip_frame \in RadioFrame
  /\ CSn \in BOOLEAN /\ UCB0RXIFG \in BOOLEAN
  /\ shifting \in Seq(Octets) /\ UCB0RXBUF \in RadioHeld \cup Int
  /\ foreground \in Contexts /\ irq \in Contexts /\ todo \in Seq(Command)

\* A command under way is one, at one of its octets.
SpiSound(ctx) ==
  /\ ctx.pc # "hung"
  /\ ctx.pc # "idle" => ctx.cmd \in Command /\ ctx.i \in 1 .. Count(ctx.cmd)
  /\ ctx.pc = "select" => ctx.got = <<>> /\ ctx.i = 1
  /\ ctx.pc \notin {"idle", "select"} => ctx.before \in Chips

\* An octet on its way or waiting for each that waits for one.
SpiWaits(ctx) == IF ctx.pc = "take" THEN 1 ELSE 0
Flag(ifg) == IF ifg THEN 1 ELSE 0
Outstanding ==
  Len(shifting) + Flag(UCB0RXIFG) = SpiWaits(foreground) + SpiWaits(irq)

Between ==
  ~InFrame(foreground) /\ ~InFrame(irq) => CSn /\ chip_frame = <<"header">>

\* How far a command has got by itself.
Arrived(ctx, ch, fr, k) ==
  ch = ChipAfter(ctx.cmd, ctx.before, k) /\ fr = FrameAfter(ctx.cmd, k)
ProgressOf(ctx, cs, ch, fr, sh, ifg, buf) ==
  /\ ~cs
  /\ ctx.pc = "send" =>
       /\ Arrived(ctx, ch, fr, ctx.i - 1)
       /\ ctx.got = GotAfter(ctx.cmd, ctx.before, ctx.i - 1)
  /\ ctx.pc = "take" =>
       /\ ctx.got = GotAfter(ctx.cmd, ctx.before, ctx.i - 1)
       /\ ~ifg => sh = <<OctetAt(ctx.cmd, ctx.i)>> /\ Arrived(ctx, ch, fr, ctx.i - 1)
       /\ ifg => /\ Arrived(ctx, ch, fr, ctx.i)
                 /\ GotAfter(ctx.cmd, ctx.before, ctx.i)
                      = IF FnAt(ctx.cmd, ctx.i) = "spi_read_single" THEN Append(ctx.got, buf)
                        ELSE ctx.got
  /\ ctx.pc \in {"settle", "deselect"} =>
       /\ Arrived(ctx, ch, fr, ctx.i)
       /\ ctx.got = GotAfter(ctx.cmd, ctx.before, ctx.i)
  /\ ctx.pc = "deselect" => ctx.i = Count(ctx.cmd)

Progress(ctx) == ProgressOf(ctx, CSn, chip, chip_frame, shifting, UCB0RXIFG, UCB0RXBUF)

\* What an access does to the command it is of, with w octets of the other.
LEMMA AccessTypes ==
  ASSUME SpiTypes, NEW ctx \in Contexts, NEW ctx1, SpiSound(ctx), Access(ctx, ctx1),
         NEW w \in {0, 1}, Len(shifting) + Flag(UCB0RXIFG) = SpiWaits(ctx) + w
  PROVE  /\ ctx1 \in Contexts /\ SpiSound(ctx1) /\ ctx1.pc # "idle"
         /\ ctx1.cmd = ctx.cmd /\ ctx1.crossed = ctx.crossed
         /\ CSn' \in BOOLEAN /\ UCB0RXIFG' \in BOOLEAN
         /\ chip' = chip /\ chip_frame' \in RadioFrame /\ shifting' \in Seq(Octets)
         /\ UCB0RXBUF' = UCB0RXBUF
         /\ Len(shifting') + Flag(UCB0RXIFG') = SpiWaits(ctx1) + w
         /\ ctx.pc # "select" => ctx1.before = ctx.before
         /\ ctx.pc = "deselect" => ctx1.pc = "done" /\ CSn' /\ chip_frame' = <<"header">>
         /\ ctx.pc # "deselect" => InFrame(ctx1)
         /\ ctx.pc \notin {"idle", "done", "hung"}
<1>0. /\ chip \in Chips /\ chip_frame \in RadioFrame /\ CSn \in BOOLEAN /\ UCB0RXIFG \in BOOLEAN
      /\ shifting \in Seq(Octets) /\ Len(shifting) \in Nat /\ UCB0RXBUF \in RadioHeld \cup Int
  BY DEF SpiTypes
<1>1. CASE spi_radio_select(ctx, ctx1)
  <2>1. ctx.pc = "select" /\ ctx1 = [ctx EXCEPT !.pc = "send", !.before = chip]
    BY <1>1 DEF spi_radio_select
  <2>2. /\ ctx1 \in Contexts /\ ctx1.pc = "send" /\ ctx1.cmd = ctx.cmd /\ ctx1.crossed = ctx.crossed
        /\ ctx1.before = chip /\ ctx1.i = ctx.i /\ ctx1.got = ctx.got
    BY <1>0, <2>1 DEF Contexts, SpiPc
  <2> QED
    BY <1>0, <1>1, <2>1, <2>2 DEF spi_radio_select, SpiSound, SpiWaits, InFrame
<1>2. CASE spi_radio_deselect(ctx, ctx1)
  <2>1. ctx.pc = "deselect" /\ ctx1 = [ctx EXCEPT !.pc = "done"]
    BY <1>2 DEF spi_radio_deselect
  <2>2. /\ ctx1 \in Contexts /\ ctx1.pc = "done" /\ ctx1.cmd = ctx.cmd /\ ctx1.crossed = ctx.crossed
        /\ ctx1.before = ctx.before /\ ctx1.i = ctx.i /\ ctx1.got = ctx.got
    BY <1>0, <2>1 DEF Contexts, SpiPc
  <2>3. <<"header">> \in RadioFrame
    BY DEF RadioFrame
  <2> QED
    BY <1>0, <1>2, <2>1, <2>2, <2>3 DEF spi_radio_deselect, SpiSound, SpiWaits, InFrame
<1>3. CASE PutOctet(ctx, ctx1)
  <2>1. ctx.pc = "send" /\ ctx1 = [ctx EXCEPT !.pc = "take"]
    BY <1>3 DEF PutOctet
  <2>2. /\ ctx1 \in Contexts /\ ctx1.pc = "take" /\ ctx1.cmd = ctx.cmd /\ ctx1.crossed = ctx.crossed
        /\ ctx1.before = ctx.before /\ ctx1.i = ctx.i /\ ctx1.got = ctx.got
    BY <1>0, <2>1 DEF Contexts, SpiPc
  <2>3. Len(shifting) < 2
    <3>1. PICK l \in Nat, f \in {0, 1} : l = Len(shifting) /\ f = Flag(UCB0RXIFG)
      BY <1>0 DEF Flag
    <3>2. l + f = 0 + w
      BY <2>1, <3>1 DEF SpiWaits
    <3> QED
      BY <3>1, <3>2
  <2>4. PICK o \in Octets : o = Current(ctx).octet
    BY <2>1, CurrentIs DEF SpiSound
  <2>5. shifting' = Append(shifting, o)
    <3>1. shifting' = Append(shifting, Current(ctx).octet)
      BY <1>3, <2>3 DEF PutOctet
    <3> QED
      BY <2>4, <3>1
  <2>6. shifting' \in Seq(Octets) /\ Len(shifting') = Len(shifting) + 1
    BY <1>0, <2>5
  <2>7. Len(shifting') + Flag(UCB0RXIFG') = SpiWaits(ctx1) + w
    <3>1. SpiWaits(ctx) = 0 /\ SpiWaits(ctx1) = 1 /\ UCB0RXIFG' = UCB0RXIFG
      BY <1>3, <2>1, <2>2 DEF SpiWaits, PutOctet
    <3> QED
      BY <1>0, <2>6, <3>1 DEF Flag
  <2> QED
    BY <1>0, <1>3, <2>1, <2>2, <2>6, <2>7 DEF PutOctet, SpiSound, InFrame
<1>4. CASE Refuse(ctx, ctx1)
  <2>1. ctx.pc = "send" /\ ctx.cmd \in Command /\ ctx.i \in 1 .. Count(ctx.cmd) /\ ctx.before \in Chips
    BY <1>4 DEF Refuse, SpiSound
  <2>2. CASE Current(ctx).fn = "spi_read_single"
    <3>1. ctx1 = [GoOn(ctx) EXCEPT !.got = Append(@, 0)]
      BY <1>4, <2>2 DEF Refuse
    <3>2. Append(GoOn(ctx).got, 0) \in Seq(RadioHeld \cup Int)
      <4>1. GoOn(ctx).got \in Seq(RadioHeld \cup Int) /\ 0 \in RadioHeld \cup Int
        BY <2>1, CtxGoesOn, ContextFields
      <4> QED
        BY <4>1
    <3>3. PICK g \in Seq(RadioHeld \cup Int) : g = Append(GoOn(ctx).got, 0)
      BY <3>2
    <3>4. ctx1 = [GoOn(ctx) EXCEPT !.got = g]
      BY <3>1, <3>3
    <3>5. /\ ctx1 \in Contexts /\ ctx1.pc = GoOn(ctx).pc /\ ctx1.cmd = GoOn(ctx).cmd
          /\ ctx1.crossed = GoOn(ctx).crossed /\ ctx1.before = GoOn(ctx).before /\ ctx1.i = GoOn(ctx).i
      BY <2>1, <3>4, CtxGoesOn DEF Contexts
    <3> QED
      BY <1>0, <1>4, <2>1, <3>5, CtxGoesOn, TransfersAre DEF Refuse, SpiSound, SpiWaits, InFrame, spiVars
  <2>3. CASE Current(ctx).fn = "spi_write"
    <3>1. ctx1 = [ctx EXCEPT !.pc = "deselect"]
      BY <1>4, <2>3 DEF Refuse
    <3>2. /\ ctx1 \in Contexts /\ ctx1.pc = "deselect" /\ ctx1.cmd = ctx.cmd /\ ctx1.crossed = ctx.crossed
          /\ ctx1.before = ctx.before /\ ctx1.i = ctx.i
      BY <3>1 DEF Contexts, SpiPc
    <3> QED
      BY <1>0, <1>4, <2>1, <3>2 DEF Refuse, SpiSound, SpiWaits, InFrame, spiVars
  <2>4. CASE Current(ctx).fn \notin {"spi_read_single", "spi_write"}
    <3>1. ctx1 = GoOn(ctx)
      BY <1>4, <2>4 DEF Refuse
    <3> QED
      BY <1>0, <1>4, <2>1, <3>1, CtxGoesOn, TransfersAre DEF Refuse, SpiSound, SpiWaits, InFrame, spiVars
  <2> QED
    BY <2>2, <2>3, <2>4
<1>5. CASE TakeOctet(ctx, ctx1)
  <2>1. /\ ctx.pc = "take" /\ ctx.cmd \in Command /\ ctx.i \in 1 .. Count(ctx.cmd) /\ ctx.before \in Chips
        /\ UCB0RXIFG /\ UCB0RXIFG' = FALSE /\ UNCHANGED <<chip, chip_frame, CSn, shifting, UCB0RXBUF>>
    BY <1>5 DEF TakeOctet, SpiSound
  <2>a. ctx1.pc # "take" => Len(shifting') + Flag(UCB0RXIFG') = SpiWaits(ctx1) + w
    <3>1. PICK l \in Nat : l = Len(shifting) /\ l = Len(shifting')
      BY <1>0, <2>1
    <3>2. l + 1 = 1 + w
      BY <2>1, <3>1 DEF SpiWaits, Flag
    <3>3. l + 0 = 0 + w
      BY <3>2
    <3> QED
      BY <2>1, <3>1, <3>3 DEF SpiWaits, Flag
  <2>b. /\ CSn' \in BOOLEAN /\ UCB0RXIFG' \in BOOLEAN /\ chip' = chip /\ chip_frame' \in RadioFrame
        /\ shifting' \in Seq(Octets) /\ UCB0RXBUF' = UCB0RXBUF
    BY <1>0, <2>1
  <2>2. CASE Current(ctx).fn = "spi_read_single"
    <3>1. ctx1 = [GoOn(ctx) EXCEPT !.got = Append(@, UCB0RXBUF)]
      BY <1>5, <2>2 DEF TakeOctet
    <3>2. Append(GoOn(ctx).got, UCB0RXBUF) \in Seq(RadioHeld \cup Int)
      <4>1. GoOn(ctx).got \in Seq(RadioHeld \cup Int)
        BY <2>1, CtxGoesOn, ContextFields
      <4> QED
        BY <1>0, <4>1
    <3>3. PICK g \in Seq(RadioHeld \cup Int) : g = Append(GoOn(ctx).got, UCB0RXBUF)
      BY <3>2
    <3>4. ctx1 = [GoOn(ctx) EXCEPT !.got = g]
      BY <3>1, <3>3
    <3>5. /\ ctx1 \in Contexts /\ ctx1.pc = GoOn(ctx).pc /\ ctx1.cmd = GoOn(ctx).cmd
          /\ ctx1.crossed = GoOn(ctx).crossed /\ ctx1.before = GoOn(ctx).before /\ ctx1.i = GoOn(ctx).i
      BY <2>1, <3>4, CtxGoesOn DEF Contexts
    <3>c. /\ ctx1 \in Contexts /\ ctx1.pc \in {"send", "settle", "deselect"} /\ ctx1.cmd = ctx.cmd
          /\ ctx1.crossed = ctx.crossed /\ ctx1.before = ctx.before
          /\ ctx1.i \in 1 .. Count(ctx.cmd)
      BY <2>1, <3>5, CtxGoesOn, TransfersAre
    <3>d. SpiSound(ctx1) /\ InFrame(ctx1) /\ ctx1.pc \notin {"idle", "take"}
      BY <2>1, <3>c DEF SpiSound, InFrame
    <3> QED
      BY <2>1, <2>a, <2>b, <3>c, <3>d
  <2>3. CASE Current(ctx).fn = "spi_write" /\ ~IsLast(ctx)
    <3>1. ctx1 = GoOn(ctx)
      BY <1>5, <2>3 DEF TakeOctet
    <3>c. /\ ctx1 \in Contexts /\ ctx1.pc \in {"send", "settle", "deselect"} /\ ctx1.cmd = ctx.cmd
          /\ ctx1.crossed = ctx.crossed /\ ctx1.before = ctx.before
          /\ ctx1.i \in 1 .. Count(ctx.cmd)
      BY <2>1, <3>1, CtxGoesOn, TransfersAre
    <3>d. SpiSound(ctx1) /\ InFrame(ctx1) /\ ctx1.pc \notin {"idle", "take"}
      BY <2>1, <3>c DEF SpiSound, InFrame
    <3> QED
      BY <2>1, <2>a, <2>b, <3>c, <3>d
  <2>4. CASE Current(ctx).fn # "spi_read_single" /\ ~(Current(ctx).fn = "spi_write" /\ ~IsLast(ctx))
    <3>1. ctx1 = [ctx EXCEPT !.pc = "settle"]
      BY <1>5, <2>4 DEF TakeOctet
    <3>2. /\ ctx1 \in Contexts /\ ctx1.pc = "settle" /\ ctx1.cmd = ctx.cmd /\ ctx1.crossed = ctx.crossed
          /\ ctx1.before = ctx.before /\ ctx1.i = ctx.i
      BY <3>1 DEF Contexts, SpiPc
    <3>c. /\ ctx1 \in Contexts /\ ctx1.pc \in {"send", "settle", "deselect"} /\ ctx1.cmd = ctx.cmd
          /\ ctx1.crossed = ctx.crossed /\ ctx1.before = ctx.before
          /\ ctx1.i \in 1 .. Count(ctx.cmd)
      BY <2>1, <3>2
    <3>d. SpiSound(ctx1) /\ InFrame(ctx1) /\ ctx1.pc \notin {"idle", "take"}
      BY <2>1, <3>c DEF SpiSound, InFrame
    <3> QED
      BY <2>1, <2>a, <2>b, <3>c, <3>d
  <2> QED
    BY <2>2, <2>3, <2>4
<1>6. CASE Settle(ctx, ctx1)
  <2>1. ctx.pc = "settle" /\ ctx1 = GoOn(ctx) /\ UNCHANGED <<chip, chip_frame, spiVars>>
    BY <1>6 DEF Settle
  <2> QED
    BY <1>0, <2>1, CtxGoesOn, TransfersAre DEF SpiSound, SpiWaits, InFrame, spiVars
<1> QED
  BY <1>1, <1>2, <1>3, <1>4, <1>5, <1>6 DEF Access

\* A command that runs by itself goes on as it should, and has its effect at the end.
LEMMA AccessProgress ==
  ASSUME SpiTypes, NEW ctx \in Contexts, NEW ctx1, SpiSound(ctx), Access(ctx, ctx1),
         Len(shifting) + Flag(UCB0RXIFG) = SpiWaits(ctx) + 0,
         InFrame(ctx) => Progress(ctx), ~InFrame(ctx) => chip_frame = <<"header">>
  PROVE  /\ InFrame(ctx1) =>
              ProgressOf(ctx1, CSn', chip', chip_frame', shifting', UCB0RXIFG', UCB0RXBUF')
         /\ ctx1.pc = "done" =>
              /\ chip' = Effect(ctx1.cmd, ctx1.before)
              /\ ctx1.got = Result(ctx1.cmd, ctx1.before)
<1>0. /\ chip \in Chips /\ UCB0RXIFG \in BOOLEAN /\ shifting \in Seq(Octets) /\ Len(shifting) \in Nat
  BY DEF SpiTypes
<1>a. ctx.pc \notin {"idle", "done", "hung"}
  <2>1. 0 \in {0, 1}
    OBVIOUS
  <2> QED
    BY <2>1, AccessTypes
<1>b. ctx.cmd \in Command /\ ctx.i \in 1 .. Count(ctx.cmd) /\ Count(ctx.cmd) \in 1 .. 3
  BY <1>a, TransfersAre DEF SpiSound
<1>c. ctx.pc # "select" => Progress(ctx) /\ ctx.before \in Chips
  BY <1>a DEF InFrame, SpiSound
<1>d. ctx.pc # "take" => shifting = <<>> /\ UCB0RXIFG = FALSE
  <2>1. Len(shifting) + Flag(UCB0RXIFG) = 0 + 0 => Len(shifting) = 0 /\ Flag(UCB0RXIFG) = 0
    BY <1>0 DEF Flag
  <2> QED
    BY <1>0, <2>1 DEF SpiWaits, Flag
<1>1. CASE spi_radio_select(ctx, ctx1)
  <2>1. ctx.pc = "select" /\ ctx1 = [ctx EXCEPT !.pc = "send", !.before = chip]
    BY <1>1 DEF spi_radio_select
  <2>2. /\ ctx1.pc = "send" /\ ctx1.cmd = ctx.cmd
        /\ ctx1.before = chip /\ ctx1.i = 1 /\ ctx1.got = <<>>
    BY <1>0, <2>1 DEF Contexts, SpiPc, SpiSound
  <2>3. chip_frame = <<"header">> /\ ctx1.i - 1 = 0
    BY <2>1, <2>2 DEF InFrame
  <2>4. ~CSn' /\ chip' = chip /\ chip_frame' = chip_frame
    BY <1>1 DEF spi_radio_select
  <2>5. /\ Arrived(ctx1, chip', chip_frame', ctx1.i - 1)
        /\ ctx1.got = GotAfter(ctx1.cmd, ctx1.before, ctx1.i - 1)
    BY <1>0, <1>b, <2>2, <2>3, <2>4, WholeCommand DEF Arrived
  <2> QED
    BY <2>2, <2>4, <2>5 DEF ProgressOf
<1>2. CASE spi_radio_deselect(ctx, ctx1)
  <2>1. ctx.pc = "deselect" /\ ctx1 = [ctx EXCEPT !.pc = "done"] /\ chip' = chip
    BY <1>2 DEF spi_radio_deselect
  <2>2. /\ ctx1.pc = "done" /\ ctx1.cmd = ctx.cmd
        /\ ctx1.before = ctx.before /\ ctx1.i = ctx.i /\ ctx1.got = ctx.got
    BY <1>0, <2>1 DEF Contexts, SpiPc
  <2>3. ctx.i = Count(ctx.cmd) /\ chip = ChipAfter(ctx.cmd, ctx.before, ctx.i)
        /\ ctx.got = GotAfter(ctx.cmd, ctx.before, ctx.i)
    BY <1>c, <2>1 DEF Progress, ProgressOf, Arrived
  <2> QED
    BY <1>b, <1>c, <2>1, <2>2, <2>3, WholeCommand DEF InFrame
<1>3. CASE PutOctet(ctx, ctx1)
  <2>1. ctx.pc = "send" /\ ctx1 = [ctx EXCEPT !.pc = "take"]
        /\ UNCHANGED <<chip, chip_frame, CSn, UCB0RXIFG, UCB0RXBUF>>
    BY <1>3 DEF PutOctet
  <2>2. /\ ctx1.pc = "take" /\ ctx1.cmd = ctx.cmd
        /\ ctx1.before = ctx.before /\ ctx1.i = ctx.i /\ ctx1.got = ctx.got
    BY <1>0, <2>1 DEF Contexts, SpiPc
  <2>3. shifting' = <<OctetAt(ctx.cmd, ctx.i)>>
    <3>1. PICK o : o = OctetAt(ctx.cmd, ctx.i) /\ o = Current(ctx).octet
      BY <1>b, CurrentIs
    <3>2. shifting' = Append(<<>>, o)
      BY <1>3, <1>d, <2>1, <3>1 DEF PutOctet
    <3>3. Append(<<>>, o) = <<o>>
      OBVIOUS
    <3> QED
      BY <3>1, <3>2, <3>3
  <2>4. /\ ~CSn /\ Arrived(ctx, chip, chip_frame, ctx.i - 1)
        /\ ctx.got = GotAfter(ctx.cmd, ctx.before, ctx.i - 1) /\ UCB0RXIFG = FALSE
    BY <1>c, <1>d, <2>1 DEF Progress, ProgressOf
  <2> QED
    BY <2>1, <2>2, <2>3, <2>4 DEF ProgressOf, Arrived
<1>4. CASE Refuse(ctx, ctx1)
  BY <1>4, <1>d DEF Refuse, Refused, UCBUSY
<1>5. CASE TakeOctet(ctx, ctx1)
  <2>1. /\ ctx.pc = "take" /\ UCB0RXIFG /\ UNCHANGED <<chip, chip_frame, CSn, shifting, UCB0RXBUF>>
    BY <1>5 DEF TakeOctet
  <2>2. /\ ~CSn' /\ Arrived(ctx, chip', chip_frame', ctx.i)
        /\ GotAfter(ctx.cmd, ctx.before, ctx.i)
             = IF FnAt(ctx.cmd, ctx.i) = "spi_read_single" THEN Append(ctx.got, UCB0RXBUF) ELSE ctx.got
    BY <1>c, <2>1 DEF Progress, ProgressOf, Arrived
  <2>3. Current(ctx).fn = FnAt(ctx.cmd, ctx.i) /\ (IsLast(ctx) <=> ctx.i = Count(ctx.cmd))
    BY <1>b, CurrentIs
  <2>4. /\ ctx1.cmd = ctx.cmd /\ ctx1.before = ctx.before
        /\ ctx1.got = GotAfter(ctx.cmd, ctx.before, ctx.i)
        /\ \/ ctx1.pc = "send" /\ ctx1.i = ctx.i + 1
           \/ ctx1.pc = "deselect" /\ ctx1.i = ctx.i /\ ctx1.i = Count(ctx.cmd)
           \/ ctx1.pc = "settle" /\ ctx1.i = ctx.i
    <3>1. CASE Current(ctx).fn = "spi_read_single"
      <4>1. ctx1 = [GoOn(ctx) EXCEPT !.got = Append(@, UCB0RXBUF)]
        BY <1>5, <3>1 DEF TakeOctet
      <4>2. /\ ctx1.pc = GoOn(ctx).pc /\ ctx1.cmd = GoOn(ctx).cmd /\ ctx1.got = Append(GoOn(ctx).got, UCB0RXBUF)
            /\ ctx1.before = GoOn(ctx).before /\ ctx1.i = GoOn(ctx).i
        BY <1>b, <4>1, CtxGoesOn DEF Contexts
      <4>3. ctx1.got = GotAfter(ctx.cmd, ctx.before, ctx.i)
        BY <1>b, <2>2, <2>3, <3>1, <4>2, CtxGoesOn
      <4> QED
        BY <1>b, <4>2, <4>3, CtxGoesOn
    <3>2. CASE Current(ctx).fn = "spi_write" /\ ~IsLast(ctx)
      <4>1. ctx1 = GoOn(ctx)
        BY <1>5, <3>2 DEF TakeOctet
      <4> QED
        BY <1>b, <2>2, <2>3, <3>2, <4>1, CtxGoesOn
    <3>3. CASE Current(ctx).fn # "spi_read_single" /\ ~(Current(ctx).fn = "spi_write" /\ ~IsLast(ctx))
      <4>1. ctx1 = [ctx EXCEPT !.pc = "settle"]
        BY <1>5, <3>3 DEF TakeOctet
      <4>2. /\ ctx1.pc = "settle" /\ ctx1.cmd = ctx.cmd
            /\ ctx1.before = ctx.before /\ ctx1.i = ctx.i /\ ctx1.got = ctx.got
        BY <4>1 DEF Contexts, SpiPc
      <4> QED
        BY <2>2, <2>3, <3>3, <4>2
    <3> QED
      BY <3>1, <3>2, <3>3
  <2>5. ctx1.pc = "send" => ctx1.i - 1 = ctx.i
    BY <1>b, <2>4
  <2> QED
    BY <2>2, <2>4, <2>5 DEF ProgressOf, Arrived
<1>6. CASE Settle(ctx, ctx1)
  <2>1. ctx.pc = "settle" /\ ctx1 = GoOn(ctx) /\ UNCHANGED <<chip, chip_frame, spiVars>>
    BY <1>6 DEF Settle
  <2>2. /\ ~CSn' /\ Arrived(ctx, chip', chip_frame', ctx.i)
        /\ ctx.got = GotAfter(ctx.cmd, ctx.before, ctx.i)
    BY <1>c, <2>1 DEF Progress, ProgressOf, Arrived, spiVars
  <2>3. /\ ctx1.cmd = ctx.cmd /\ ctx1.before = ctx.before /\ ctx1.got = ctx.got
        /\ \/ ctx1.pc = "send" /\ ctx1.i = ctx.i + 1
           \/ ctx1.pc = "deselect" /\ ctx1.i = ctx.i /\ ctx1.i = Count(ctx.cmd)
    BY <1>b, <2>1, CtxGoesOn
  <2>4. ctx1.pc = "send" => ctx1.i - 1 = ctx.i
    BY <1>b, <2>3
  <2> QED
    BY <2>2, <2>3, <2>4 DEF ProgressOf, Arrived
<1> QED
  BY <1>1, <1>2, <1>3, <1>4, <1>5, <1>6 DEF Access

\* What the chip makes of an octet, and how a command that waits for it goes on.
LEMMA ShiftKeeps ==
  ASSUME SpiTypes, ShiftOctet
  PROVE  /\ chip' \in Chips /\ chip_frame' \in RadioFrame /\ shifting' \in Seq(Octets)
         /\ UCB0RXIFG' = TRUE /\ UCB0RXBUF' \in RadioHeld \cup Int
         /\ Len(shifting') + 1 = Len(shifting) /\ Len(shifting') \in Nat
         /\ UNCHANGED <<firmware, CSn, foreground, irq, todo, P2_IFG, gdo0_cb, commands>>
         /\ ~(irq.pc = "take" /\ UCB0RXIFG)
<1>1. /\ shifting # <<>> /\ shifting \in Seq(Octets) /\ shifting' = Tail(shifting)
      /\ chip \in Chips /\ chip_frame \in RadioFrame
  BY DEF SpiTypes, ShiftOctet
<1>2. shifting' \in Seq(Octets) /\ Len(shifting') + 1 = Len(shifting) /\ Len(shifting') \in Nat
      /\ Head(shifting) \in Octets
  BY <1>1
<1>3. CASE CSn
  BY <1>1, <1>2, <1>3 DEF ShiftOctet, RadioHeld
<1>4. CASE ~CSn
  <2>1. PICK outcome \in ChipTakes(Head(shifting)) : chip' = outcome[1] /\ chip_frame' = outcome[2]
    BY <1>4 DEF ShiftOctet
  <2>2. chip' \in Chips /\ chip_frame' \in RadioFrame
    BY <1>1, <1>2, <2>1, ChipStays
  <2>3. UCB0RXBUF' \in RadioHeld \cup Int
    BY <1>1, <1>4, AnswerType DEF ShiftOctet
  <2> QED
    BY <1>2, <2>2, <2>3 DEF ShiftOctet
<1> QED
  BY <1>3, <1>4

LEMMA ShiftProgress ==
  ASSUME SpiTypes, ShiftOctet, NEW ctx \in Contexts, SpiSound(ctx), InFrame(ctx), Progress(ctx),
         Len(shifting) + Flag(UCB0RXIFG) = SpiWaits(ctx) + 0
  PROVE  ProgressOf(ctx, CSn', chip', chip_frame', shifting', UCB0RXIFG', UCB0RXBUF')
<1>0. ctx.cmd \in Command /\ ctx.i \in 1 .. Count(ctx.cmd) /\ ctx.before \in Chips
  BY DEF SpiSound, InFrame
<1>1. ctx.pc = "take" /\ UCB0RXIFG = FALSE
  <2>1. PICK l \in Nat, f \in {0, 1} : l = Len(shifting) /\ f = Flag(UCB0RXIFG) /\ l > 0
    BY DEF SpiTypes, ShiftOctet, Flag
  <2>2. l + f = SpiWaits(ctx) + 0
    BY <2>1
  <2>3. ctx.pc = "take" /\ f = 0
    BY <2>1, <2>2 DEF SpiWaits
  <2> QED
    BY <2>1, <2>3 DEF Flag, SpiTypes
<1>2. /\ ~CSn /\ shifting = <<OctetAt(ctx.cmd, ctx.i)>> /\ Arrived(ctx, chip, chip_frame, ctx.i - 1)
      /\ ctx.got = GotAfter(ctx.cmd, ctx.before, ctx.i - 1)
  BY <1>1 DEF Progress, ProgressOf
<1>3. Head(shifting) = OctetAt(ctx.cmd, ctx.i)
  BY <1>2
<1>4. PICK outcome \in ChipTakes(Head(shifting)) : chip' = outcome[1] /\ chip_frame' = outcome[2]
  BY <1>2 DEF ShiftOctet
<1>5. Arrived(ctx, chip', chip_frame', ctx.i)
  BY <1>0, <1>2, <1>3, <1>4, NextOctet DEF Arrived
<1>6. GotAfter(ctx.cmd, ctx.before, ctx.i)
        = IF FnAt(ctx.cmd, ctx.i) = "spi_read_single" THEN Append(ctx.got, UCB0RXBUF') ELSE ctx.got
  <2>1. UCB0RXBUF' = Answer
    BY <1>2 DEF ShiftOctet
  <2>2. /\ chip = ChipAfter(ctx.cmd, ctx.before, ctx.i - 1)
        /\ chip_frame = FrameAfter(ctx.cmd, ctx.i - 1)
    BY <1>2 DEF Arrived
  <2>3. /\ FnAt(ctx.cmd, ctx.i) = "spi_read_single" =>
             GotAfter(ctx.cmd, ctx.before, ctx.i) = Append(GotAfter(ctx.cmd, ctx.before, ctx.i - 1), Answer)
        /\ FnAt(ctx.cmd, ctx.i) # "spi_read_single" =>
             GotAfter(ctx.cmd, ctx.before, ctx.i) = GotAfter(ctx.cmd, ctx.before, ctx.i - 1)
    BY <1>0, <2>2, NextOctet
  <2> QED
    BY ONLY <1>2, <2>1, <2>3
<1>7. UCB0RXIFG' = TRUE /\ CSn' = CSn
  BY DEF ShiftOctet
<1> QED
  BY <1>1, <1>2, <1>5, <1>6, <1>7 DEF ProgressOf

\* Who may run within whose frame.
Nested ==
  /\ irq.pc # "idle" => foreground.pc # "done"
  /\ InFrame(foreground) /\ ~foreground.crossed => irq.pc = "idle"
  /\ irq.pc # "idle" /\ ~irq.crossed => ~InFrame(foreground)

ByThemselves ==
  /\ InFrame(foreground) /\ ~foreground.crossed => Progress(foreground)
  /\ InFrame(irq) /\ ~irq.crossed => Progress(irq)

\* While the radio is set up nothing interrupts the commands, and what is read back
\* has been written.
WrittenBefore ==
  IF foreground.pc = "idle" THEN chip.reg[PKTLEN] = TEST_VALUE
  ELSE foreground.cmd = <<"write", PKTLEN, TEST_VALUE>>
ReadBack ==
  IF foreground.pc = "select" THEN chip.reg[PKTLEN] = TEST_VALUE
  ELSE foreground.before.reg[PKTLEN] = TEST_VALUE
InitReads ==
  todo # <<>> =>
    /\ ~gdo0_cb /\ irq.pc = "idle" /\ ~foreground.crossed
    /\ \A k \in 2 .. Len(todo) : todo[k][1] = "read" =>
         todo[k] = <<"read", PKTLEN>> /\ todo[k - 1] = <<"write", PKTLEN, TEST_VALUE>>
    /\ todo[1][1] = "read" => todo[1] = <<"read", PKTLEN>> /\ WrittenBefore
    /\ foreground.pc # "idle" /\ foreground.cmd[1] = "read" =>
         foreground.cmd = <<"read", PKTLEN>> /\ ReadBack

SpiIInv ==
  /\ SpiTypes /\ SpiSound(foreground) /\ SpiSound(irq)
  /\ Outstanding /\ Between /\ Nested /\ ByThemselves
  /\ CarriedOut(foreground) /\ CarriedOut(irq) /\ InitReads

LEMMA ConfigIs ==
  /\ WriteConfig \in Seq(Command)
  /\ \A k \in 1 .. Len(WriteConfig) : WriteConfig[k][1] = "write"
<1> DEFINE order == SetToSeq(RadioRegister)
           n == Cardinality(RadioRegister)
<1>1. n \in Nat /\ ExistsBijection(1 .. n, RadioRegister)
  BY FS_CardinalityType, SpiAssumption
<1>2. PICK f \in [1 .. n -> RadioRegister] : IsInjective(f)
  BY <1>1 DEF ExistsBijection, Bijection, Injection
<1>3. order \in [1 .. n -> RadioRegister]
  BY <1>2 DEF SetToSeq
<1>4. \A r \in RadioRegister : init_cfg[r] \in RadioValue
  <2>1. \E v \in RadioValue : v # TEST_VALUE
    BY SpiAssumption
  <2> QED
    BY <2>1 DEF init_cfg
<1>5. WriteConfig = [k \in 1 .. n |-> <<"write", order[k], init_cfg[order[k]]>>]
  BY <1>3 DEF WriteConfig
<1>6. \A k \in 1 .. n : WriteConfig[k] \in Command /\ WriteConfig[k][1] = "write"
  BY <1>3, <1>4, <1>5 DEF Command
<1>7. WriteConfig \in [1 .. n -> Command]
  <2> HIDE DEF order, n
  <2> QED
    BY <1>5, <1>6
<1>8. WriteConfig \in Seq(Command) /\ Len(WriteConfig) = n
  BY <1>1, <1>7
<1> QED
  BY <1>6, <1>8

LEMMA SetUpReads ==
  /\ cc2500_init \in Seq(Command) /\ cc2500_init # <<>> /\ cc2500_init[1][1] # "read"
  /\ \A k \in 2 .. Len(cc2500_init) : cc2500_init[k][1] = "read" =>
       /\ cc2500_init[k] = <<"read", PKTLEN>>
       /\ cc2500_init[k - 1] = <<"write", PKTLEN, TEST_VALUE>>
<1>1. PICK C : C = WriteConfig /\ C \in Seq(Command) /\ \A k \in 1 .. Len(C) : C[k][1] = "write"
  BY ConfigIs
<1>2. PICK s \in Command : s = <<"strobe", SRES>> /\ s[1] = "strobe"
  <2>1. <<"strobe", SRES>> \in Command
    BY SpiAssumption DEF Command
  <2> QED
    BY <2>1
<1>3. PICK w \in Command : w = <<"write", PKTLEN, TEST_VALUE>> /\ w[1] = "write"
  <2>1. <<"write", PKTLEN, TEST_VALUE>> \in Command
    BY SpiAssumption DEF Command
  <2> QED
    BY <2>1
<1>4. PICK r \in Command : r = <<"read", PKTLEN>> /\ r[1] = "read"
  <2>1. <<"read", PKTLEN>> \in Command
    BY SpiAssumption DEF Command
  <2> QED
    BY <2>1
<1>5. CASE firmware = "native"
  <2>1. cc2500_init = <<s>> \o <<w, r>> \o C
    BY <1>1, <1>2, <1>3, <1>4, <1>5 DEF cc2500_init, Verify
  <2>2. cc2500_init = <<s, w, r>> \o C
    BY <2>1, ShortJoin
  <2>3. /\ cc2500_init \in Seq(Command) /\ Len(cc2500_init) = 3 + Len(C)
        /\ cc2500_init[1] = s /\ cc2500_init[2] = w /\ cc2500_init[3] = r
        /\ \A k \in 4 .. 3 + Len(C) : cc2500_init[k] = C[k - 3]
    <3>1. PICK H \in Seq(Command) : H = <<s, w, r>> /\ Len(H) = 3 /\ H[1] = s /\ H[2] = w /\ H[3] = r
      <4>1. <<s, w, r>> \in Seq(Command)
        OBVIOUS
      <4> QED
        BY <4>1
    <3> QED
      BY <1>1, <2>2, <3>1
  <2>4. \A k \in 4 .. 3 + Len(C) : cc2500_init[k][1] = "write"
    BY <1>1, <2>3
  <2>5. ASSUME NEW k \in 2 .. Len(cc2500_init), cc2500_init[k][1] = "read"
        PROVE  k = 3
    BY <1>1, <1>3, <2>3, <2>4, <2>5
  <2> QED
    BY <1>2, <1>3, <1>4, <2>3, <2>5
<1>6. CASE firmware # "native"
  <2>1. cc2500_init = <<s>> \o <<>> \o C
    BY <1>1, <1>2, <1>6 DEF cc2500_init
  <2>2. /\ cc2500_init \in Seq(Command) /\ Len(cc2500_init) = 1 + Len(C)
        /\ cc2500_init[1] = s
        /\ \A k \in 2 .. 1 + Len(C) : cc2500_init[k] = C[k - 1]
    <3>1. PICK H \in Seq(Command) : H = <<s>> \o <<>> /\ Len(H) = 1 /\ H[1] = s
      <4>1. <<s>> \in Seq(Command) /\ <<>> \in Seq(Command)
        OBVIOUS
      <4>2. <<s>> \o <<>> = <<s>>
        BY <4>1
      <4> QED
        BY <4>1, <4>2
    <3> QED
      BY <1>1, <2>1, <3>1
  <2>3. \A k \in 2 .. 1 + Len(C) : cc2500_init[k][1] = "write"
    BY <1>1, <2>2
  <2> QED
    BY <1>1, <1>2, <2>2, <2>3
<1> QED
  BY <1>5, <1>6

LEMMA SpiInitIInv == RadioBusInit => SpiIInv
<1> SUFFICES ASSUME RadioBusInit PROVE SpiIInv
  OBVIOUS
<1>1. SpiTypes
  <2>1. chip \in Chips
    <3>1. <<>> \in Seq(Strobe) /\ <<>> \in Seq(RadioHeld)
      OBVIOUS
    <3>2. [r \in RadioRegister |-> Odd] \in [RadioRegister -> RadioHeld]
      BY DEF RadioHeld
    <3> QED
      BY <3>1, <3>2 DEF RadioBusInit, Chips
  <2>2. <<"header">> \in RadioFrame /\ Odd \in RadioHeld
    BY DEF RadioFrame, RadioHeld
  <2>3. shifting \in Seq(Octets)
    BY DEF RadioBusInit
  <2>4. CSn \in BOOLEAN /\ UCB0RXIFG \in BOOLEAN /\ UCB0RXBUF \in RadioHeld \cup Int
    BY <2>2 DEF RadioBusInit
  <2>5. chip_frame \in RadioFrame /\ foreground \in Contexts /\ irq \in Contexts /\ todo \in Seq(Command)
    BY <2>2, SetUpReads, NoCommandType DEF RadioBusInit
  <2> QED
    BY <2>1, <2>3, <2>4, <2>5 DEF SpiTypes
<1>2. foreground.pc = "idle" /\ irq.pc = "idle" /\ ~foreground.crossed
  BY NoCommandType DEF RadioBusInit
<1>3. Outstanding
  BY <1>2 DEF RadioBusInit, Outstanding, SpiWaits, Flag
<1>4. InitReads
  BY <1>2, SetUpReads DEF RadioBusInit, InitReads
<1> QED
  BY <1>1, <1>2, <1>3, <1>4
  DEF SpiIInv, SpiSound, Between, Nested, ByThemselves, InFrame, CarriedOut, RadioBusInit

LEMMA ShiftOctetKeeps == SpiIInv /\ ShiftOctet => SpiIInv'
<1> SUFFICES ASSUME SpiIInv, ShiftOctet PROVE SpiIInv'
  OBVIOUS
<1>0. /\ SpiTypes /\ SpiSound(foreground) /\ SpiSound(irq) /\ Outstanding /\ Between /\ Nested
      /\ ByThemselves /\ CarriedOut(foreground) /\ CarriedOut(irq) /\ InitReads
      /\ foreground \in Contexts /\ irq \in Contexts /\ UCB0RXIFG \in BOOLEAN
  BY DEF SpiIInv, SpiTypes
<1>1. /\ chip' \in Chips /\ chip_frame' \in RadioFrame /\ shifting' \in Seq(Octets)
      /\ UCB0RXIFG' = TRUE /\ UCB0RXBUF' \in RadioHeld \cup Int
      /\ Len(shifting') + 1 = Len(shifting) /\ Len(shifting') \in Nat
      /\ UNCHANGED <<firmware, CSn, foreground, irq, todo, P2_IFG, gdo0_cb, commands>>
      /\ ~(irq.pc = "take" /\ UCB0RXIFG)
  BY <1>0, ShiftKeeps
<1>2. PICK l \in Nat, f \in {0, 1} :
        l = Len(shifting') /\ f = Flag(UCB0RXIFG) /\ l + 1 + f = SpiWaits(foreground) + SpiWaits(irq)
  BY <1>0, <1>1 DEF Outstanding, Flag
<1>3. f = 0 /\ (foreground.pc = "take" \/ irq.pc = "take")
  <2>1. UCB0RXIFG <=> f = 1
    BY <1>0, <1>2 DEF Flag
  <2>2. f = 1 => irq.pc # "take"
    BY <1>1, <2>1
  <2> QED
    BY <1>2, <2>2 DEF SpiWaits
<1>4. Outstanding'
  <2>1. Len(shifting') + 1 = SpiWaits(foreground) + SpiWaits(irq)
    BY <1>2, <1>3
  <2> QED
    BY <1>1, <2>1 DEF Outstanding, SpiWaits, Flag
<1>5. InFrame(foreground) \/ InFrame(irq)
  BY <1>3 DEF InFrame
<1>6. Between' /\ Nested'
  BY <1>0, <1>1, <1>5 DEF Between, Nested, InFrame
<1>7. SpiTypes'
  BY <1>0, <1>1 DEF SpiTypes
<1>8. SpiSound(foreground)' /\ SpiSound(irq)'
  BY <1>0, <1>1 DEF SpiSound
<1>9. ASSUME NEW ctx \in Contexts, NEW other \in Contexts, SpiSound(ctx), InFrame(ctx), Progress(ctx),
             ~InFrame(other), SpiWaits(foreground) + SpiWaits(irq) = SpiWaits(ctx) + SpiWaits(other)
      PROVE  ProgressOf(ctx, CSn', chip', chip_frame', shifting', UCB0RXIFG', UCB0RXBUF')
  <2>1. SpiWaits(other) = 0
    BY <1>9 DEF InFrame, SpiWaits
  <2>2. Len(shifting) + Flag(UCB0RXIFG) = SpiWaits(ctx) + 0
    BY <1>0, <1>9, <2>1 DEF Outstanding
  <2> QED
    BY <1>0, <1>9, <2>2, ShiftProgress
<1>10. ByThemselves'
  <2>1. CASE InFrame(foreground) /\ ~foreground.crossed
    <3>1. Progress(foreground) /\ ~InFrame(irq) /\ irq.pc = "idle"
      BY <1>0, <2>1 DEF ByThemselves, Nested, InFrame
    <3>2. ProgressOf(foreground, CSn', chip', chip_frame', shifting', UCB0RXIFG', UCB0RXBUF')
      BY <1>0, <1>9, <2>1, <3>1
    <3> QED
      BY <1>1, <3>1, <3>2 DEF ByThemselves, Progress, InFrame
  <2>2. CASE InFrame(irq) /\ ~irq.crossed
    <3>1. Progress(irq) /\ ~InFrame(foreground)
      BY <1>0, <2>2 DEF ByThemselves, Nested, InFrame
    <3>2. SpiWaits(foreground) + SpiWaits(irq) = SpiWaits(irq) + SpiWaits(foreground)
      BY DEF SpiWaits
    <3>3. ProgressOf(irq, CSn', chip', chip_frame', shifting', UCB0RXIFG', UCB0RXBUF')
      BY <1>0, <1>9, <2>2, <3>1, <3>2
    <3> QED
      BY <1>1, <3>1, <3>3 DEF ByThemselves, Progress, InFrame
  <2>3. CASE ~(InFrame(foreground) /\ ~foreground.crossed) /\ ~(InFrame(irq) /\ ~irq.crossed)
    BY <1>1, <2>3 DEF ByThemselves, InFrame
  <2> QED
    BY <2>1, <2>2, <2>3
<1>11. CarriedOut(foreground)' /\ CarriedOut(irq)'
  <2>1. foreground.pc = "done" => irq.pc = "idle"
    BY <1>0 DEF Nested
  <2>2. foreground.pc # "done"
    BY <1>3, <2>1
  <2>3. irq.pc = "done" => irq.crossed
    <3>1. irq.pc = "done" => foreground.pc = "take"
      BY <1>3
    <3> QED
      BY <1>0, <3>1 DEF Nested, InFrame
  <2> QED
    BY <1>1, <2>2, <2>3 DEF CarriedOut
<1>12. InitReads'
  <2> SUFFICES ASSUME todo # <<>> PROVE InitReads'
    BY <1>1 DEF InitReads
  <2>1. foreground.pc = "take"
    BY <1>0, <1>3 DEF InitReads
  <2> QED
    BY <1>0, <1>1, <2>1 DEF InitReads, WrittenBefore, ReadBack
<1> QED
  BY <1>4, <1>6, <1>7, <1>8, <1>10, <1>11, <1>12 DEF SpiIInv

LEMMA MainAccessKeeps == SpiIInv /\ MainAccess => SpiIInv'
<1> SUFFICES ASSUME SpiIInv, MainAccess PROVE SpiIInv'
  OBVIOUS
<1>0. /\ SpiTypes /\ SpiSound(foreground) /\ SpiSound(irq) /\ Outstanding /\ Between /\ Nested
      /\ ByThemselves /\ CarriedOut(foreground) /\ CarriedOut(irq) /\ InitReads
      /\ foreground \in Contexts /\ irq \in Contexts /\ chip \in Chips
  BY DEF SpiIInv, SpiTypes
<1>1. /\ irq.pc = "idle" /\ Access(foreground, foreground')
      /\ UNCHANGED <<firmware, irq, todo, P2_IFG, gdo0_cb, commands>>
  BY DEF MainAccess
<1>2. Len(shifting) + Flag(UCB0RXIFG) = SpiWaits(foreground) + 0
  BY <1>0, <1>1 DEF Outstanding, SpiWaits
<1>3. /\ foreground' \in Contexts /\ SpiSound(foreground') /\ foreground'.pc # "idle"
      /\ foreground'.cmd = foreground.cmd /\ foreground'.crossed = foreground.crossed
      /\ CSn' \in BOOLEAN /\ UCB0RXIFG' \in BOOLEAN
      /\ chip' = chip /\ chip_frame' \in RadioFrame /\ shifting' \in Seq(Octets)
      /\ UCB0RXBUF' = UCB0RXBUF
      /\ Len(shifting') + Flag(UCB0RXIFG') = SpiWaits(foreground') + 0
      /\ foreground.pc # "select" => foreground'.before = foreground.before
      /\ foreground.pc = "deselect" => foreground'.pc = "done" /\ CSn' /\ chip_frame' = <<"header">>
      /\ foreground.pc # "deselect" => InFrame(foreground')
      /\ foreground.pc \notin {"idle", "done", "hung"}
  <2>1. 0 \in {0, 1}
    OBVIOUS
  <2> QED
    BY <1>0, <1>1, <1>2, <2>1, AccessTypes
<1>4. Outstanding'
  BY <1>1, <1>3 DEF Outstanding, SpiWaits
<1>5. Between'
  BY <1>1, <1>3 DEF Between, InFrame
<1>6. Nested'
  BY <1>1, <1>3 DEF Nested, InFrame
<1>7. SpiTypes'
  BY <1>0, <1>1, <1>3 DEF SpiTypes
<1>8. SpiSound(foreground)' /\ SpiSound(irq)'
  BY <1>0, <1>1, <1>3 DEF SpiSound
<1>9. ByThemselves' /\ CarriedOut(foreground)' /\ CarriedOut(irq)'
  <2>1. ~InFrame(irq') /\ irq'.pc # "done"
    BY <1>1 DEF InFrame
  <2>2. CASE foreground.crossed
    BY <1>3, <2>1, <2>2 DEF ByThemselves, CarriedOut
  <2>3. CASE ~foreground.crossed
    <3>1. InFrame(foreground) => Progress(foreground)
      BY <1>0, <2>3 DEF ByThemselves
    <3>2. ~InFrame(foreground) => chip_frame = <<"header">>
      BY <1>0, <1>1 DEF Between, InFrame
    <3>3. /\ InFrame(foreground') =>
               ProgressOf(foreground', CSn', chip', chip_frame', shifting', UCB0RXIFG', UCB0RXBUF')
          /\ foreground'.pc = "done" =>
               /\ chip' = Effect(foreground'.cmd, foreground'.before)
               /\ foreground'.got = Result(foreground'.cmd, foreground'.before)
      BY <1>0, <1>1, <1>2, <3>1, <3>2, AccessProgress
    <3> QED
      BY <2>1, <3>3 DEF ByThemselves, CarriedOut, Progress
  <2> QED
    BY <2>2, <2>3
<1>10. InitReads'
  <2> SUFFICES ASSUME todo # <<>> PROVE InitReads'
    BY <1>1 DEF InitReads
  <2>1. /\ ~gdo0_cb' /\ irq'.pc = "idle" /\ ~foreground'.crossed
        /\ \A k \in 2 .. Len(todo) : todo[k][1] = "read" =>
             todo[k] = <<"read", PKTLEN>> /\ todo[k - 1] = <<"write", PKTLEN, TEST_VALUE>>
        /\ todo[1][1] = "read" => todo[1] = <<"read", PKTLEN>> /\ foreground.cmd = <<"write", PKTLEN, TEST_VALUE>>
        /\ foreground.cmd[1] = "read" => foreground.cmd = <<"read", PKTLEN>> /\ ReadBack
    BY <1>0, <1>1, <1>3 DEF InitReads, WrittenBefore
  <2>2. foreground.pc = "select" => foreground'.before = chip /\ foreground'.pc # "select"
    <3>1. foreground.pc = "select" => spi_radio_select(foreground, foreground')
      BY <1>1 DEF Access, spi_radio_deselect, PutOctet, Refuse, TakeOctet, Settle
    <3>2. spi_radio_select(foreground, foreground') =>
            foreground' = [foreground EXCEPT !.pc = "send", !.before = chip]
      BY DEF spi_radio_select
    <3> QED
      BY <1>0, <3>1, <3>2 DEF Contexts
  <2>3. foreground'.pc # "select"
    <3>1. foreground.pc # "deselect" => foreground'.pc # "select"
      BY <1>3 DEF InFrame
    <3> QED
      BY <1>3, <3>1
  <2>4. foreground'.pc # "idle" /\ foreground'.cmd[1] = "read" =>
          foreground'.cmd = <<"read", PKTLEN>> /\ foreground'.before.reg[PKTLEN] = TEST_VALUE
    BY <1>3, <2>1, <2>2 DEF ReadBack
  <2> QED
    BY <1>1, <1>3, <2>1, <2>3, <2>4 DEF InitReads, WrittenBefore, ReadBack
<1> QED
  BY <1>4, <1>5, <1>6, <1>7, <1>8, <1>9, <1>10 DEF SpiIInv

LEMMA IrqAccessKeeps == SpiIInv /\ IrqAccess => SpiIInv'
<1> SUFFICES ASSUME SpiIInv, IrqAccess PROVE SpiIInv'
  OBVIOUS
<1>0. /\ SpiTypes /\ SpiSound(foreground) /\ SpiSound(irq) /\ Outstanding /\ Between /\ Nested
      /\ ByThemselves /\ CarriedOut(foreground) /\ CarriedOut(irq) /\ InitReads
      /\ foreground \in Contexts /\ irq \in Contexts /\ chip \in Chips
  BY DEF SpiIInv, SpiTypes
<1>1. /\ Access(irq, irq')
      /\ UNCHANGED <<firmware, foreground, todo, P2_IFG, gdo0_cb, commands>>
  BY DEF IrqAccess
<1>2. PICK w \in {0, 1} : w = SpiWaits(foreground) /\ Len(shifting) + Flag(UCB0RXIFG) = SpiWaits(irq) + w
  <2>1. SpiWaits(foreground) \in {0, 1} /\ SpiWaits(irq) \in {0, 1}
    BY DEF SpiWaits
  <2>2. SpiWaits(foreground) + SpiWaits(irq) = SpiWaits(irq) + SpiWaits(foreground)
    BY <2>1
  <2> QED
    BY <1>0, <2>1, <2>2 DEF Outstanding
<1>3. /\ irq' \in Contexts /\ SpiSound(irq') /\ irq'.pc # "idle"
      /\ irq'.cmd = irq.cmd /\ irq'.crossed = irq.crossed
      /\ CSn' \in BOOLEAN /\ UCB0RXIFG' \in BOOLEAN
      /\ chip' = chip /\ chip_frame' \in RadioFrame /\ shifting' \in Seq(Octets)
      /\ UCB0RXBUF' = UCB0RXBUF
      /\ Len(shifting') + Flag(UCB0RXIFG') = SpiWaits(irq') + w
      /\ irq.pc = "deselect" => irq'.pc = "done" /\ CSn' /\ chip_frame' = <<"header">>
      /\ irq.pc # "deselect" => InFrame(irq')
      /\ irq.pc \notin {"idle", "done", "hung"}
  BY <1>0, <1>1, <1>2, AccessTypes
<1>4. Outstanding'
  <2>1. SpiWaits(irq') + w = SpiWaits(foreground') + SpiWaits(irq')
    <3>1. SpiWaits(irq') \in {0, 1} /\ SpiWaits(foreground') = w
      BY <1>1, <1>2 DEF SpiWaits
    <3> QED
      BY <1>2, <3>1
  <2>2. Len(shifting') + Flag(UCB0RXIFG') = SpiWaits(foreground') + SpiWaits(irq')
    BY <1>3, <2>1
  <2> QED
    BY <2>2 DEF Outstanding, SpiWaits, Flag
<1>5. Between'
  BY <1>1, <1>3 DEF Between, InFrame
<1>6. Nested'
  BY <1>0, <1>1, <1>3 DEF Nested, InFrame
<1>7. SpiTypes'
  BY <1>0, <1>1, <1>3 DEF SpiTypes
<1>8. SpiSound(foreground)' /\ SpiSound(irq)'
  BY <1>0, <1>1, <1>3 DEF SpiSound
<1>9. ByThemselves' /\ CarriedOut(foreground)' /\ CarriedOut(irq)'
  <2>1. InFrame(foreground) => foreground.crossed
    BY <1>0, <1>3 DEF Nested
  <2>2. foreground.pc # "done"
    BY <1>0, <1>3 DEF Nested
  <2>3. CASE irq.crossed
    BY <1>1, <1>3, <2>1, <2>2, <2>3 DEF ByThemselves, CarriedOut, InFrame
  <2>4. CASE ~irq.crossed
    <3>1. InFrame(irq) => Progress(irq)
      BY <1>0, <2>4 DEF ByThemselves
    <3>2. ~InFrame(foreground)
      BY <1>0, <1>3, <2>4 DEF Nested
    <3>3. ~InFrame(irq) => chip_frame = <<"header">>
      BY <1>0, <3>2 DEF Between
    <3>4. Len(shifting) + Flag(UCB0RXIFG) = SpiWaits(irq) + 0
      BY <1>2, <3>2 DEF InFrame, SpiWaits
    <3>5. /\ InFrame(irq') =>
               ProgressOf(irq', CSn', chip', chip_frame', shifting', UCB0RXIFG', UCB0RXBUF')
          /\ irq'.pc = "done" =>
               /\ chip' = Effect(irq'.cmd, irq'.before)
               /\ irq'.got = Result(irq'.cmd, irq'.before)
      BY <1>0, <1>1, <3>1, <3>3, <3>4, AccessProgress
    <3> QED
      BY <1>1, <2>1, <2>2, <3>2, <3>5 DEF ByThemselves, CarriedOut, Progress, InFrame
  <2> QED
    BY <2>3, <2>4
<1>10. InitReads'
  BY <1>0, <1>1, <1>3 DEF InitReads
<1> QED
  BY <1>4, <1>5, <1>6, <1>7, <1>8, <1>9, <1>10 DEF SpiIInv

\* No octet is on its way when no command waits for one.
LEMMA Quiet ==
  ASSUME SpiTypes, Outstanding, foreground.pc # "take", irq.pc # "take"
  PROVE  shifting = <<>> /\ ~UCB0RXIFG
<1>1. PICK l \in Nat, f \in {0, 1} : l = Len(shifting) /\ f = Flag(UCB0RXIFG) /\ l + f = 0 + 0
  BY DEF SpiTypes, Outstanding, SpiWaits, Flag
<1>2. l = 0 /\ f = 0
  BY <1>1
<1>3. shifting \in Seq(Octets) /\ Len(shifting) = 0
  BY <1>1, <1>2 DEF SpiTypes
<1>4. ~UCB0RXIFG
  BY <1>1, <1>2 DEF Flag
<1> QED
  BY <1>3, <1>4

LEMMA CallCommandKeeps == SpiIInv /\ CallCommand => SpiIInv'
<1> SUFFICES ASSUME SpiIInv, CallCommand PROVE SpiIInv'
  OBVIOUS
<1>0. /\ SpiTypes /\ SpiSound(foreground) /\ SpiSound(irq) /\ Outstanding /\ Between /\ Nested
      /\ ByThemselves /\ CarriedOut(foreground) /\ CarriedOut(irq) /\ InitReads
      /\ todo \in Seq(Command)
  BY DEF SpiIInv, SpiTypes
<1>1. /\ irq.pc = "idle" /\ foreground.pc = "idle"
      /\ UNCHANGED <<firmware, chip, chip_frame, spiVars, irq, P2_IFG, gdo0_cb>>
  BY DEF CallCommand
<1>2. PICK c \in Command : foreground' = Begun(c)
        /\ (todo # <<>> => c = todo[1] /\ todo' = Tail(todo)) /\ (todo = <<>> => todo' = <<>>)
  <2>1. CASE todo # <<>>
    <3>1. todo[1] \in Command /\ Head(todo) = todo[1]
      BY <1>0, <2>1
    <3> QED
      BY <2>1, <3>1 DEF CallCommand
  <2>2. CASE todo = <<>>
    BY <2>2 DEF CallCommand
  <2> QED
    BY <2>1, <2>2
<1>3. /\ foreground' \in Contexts /\ foreground'.pc = "select" /\ foreground'.cmd = c /\ foreground'.i = 1
      /\ foreground'.got = <<>> /\ ~foreground'.crossed
  BY <1>2, NoCommandType
<1>4. todo' \in Seq(Command)
  BY <1>0, <1>2
<1>5. SpiTypes'
  BY <1>0, <1>1, <1>3, <1>4 DEF SpiTypes, spiVars
<1>6. SpiSound(foreground)' /\ SpiSound(irq)'
  <2>1. 1 \in 1 .. Count(c)
    BY TransfersAre
  <2> QED
    BY <1>0, <1>1, <1>3, <2>1 DEF SpiSound
<1>7. Outstanding' /\ Between' /\ Nested' /\ ByThemselves' /\ CarriedOut(foreground)' /\ CarriedOut(irq)'
  BY <1>0, <1>1, <1>3
  DEF Outstanding, Between, Nested, ByThemselves, CarriedOut, InFrame, SpiWaits, spiVars
<1>8. InitReads'
  <2> SUFFICES ASSUME todo' # <<>> PROVE InitReads'
    BY DEF InitReads
  <2>1. /\ todo # <<>> /\ c = todo[1] /\ Len(todo') = Len(todo) - 1 /\ Len(todo) \in Nat
        /\ \A k \in 1 .. Len(todo') : todo'[k] = todo[k + 1]
    BY <1>0, <1>2
  <2>2. /\ ~gdo0_cb /\ irq.pc = "idle"
        /\ \A k \in 2 .. Len(todo) : todo[k][1] = "read" =>
             todo[k] = <<"read", PKTLEN>> /\ todo[k - 1] = <<"write", PKTLEN, TEST_VALUE>>
        /\ todo[1][1] = "read" => todo[1] = <<"read", PKTLEN>> /\ chip.reg[PKTLEN] = TEST_VALUE
    BY <1>0, <1>1, <2>1 DEF InitReads, WrittenBefore
  <2>3. ASSUME NEW k \in 2 .. Len(todo'), todo'[k][1] = "read"
        PROVE  todo'[k] = <<"read", PKTLEN>> /\ todo'[k - 1] = <<"write", PKTLEN, TEST_VALUE>>
    <3>1. k + 1 \in 2 .. Len(todo) /\ todo'[k] = todo[k + 1] /\ todo'[k - 1] = todo[k] /\ (k + 1) - 1 = k
      BY <2>1, <2>3
    <3> QED
      BY <2>2, <2>3, <3>1
  <2>4. todo'[1][1] = "read" => todo'[1] = <<"read", PKTLEN>> /\ c = <<"write", PKTLEN, TEST_VALUE>>
    <3>1. Len(todo') > 0
      <4>1. todo' \in Seq(Command) /\ todo' # <<>>
        BY <1>4
      <4> QED
        BY <4>1
    <3>2. 2 \in 2 .. Len(todo) /\ todo'[1] = todo[2] /\ 2 - 1 = 1
      BY <2>1, <3>1
    <3> QED
      BY <2>1, <2>2, <3>2
  <2>5. c[1] = "read" => c = <<"read", PKTLEN>> /\ chip.reg[PKTLEN] = TEST_VALUE
    BY <2>1, <2>2
  <2> QED
    BY <1>1, <1>3, <2>2, <2>3, <2>4, <2>5 DEF InitReads, WrittenBefore, ReadBack
<1> QED
  BY <1>5, <1>6, <1>7, <1>8 DEF SpiIInv

LEMMA ReturnCommandKeeps == SpiIInv /\ ReturnCommand => SpiIInv'
<1> SUFFICES ASSUME SpiIInv, ReturnCommand PROVE SpiIInv'
  OBVIOUS
<1>0. /\ SpiTypes /\ SpiSound(foreground) /\ SpiSound(irq) /\ Outstanding /\ Between /\ Nested
      /\ ByThemselves /\ CarriedOut(foreground) /\ CarriedOut(irq) /\ InitReads
  BY DEF SpiIInv
<1>1. /\ irq.pc = "idle" /\ foreground.pc = "done"
      /\ UNCHANGED <<firmware, chip, chip_frame, spiVars, irq, todo, P2_IFG, gdo0_cb, commands>>
  BY DEF ReturnCommand
<1>2. foreground.cmd \in Command /\ foreground.before \in Chips
  BY <1>0, <1>1 DEF SpiSound
<1>3. todo # <<>> =>
        chip = Effect(foreground.cmd, foreground.before) /\ foreground.got = Result(foreground.cmd, foreground.before)
  BY <1>0, <1>1 DEF InitReads, CarriedOut
<1>4. ~(todo # <<>> /\ foreground.cmd[1] = "read" /\ foreground.got # <<TEST_VALUE>>)
  <2> SUFFICES ASSUME todo # <<>>, foreground.cmd[1] = "read"
               PROVE  foreground.got = <<TEST_VALUE>>
    OBVIOUS
  <2>1. foreground.cmd = <<"read", PKTLEN>> /\ foreground.before.reg[PKTLEN] = TEST_VALUE
    BY <1>0, <1>1 DEF InitReads, ReadBack
  <2> QED
    BY <1>3, <2>1 DEF Result
<1>5. foreground' = NoCommand
  BY <1>4 DEF ReturnCommand
<1>6. /\ foreground' \in Contexts /\ foreground'.pc = "idle" /\ ~foreground'.crossed
  BY <1>5, NoCommandType
<1>7. SpiTypes'
  BY <1>0, <1>1, <1>6 DEF SpiTypes, spiVars
<1>8. Outstanding' /\ Between' /\ Nested' /\ ByThemselves' /\ CarriedOut(foreground)' /\ CarriedOut(irq)'
      /\ SpiSound(foreground)' /\ SpiSound(irq)'
  BY <1>0, <1>1, <1>6
  DEF Outstanding, Between, Nested, ByThemselves, CarriedOut, InFrame, SpiWaits, SpiSound, spiVars
<1>9. InitReads'
  <2> SUFFICES ASSUME todo # <<>> PROVE InitReads'
    BY <1>1 DEF InitReads
  <2>1. foreground.cmd = <<"write", PKTLEN, TEST_VALUE>> => chip.reg[PKTLEN] = TEST_VALUE
    <3>1. foreground.before.reg \in [RadioRegister -> RadioHeld]
      BY <1>2 DEF Chips
    <3>2. foreground.cmd = <<"write", PKTLEN, TEST_VALUE>> =>
            chip = [foreground.before EXCEPT !.reg[PKTLEN] = TEST_VALUE]
      BY <1>3 DEF Effect
    <3> QED
      BY <1>2, <3>1, <3>2, SpiAssumption DEF Chips
  <2>2. todo[1][1] = "read" => todo[1] = <<"read", PKTLEN>> /\ chip.reg[PKTLEN] = TEST_VALUE
    BY <1>0, <1>1, <2>1 DEF InitReads, WrittenBefore
  <2> QED
    BY <1>0, <1>1, <1>6, <2>2 DEF InitReads, WrittenBefore
<1> QED
  BY <1>7, <1>8, <1>9 DEF SpiIInv

LEMMA Port2irqKeeps == SpiIInv /\ port2irq => SpiIInv'
<1> SUFFICES ASSUME SpiIInv, port2irq PROVE SpiIInv'
  OBVIOUS
<1>0. /\ SpiTypes /\ SpiSound(foreground) /\ SpiSound(irq) /\ Outstanding /\ Between /\ Nested
      /\ ByThemselves /\ CarriedOut(foreground) /\ CarriedOut(irq) /\ InitReads
      /\ foreground \in Contexts /\ irq \in Contexts
  BY DEF SpiIInv, SpiTypes
<1>1. /\ irq.pc = "idle" /\ foreground.pc # "done"
      /\ UNCHANGED <<firmware, chip, chip_frame, spiVars, todo, gdo0_cb, commands>>
  BY DEF port2irq
<1>2. CASE ~("GDO0" \in P2_IFG /\ gdo0_cb)
  <2>1. UNCHANGED <<irq, foreground>>
    BY <1>2 DEF port2irq
  <2> QED
    BY <1>0, <1>1, <2>1
    DEF SpiIInv, SpiTypes, SpiSound, Outstanding, Between, Nested, ByThemselves, Progress, CarriedOut,
        InitReads, WrittenBefore, ReadBack, InFrame, SpiWaits, spiVars
<1>3. CASE "GDO0" \in P2_IFG /\ gdo0_cb
  <2>1. PICK c \in Command : irq' = [Begun(c) EXCEPT !.crossed = InFrame(foreground)]
    BY <1>3 DEF port2irq
  <2>2. foreground' = IF InFrame(foreground) THEN [foreground EXCEPT !.crossed = TRUE] ELSE foreground
    BY <1>3 DEF port2irq
  <2>3. /\ irq' \in Contexts /\ irq'.pc = "select" /\ irq'.cmd = c /\ irq'.i = 1 /\ irq'.got = <<>>
        /\ (irq'.crossed <=> InFrame(foreground))
    <3>1. PICK x \in BOOLEAN : x = InFrame(foreground)
      BY DEF InFrame
    <3>2. irq' = [Begun(c) EXCEPT !.crossed = x]
      BY <2>1, <3>1
    <3> QED
      BY <3>1, <3>2, NoCommandType DEF Contexts
  <2>4. /\ foreground' \in Contexts /\ foreground'.pc = foreground.pc /\ foreground'.cmd = foreground.cmd
        /\ foreground'.i = foreground.i /\ foreground'.got = foreground.got
        /\ foreground'.before = foreground.before
        /\ (InFrame(foreground) => foreground'.crossed)
    <3>1. CASE InFrame(foreground)
      BY <1>0, <2>2, <3>1 DEF Contexts
    <3>2. CASE ~InFrame(foreground)
      BY <1>0, <2>2, <3>2
    <3> QED
      BY <3>1, <3>2
  <2>5. InFrame(foreground') <=> InFrame(foreground)
    BY <2>4 DEF InFrame
  <2>6. SpiTypes'
    BY <1>0, <1>1, <2>3, <2>4 DEF SpiTypes, spiVars
  <2>7. SpiSound(foreground)' /\ SpiSound(irq)'
    <3>1. 1 \in 1 .. Count(c)
      BY TransfersAre
    <3> QED
      BY <1>0, <2>3, <2>4, <3>1 DEF SpiSound
  <2>8. Outstanding'
    BY <1>0, <1>1, <2>3, <2>4 DEF Outstanding, SpiWaits, spiVars
  <2>9. Between' /\ Nested' /\ ByThemselves' /\ CarriedOut(foreground)' /\ CarriedOut(irq)'
    BY <1>0, <1>1, <2>3, <2>4, <2>5
    DEF Between, Nested, ByThemselves, CarriedOut, InFrame, spiVars
  <2>10. InitReads'
    BY <1>0, <1>1, <1>3 DEF InitReads
  <2> QED
    BY <2>6, <2>7, <2>8, <2>9, <2>10 DEF SpiIInv
<1> QED
  BY <1>2, <1>3

LEMMA InterruptReturnsKeeps == SpiIInv /\ InterruptReturns => SpiIInv'
<1> SUFFICES ASSUME SpiIInv, InterruptReturns PROVE SpiIInv'
  OBVIOUS
<1>0. /\ SpiTypes /\ SpiSound(foreground) /\ SpiSound(irq) /\ Outstanding /\ Between /\ Nested
      /\ ByThemselves /\ CarriedOut(foreground) /\ CarriedOut(irq) /\ InitReads
  BY DEF SpiIInv
<1>1. /\ irq.pc = "done" /\ irq' = NoCommand
      /\ UNCHANGED <<firmware, chip, chip_frame, spiVars, foreground, todo, gdo0_cb, commands>>
  BY DEF InterruptReturns
<1>2. irq' \in Contexts /\ irq'.pc = "idle" /\ ~irq'.crossed
  BY <1>1, NoCommandType
<1>3. InFrame(foreground) => foreground.crossed
  BY <1>0, <1>1 DEF Nested
<1>4. SpiTypes'
  BY <1>0, <1>1, <1>2 DEF SpiTypes, spiVars
<1>5. Outstanding' /\ Between' /\ Nested' /\ ByThemselves' /\ SpiSound(foreground)' /\ SpiSound(irq)'
  BY <1>0, <1>1, <1>2, <1>3
  DEF Outstanding, Between, Nested, ByThemselves, InFrame, SpiWaits, SpiSound, spiVars
<1>6. CarriedOut(foreground)' /\ CarriedOut(irq)'
  BY <1>0, <1>1, <1>2 DEF CarriedOut
<1>7. InitReads'
  BY <1>0, <1>1 DEF InitReads
<1> QED
  BY <1>4, <1>5, <1>6, <1>7 DEF SpiIInv

\* What the radio's bus keeps.
LEMMA RadioBusKeeps ==
  /\ RadioBusInit => SpiIInv
  /\ SpiIInv /\ [RadioBusNext]_radioBusVars => SpiIInv'
  /\ SpiIInv => CommandsArrive
<1>1. ASSUME SpiIInv,
             cc2500_gdo0_int_set_cb \/ LineRises("GDO0") \/ LineRises("GDO2") \/ UNCHANGED radioBusVars
      PROVE  SpiIInv'
  <2>1. /\ UNCHANGED <<firmware, chip, chip_frame, spiVars, foreground, irq, todo>>
        /\ todo # <<>> => UNCHANGED gdo0_cb
    BY <1>1 DEF cc2500_gdo0_int_set_cb, LineRises, radioBusVars
  <2> QED
    BY <1>1, <2>1
    DEF SpiIInv, SpiTypes, SpiSound, Outstanding, Between, Nested, ByThemselves, Progress, CarriedOut,
        InitReads, WrittenBefore, ReadBack, InFrame, SpiWaits, spiVars
<1>2. SpiIInv /\ [RadioBusNext]_radioBusVars => SpiIInv'
  BY <1>1, ShiftOctetKeeps, CallCommandKeeps, ReturnCommandKeeps, MainAccessKeeps, IrqAccessKeeps,
     Port2irqKeeps, InterruptReturnsKeeps
  DEF RadioBusNext
<1>3. SpiIInv => CommandsArrive
  <2> SUFFICES ASSUME SpiIInv PROVE CommandsArrive
    OBVIOUS
  <2>0. /\ SpiTypes /\ SpiSound(foreground) /\ SpiSound(irq) /\ Outstanding /\ Between
        /\ CarriedOut(foreground) /\ CarriedOut(irq) /\ UCB0RXIFG \in BOOLEAN
    BY DEF SpiIInv, SpiTypes
  <2>1. foreground.pc = "idle" /\ irq.pc = "idle" =>
          CSn /\ chip_frame = <<"header">> /\ shifting = <<>> /\ ~UCB0RXIFG
    BY <2>0, Quiet DEF Between, InFrame
  <2>2. foreground.pc = "take" \/ irq.pc = "take" => UCB0RXIFG \/ UCBUSY
    <3> SUFFICES ASSUME foreground.pc = "take" \/ irq.pc = "take", shifting = <<>>, ~UCB0RXIFG
                 PROVE  FALSE
      BY DEF UCBUSY
    <3>1. Len(shifting) = 0 /\ Flag(UCB0RXIFG) = 0
      BY DEF Flag
    <3>2. SpiWaits(foreground) + SpiWaits(irq) > 0
      BY DEF SpiWaits
    <3> QED
      BY <2>0, <3>1, <3>2 DEF Outstanding
  <2>3. foreground.pc # "hung" /\ irq.pc # "hung"
    BY <2>0 DEF SpiSound
  <2> QED
    BY <2>0, <2>1, <2>2, <2>3 DEF CommandsArrive
<1> QED
  BY <1>2, <1>3, SpiInitIInv
=============================================================================
