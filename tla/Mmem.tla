-------------------------------- MODULE Mmem --------------------------------
(***************************************************************************)
(* core/lib/mmem.c: blocks side by side in one array, in the order they    *)
(* were allocated.  Freeing one moves those behind it.  A block is         *)
(* allocated by whoever does not have it and freed by whoever has, as      *)
(* mmem.c asks.                                                            *)
(***************************************************************************)
EXTENDS Integers, Sequences

CONSTANTS
  MMEM_SIZE,
  Block,      \* the struct mmem of the program
  Size,       \* the sizes asked for
  NoOctet     \* what no one has written

ASSUME MmemAssumption == MMEM_SIZE \in Nat /\ Size \subseteq Nat

VARIABLES
  mmemlist,
  avail_memory,
  memory,
  mmem,       \* of each block, its size and ptr
  filled      \* history: the blocks whose owner has written all of them

mmemVars == <<mmemlist, avail_memory, memory, mmem, filled>>

Allocated == {mmemlist[i] : i \in DOMAIN mmemlist}
End == MMEM_SIZE - avail_memory

\* What the owner of m writes at place k of it.
Content(m, k) == <<m, k>>

\* mmem_init
MmemInit ==
  /\ mmemlist = <<>>
  /\ avail_memory = MMEM_SIZE
  /\ memory = [k \in 0 .. MMEM_SIZE - 1 |-> NoOctet]
  /\ mmem = [m \in Block |-> [size |-> 0, ptr |-> 0]]
  /\ filled = {}

\* Where there is not enough left the result is 0, and nothing else happens.
mmem_alloc(m, s) ==
  /\ m \notin Allocated
  /\ avail_memory >= s
  /\ mmemlist' = Append(mmemlist, m)
  /\ mmem' = [mmem EXCEPT ![m] = [size |-> s, ptr |-> End]]
  /\ avail_memory' = avail_memory - s
  /\ UNCHANGED <<memory, filled>>

\* The owner writes the block through MMEM_PTR.
Fill(m) ==
  /\ m \in Allocated \ filled
  /\ memory' = [k \in DOMAIN memory |->
       IF k \in mmem[m].ptr .. mmem[m].ptr + mmem[m].size - 1
       THEN Content(m, k - mmem[m].ptr) ELSE memory[k]]
  /\ filled' = filled \cup {m}
  /\ UNCHANGED <<mmemlist, avail_memory, mmem>>

\* list_remove
Without(i) ==
  [j \in 1 .. Len(mmemlist) - 1 |-> mmemlist[IF j < i THEN j ELSE j + 1]]

\* memmove of what is behind the block at i to where that block is.
memmove(i) ==
  IF i < Len(mmemlist)
  THEN LET to == mmem[mmemlist[i]].ptr
           from == mmem[mmemlist[i + 1]].ptr
       IN  [k \in DOMAIN memory |->
              IF k \in to .. to + (End - from) - 1 THEN memory[k + (from - to)]
                                                   ELSE memory[k]]
  ELSE memory

\* Mutant: only the next block is told that it has moved.
NextMoves(i) == {mmemlist[j] : j \in (i + 1 .. i + 1) \cap DOMAIN mmemlist}

Moved(i) == {mmemlist[j] : j \in i + 1 .. Len(mmemlist)}

mmem_free(i) ==
  /\ memory' = memmove(i)
  /\ mmem' = [m \in Block |->
       IF m \in Moved(i) THEN [mmem[m] EXCEPT !.ptr = @ - mmem[mmemlist[i]].size]
                         ELSE mmem[m]]
  /\ avail_memory' = avail_memory + mmem[mmemlist[i]].size
  /\ mmemlist' = Without(i)
  /\ filled' = filled \ {mmemlist[i]}

MmemNext ==
  \/ \E m \in Block, s \in Size : mmem_alloc(m, s)
  \/ \E m \in Block : Fill(m)
  \/ \E i \in 1 .. Len(mmemlist) : mmem_free(i)

MmemSpec == MmemInit /\ [][MmemNext]_mmemVars

-----------------------------------------------------------------------------
(***************************************************************************)
(* Properties.                                                             *)
(***************************************************************************)
MmemTypeOK ==
  /\ mmemlist \in Seq(Block)
  /\ avail_memory \in 0 .. MMEM_SIZE
  /\ DOMAIN memory = 0 .. MMEM_SIZE - 1
  /\ mmem \in [Block -> [size : Nat, ptr : Nat]]
  /\ filled \subseteq Allocated

\* The blocks lie in the order of the list, without overlap, each up against
\* the next, and the last one ends where the free memory begins.
Layout ==
  /\ \A i, j \in 1 .. Len(mmemlist) : i < j =>
       /\ mmemlist[i] # mmemlist[j]
       /\ mmem[mmemlist[i]].ptr + mmem[mmemlist[i]].size <= mmem[mmemlist[j]].ptr
  /\ \A i \in 1 .. Len(mmemlist) :
       mmem[mmemlist[i]].ptr + mmem[mmemlist[i]].size =
         IF i = Len(mmemlist) THEN End ELSE mmem[mmemlist[i + 1]].ptr
  /\ IF mmemlist = <<>> THEN End = 0 ELSE mmem[mmemlist[1]].ptr = 0

Kept(m) ==
  \A k \in 0 .. mmem[m].size - 1 : memory[mmem[m].ptr + k] = Content(m, k)

\* Whatever is allocated and freed around it, and however often it is moved, a
\* block holds what its owner wrote, MMEM_PTR points to it, and no memory is
\* lost: the free memory is all that the blocks leave.
BlocksIntact == MmemTypeOK /\ Layout /\ \A m \in filled : Kept(m)
=============================================================================
