-------------------------------- MODULE Codes --------------------------------
(***************************************************************************)
(* The arithmetic of core/lib.  The codes: me.c's Manchester code, with    *)
(* what the tables of me_tabs.c hold as rules on bits, and crc16.c's       *)
(* running checksum; their user sends bytes in Manchester code over a line *)
(* and compares checksums.  And the random numbers: rand.c's generator, in *)
(* two 16-bit words as the code computes it, behind random.c.              *)
(***************************************************************************)
EXTENDS Integers

CONSTANTS
  SentByte,  \* the bytes sent, as functions from 0 .. 7 to bits
  Damage,    \* sets of bits of a 16-bit word that the line may invert at once
  MaxLength, \* bound: bytes in a message
  Seed,      \* seeds of random_init, which are 16-bit words
  Leftover,  \* what rand_state, in .noinit, may hold at a start: <<upper, lower word>>
  MaxDrawn   \* bound: numbers drawn

VARIABLES
  length,     \* bytes sent
  acc,        \* the checksum of what was sent, and of what was received
  rcv_acc,
  invalid,    \* an octet came that me_valid refuses
  hit,        \* the word a disturbance began with, 0 if there was none
  remainder,  \* history: of the division that defines the checksum
  rand_state, \* <<upper, lower word>>
  drawn,
  value       \* history: the state the published generator is in

codesVars == <<length, acc, rcv_acc, invalid, hit, remainder>>
randVars == <<rand_state, drawn, value>>

Zero == [i \in 0 .. 15 |-> 0]
Xor(a, b) == [i \in 0 .. 15 |-> (a[i] + b[i]) % 2]
Left(w, n) == [i \in 0 .. 15 |-> IF i < n THEN 0 ELSE w[i - n]]
Right(w, n) == [i \in 0 .. 15 |-> IF i + n > 15 THEN 0 ELSE w[i + n]]
Low(w) == [i \in 0 .. 7 |-> w[i]]
High(w) == [i \in 0 .. 7 |-> w[i + 8]]
Wide(b) == [i \in 0 .. 15 |-> IF i < 8 THEN b[i] ELSE 0]
HighOnly(w) == Left(Wide(High(w)), 8)

\* The tables: the bit in the upper place of its pair, its inverse in the lower;
\* the upper bit of each pair; no pair of equal bits.
me_encode_tab(c) == [i \in 0 .. 15 |-> IF i % 2 = 1 THEN c[i \div 2] ELSE 1 - c[i \div 2]]
me_decode_tab(m) == [i \in 0 .. 3 |-> m[2 * i + 1]]
me_valid_tab(m) == \A i \in 0 .. 3 : m[2 * i] # m[2 * i + 1]

me_encode(c) == me_encode_tab(c)
me_decode8(m) == me_decode_tab(m)
me_decode16(m) ==
  LET m1 == me_decode8(High(m))
      m2 == me_decode8(Low(m))
  IN [i \in 0 .. 7 |-> IF i < 4 THEN m2[i] ELSE m1[i - 4]]
me_valid(m) == me_valid_tab(m)

\* acc ^= b, its octets exchanged.
Mixed(b, a) ==
  LET x == Xor(a, Wide(b)) IN Xor(Right(x, 8), Left(x, 8))

\* Mutant: without the last line.
LastLineLost(b, a) ==
  LET x == Mixed(b, a)
      y == Xor(x, Left(HighOnly(x), 4))
  IN Xor(y, Right(y, 12))

crc16_add(b, a) ==
  LET x == Mixed(b, a)
      y == Xor(x, Left(HighOnly(x), 4))
      z == Xor(y, Right(y, 12))
  IN Xor(z, Right(HighOnly(z), 5))

\* x^16 + x^12 + x^5 + 1, the powers from the highest bit down.
Polynomial == [i \in 0 .. 15 |-> IF i \in {15, 10, 3} THEN 1 ELSE 0]

\* One step of the division for each bit of the byte, the lowest first.
Divided(b, r) ==
  LET after[i \in 0 .. 8] ==
        IF i = 0 THEN Xor(r, Wide(b))
        ELSE LET before == after[i - 1]
             IN IF before[0] = 1 THEN Xor(Right(before, 1), Polynomial) ELSE Right(before, 1)
  IN after[8]

CodesInit ==
  /\ length = 0 /\ acc = Zero /\ rcv_acc = Zero /\ remainder = Zero
  /\ invalid = FALSE /\ hit = 0

\* crc16_data on both sides, byte by byte; a disturbance touches two bytes at most.
SendByte(b, e) ==
  /\ length < MaxLength
  /\ e # {} => hit \in {0, length}
  /\ length' = length + 1
  /\ acc' = crc16_add(b, acc)
  /\ remainder' = Divided(b, remainder)
  /\ hit' = IF e # {} /\ hit = 0 THEN length + 1 ELSE hit
  /\ LET code == me_encode(b)
         came == [i \in 0 .. 15 |-> IF i \in e THEN 1 - code[i] ELSE code[i]]
     IN /\ invalid' = (invalid \/ ~me_valid(Low(came)) \/ ~me_valid(High(came)))
        /\ rcv_acc' = crc16_add(me_decode16(came), rcv_acc)

CodesNext == \E b \in SentByte, e \in Damage \cup {{}} : SendByte(b, e)

-----------------------------------------------------------------------------
(***************************************************************************)
(* The random numbers.                                                     *)
(***************************************************************************)
WORD_RANGE == 65536
Modulus == 2147483647

Value(w) == w[1] * WORD_RANGE + w[2]

\* The published generator, 16807 * v mod 2^31 - 1, by Schrage's method.
Multiplied(v) ==
  LET d == 16807 * (v % 127773) - 2836 * (v \div 127773) IN IF d > 0 THEN d ELSE d + Modulus

RandInit ==
  /\ rand_state \in Leftover /\ value = Value(rand_state)
  /\ drawn = 0

Plus(w, hi, lo) ==
  <<(w[1] + hi + (w[2] + lo) \div WORD_RANGE) % WORD_RANGE, (w[2] + lo) % WORD_RANGE>>

\* Mutant: what is above the 31st bit is cut off, not folded back.
CutOff(w) == <<w[1] % 32768, w[2]>>

\* lo -= 0x7fffffff, if (int32_t)lo <= 0.
Folded(w) == IF w[1] >= 32768 \/ w = <<0, 0>> THEN Plus(w, 32768, 1) ELSE w

rand ==
  LET lo == 16807 * rand_state[2]
      hi == 16807 * rand_state[1]
      sum == Plus(<<lo \div WORD_RANGE, lo % WORD_RANGE>>, hi % 32768, 0)
  IN Folded(Plus(sum, 0, ((2 * hi) \div WORD_RANGE) % WORD_RANGE))

random_rand ==
  /\ drawn < MaxDrawn
  /\ drawn' = drawn + 1
  /\ rand_state' = rand
  /\ value' = IF value = 0 THEN 0 ELSE Multiplied(value)

\* srand.
random_init(seed) ==
  /\ rand_state' = <<0, seed>> /\ value' = seed
  /\ drawn' = 0

RandNext == random_rand \/ \E s \in Seed : random_init(s)

-----------------------------------------------------------------------------
(***************************************************************************)
(* Properties.                                                             *)
(***************************************************************************)

\* The shifts of crc16_add make up the division by the CCITT polynomial, and what a
\* line does to a message in one disturbance of up to two bytes is noticed by
\* me_valid or by the checksum; a message that came as it was sent passes both.
DamageNoticed ==
  /\ acc = remainder
  /\ IF hit = 0 THEN ~invalid /\ rcv_acc = acc ELSE invalid \/ rcv_acc # acc

\* Two 16-bit multiplications and a fold compute the minimal standard generator of
\* Park and Miller, from every seed that is not 0; a state of 0, where that
\* generator stays, is left.
MinimalStandard ==
  IF value # 0 THEN Value(rand_state) = value
  ELSE drawn > 0 => rand_state # <<0, 0>>

\* The 16-bit arithmetic of the library (crc16_add, me_encode, random_rand)
\* computes the functions it stands for, where its shifts and folds overflow too.
NumbersAsMeant == DamageNoticed /\ MinimalStandard
=============================================================================
