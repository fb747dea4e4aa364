----------------------------- MODULE Unaligned -----------------------------
(***************************************************************************)
(* The unaligned loads and stores of the functional simulator: LWL, LWR,   *)
(* SWL and SWR (I_hate_these_instructions.h, with the masks of ss.cc), in  *)
(* the little-endian build, and what a pair of them does together.         *)
(*                                                                         *)
(* A word is its four bytes, lowest first; a mask is the set of the bytes  *)
(* it keeps; a memory gives each address its byte.                         *)
(***************************************************************************)
EXTENDS Integers, TLAPS

CONSTANT Bytes      \* values of a byte

Words == [1 .. 4 -> Bytes]
Memories == [Nat -> Bytes]

\* WORDALIGN, WL_SIZE, WR_SIZE
WORDALIGN(a) == a - (a % 4)
WL_SIZE(a) == 4 - (a % 4)
WR_SIZE(a) == (a % 4) + 1

\* ss_lr_masks: mask k keeps the lowest 4 - k bytes.
ss_lr_masks(k) == 1 .. 4 - k
Blend(mask, x, y) == [i \in 1 .. 4 |-> IF i \in mask THEN x[i] ELSE y[i]]

\* w << 8k and w >> 8k
ShiftLeft(w, k) == [i \in 1 .. 4 |-> IF i > k THEN w[i - k] ELSE 0]
ShiftRight(w, k) == [i \in 1 .. 4 |-> IF i + k <= 4 THEN w[i + k] ELSE 0]

LWL_MACRO(a, load, back) ==
    Blend(ss_lr_masks(WR_SIZE(a)), back, ShiftLeft(load, WL_SIZE(a) - 1))
LWR_MACRO(a, load, back) ==
    Blend(ss_lr_masks(4 - WL_SIZE(a)), ShiftRight(load, WR_SIZE(a) - 1), back)
SWL_MACRO(a, store, back) ==
    Blend(ss_lr_masks(4 - WR_SIZE(a)), ShiftRight(store, 4 - WR_SIZE(a)), back)
SWR_MACRO(a, store, back) ==
    Blend(ss_lr_masks(WL_SIZE(a)), back, ShiftLeft(store, 4 - WL_SIZE(a)))

\* READ_WORD and WRITE_WORD of an aligned word.
READ_WORD(m, a) == [i \in 1 .. 4 |-> m[a + i - 1]]
WRITE_WORD(m, a, w) == [b \in Nat |-> IF b \in a .. a + 3 THEN w[b - a + 1] ELSE m[b]]

\* The instructions at address a: the register and the memory they leave.
LWL(m, a, reg) == LWL_MACRO(a, READ_WORD(m, WORDALIGN(a)), reg)
LWR(m, a, reg) == LWR_MACRO(a, READ_WORD(m, WORDALIGN(a)), reg)
SWL(m, a, reg) ==
    WRITE_WORD(m, WORDALIGN(a), SWL_MACRO(a, reg, READ_WORD(m, WORDALIGN(a))))
SWR(m, a, reg) ==
    WRITE_WORD(m, WORDALIGN(a), SWR_MACRO(a, reg, READ_WORD(m, WORDALIGN(a))))

----------------------------------------------------------------------------
(* Loads                                                                   *)

\* An address is an aligned one and an offset of 0 to 3.
LEMMA Aligned ==
    ASSUME NEW a \in Nat
    PROVE  /\ a % 4 \in 0 .. 3
           /\ WORDALIGN(a) \in Nat
           /\ a = WORDALIGN(a) + (a % 4)
           /\ WORDALIGN(a + 3) = IF a % 4 = 0 THEN WORDALIGN(a) ELSE WORDALIGN(a) + 4
           /\ (a + 3) % 4 = IF a % 4 = 0 THEN 3 ELSE (a % 4) - 1
BY DEF WORDALIGN

\* Byte by byte: LWR at a takes the bytes from a on, up to the end of its word,
\* to the low bytes of the register and keeps the others.
LEMMA LoadRight ==
    ASSUME NEW a \in Nat, NEW m \in Memories, NEW reg \in Words, NEW i \in 1 .. 4
    PROVE  LWR(m, a, reg)[i] = IF i + (a % 4) <= 4 THEN m[a + i - 1] ELSE reg[i]
<1>1. /\ a % 4 \in 0 .. 3
      /\ a = WORDALIGN(a) + (a % 4)
  BY Aligned
<1> DEFINE r == a % 4
           word == READ_WORD(m, WORDALIGN(a))
<1>2. /\ WORDALIGN(a) \in Nat
      /\ \A j \in 1 .. 4 : word[j] = m[WORDALIGN(a) + j - 1]
  BY Aligned DEF READ_WORD
<1>3. LWR(m, a, reg)[i] = IF i \in 1 .. 4 - (4 - (4 - r))
                          THEN IF i + (r + 1 - 1) <= 4 THEN word[i + (r + 1 - 1)] ELSE 0
                          ELSE reg[i]
  BY DEF LWR, LWR_MACRO, Blend, ShiftRight, ss_lr_masks, WL_SIZE, WR_SIZE
<1> HIDE DEF r, word
<1>4. r \in 0 .. 3 /\ a = WORDALIGN(a) + r
  BY <1>1 DEF r
<1>5. LWR(m, a, reg)[i] = IF i + r <= 4 THEN word[i + r] ELSE reg[i]
  <2>1. 4 - (4 - (4 - r)) = 4 - r /\ r + 1 - 1 = r
    BY <1>4
  <2> QED BY <1>3, <1>4, <2>1
<1>6. CASE i + r <= 4
  <2>1. word[i + r] = m[WORDALIGN(a) + (i + r) - 1]
    BY <1>2, <1>4, <1>6
  <2>2. WORDALIGN(a) + (i + r) - 1 = a + i - 1
    BY <1>2, <1>4
  <2> QED BY <1>5, <1>6, <2>1, <2>2 DEF r
<1>7. CASE ~(i + r <= 4)
  BY <1>5, <1>7 DEF r
<1> QED BY <1>6, <1>7

\* LWL at a takes the bytes up to a, from the start of its word, to the high
\* bytes of the register and keeps the others.
LEMMA LoadLeft ==
    ASSUME NEW a \in Nat, NEW m \in Memories, NEW reg \in Words, NEW i \in 1 .. 4
    PROVE  LWL(m, a, reg)[i] = IF i + (a % 4) > 3 THEN m[a - 4 + i] ELSE reg[i]
<1>1. /\ a % 4 \in 0 .. 3
      /\ a = WORDALIGN(a) + (a % 4)
  BY Aligned
<1> DEFINE r == a % 4
           word == READ_WORD(m, WORDALIGN(a))
<1>2. /\ WORDALIGN(a) \in Nat
      /\ \A j \in 1 .. 4 : word[j] = m[WORDALIGN(a) + j - 1]
  BY Aligned DEF READ_WORD
<1>3. LWL(m, a, reg)[i] = IF i \in 1 .. 4 - (r + 1)
                          THEN reg[i]
                          ELSE IF i > 4 - r - 1 THEN word[i - (4 - r - 1)] ELSE 0
  BY DEF LWL, LWL_MACRO, Blend, ShiftLeft, ss_lr_masks, WL_SIZE, WR_SIZE
<1> HIDE DEF r, word
<1>4. r \in 0 .. 3 /\ a = WORDALIGN(a) + r
  BY <1>1 DEF r
<1>5. LWL(m, a, reg)[i] = IF i + r > 3 THEN word[i + r - 3] ELSE reg[i]
  <2>1. i - (4 - r - 1) = i + r - 3 /\ (i > 4 - r - 1 <=> i + r > 3)
        /\ (i \in 1 .. 4 - (r + 1) <=> ~(i + r > 3))
    BY <1>4
  <2> QED BY <1>3, <2>1
<1>6. CASE i + r > 3
  <2>1. word[i + r - 3] = m[WORDALIGN(a) + (i + r - 3) - 1]
    BY <1>2, <1>4, <1>6
  <2>2. WORDALIGN(a) + (i + r - 3) - 1 = a - 4 + i
    BY <1>2, <1>4
  <2> QED BY <1>5, <1>6, <2>1, <2>2 DEF r
<1>7. CASE ~(i + r > 3)
  BY <1>5, <1>7 DEF r
<1> QED BY <1>6, <1>7

LEMMA LoadTypes ==
    ASSUME NEW a \in Nat, NEW m \in Memories, NEW reg \in Words
    PROVE  LWL(m, a, reg) \in Words /\ LWR(m, a, reg) \in Words
<1>1. /\ LWL(m, a, reg) = [i \in 1 .. 4 |-> LWL(m, a, reg)[i]]
      /\ LWR(m, a, reg) = [i \in 1 .. 4 |-> LWR(m, a, reg)[i]]
  BY DEF LWL, LWR, LWL_MACRO, LWR_MACRO, Blend
<1>2. ASSUME NEW i \in 1 .. 4
      PROVE  LWL(m, a, reg)[i] \in Bytes /\ LWR(m, a, reg)[i] \in Bytes
  <2>1. a % 4 \in 0 .. 3
    BY Aligned
  <2>2. a >= a % 4
    <3>1. WORDALIGN(a) \in Nat /\ a = WORDALIGN(a) + (a % 4)
      BY Aligned
    <3> QED BY <2>1, <3>1
  <2>3. i + (a % 4) > 3 => a - 4 + i \in Nat
    BY <2>1, <2>2
  <2>4. a + i - 1 \in Nat
    OBVIOUS
  <2> QED BY <2>3, <2>4, LoadLeft, LoadRight DEF Memories, Words
<1> QED BY <1>1, <1>2 DEF Words

\* The idiom of the compiler for a word at any address a, LWR at a and LWL at
\* a + 3, in either order, loads its four bytes (READ_WORD reads them wherever
\* they are), whatever was in the register.
THEOREM UnalignedLoad ==
    ASSUME NEW a \in Nat, NEW m \in Memories, NEW reg \in Words
    PROVE  /\ LWR(m, a, LWL(m, a + 3, reg)) = READ_WORD(m, a)
           /\ LWL(m, a + 3, LWR(m, a, reg)) = READ_WORD(m, a)
<1> DEFINE r == a % 4
<1>1. r \in 0 .. 3 /\ (a + 3) % 4 = IF r = 0 THEN 3 ELSE r - 1
  BY Aligned
<1>2. LWL(m, a + 3, reg) \in Words /\ LWR(m, a, reg) \in Words
  BY LoadTypes
<1>3. ASSUME NEW i \in 1 .. 4
      PROVE  /\ LWR(m, a, LWL(m, a + 3, reg))[i] = m[a + i - 1]
             /\ LWL(m, a + 3, LWR(m, a, reg))[i] = m[a + i - 1]
  <2>1. \A w \in Words : LWR(m, a, w)[i] = IF i + r <= 4 THEN m[a + i - 1] ELSE w[i]
    BY LoadRight
  <2>2. \A w \in Words : LWL(m, a + 3, w)[i] =
                IF i + ((a + 3) % 4) > 3 THEN m[a + 3 - 4 + i] ELSE w[i]
    BY LoadLeft
  <2>3. a + 3 - 4 + i = a + i - 1
    OBVIOUS
  <2>4. i + r <= 4 \/ i + ((a + 3) % 4) > 3
    BY <1>1
  <2> HIDE DEF r
  <2> QED BY <1>2, <2>1, <2>2, <2>3, <2>4
<1>4. /\ LWR(m, a, LWL(m, a + 3, reg)) = [i \in 1 .. 4 |-> LWR(m, a, LWL(m, a + 3, reg))[i]]
      /\ LWL(m, a + 3, LWR(m, a, reg)) = [i \in 1 .. 4 |-> LWL(m, a + 3, LWR(m, a, reg))[i]]
  BY DEF LWL, LWR, LWL_MACRO, LWR_MACRO, Blend
<1> QED BY <1>3, <1>4 DEF READ_WORD

----------------------------------------------------------------------------
(* Stores                                                                  *)

\* Byte by byte: SWR at a writes the low bytes of the register from a to the end
\* of its word, and nothing else.
LEMMA StoreRight ==
    ASSUME NEW a \in Nat, NEW m \in Memories, NEW reg \in Words, NEW b \in Nat
    PROVE  SWR(m, a, reg)[b] =
               IF b >= a /\ b <= WORDALIGN(a) + 3 THEN reg[b - a + 1] ELSE m[b]
<1> DEFINE r == a % 4
           A == WORDALIGN(a)
           i == b - A + 1
<1>1. r \in 0 .. 3 /\ A \in Nat /\ a = A + r
  BY Aligned
<1>2. SWR(m, a, reg)[b] = IF b \in A .. A + 3 THEN SWR_MACRO(a, reg, READ_WORD(m, A))[i] ELSE m[b]
  BY DEF SWR, WRITE_WORD
<1>3. CASE b \in A .. A + 3
  <2>1. i \in 1 .. 4
    BY <1>1, <1>3
  <2>2. SWR_MACRO(a, reg, READ_WORD(m, A))[i] =
            IF i \in 1 .. 4 - (4 - r) THEN READ_WORD(m, A)[i]
            ELSE IF i > 4 - (4 - r) THEN reg[i - (4 - (4 - r))] ELSE 0
    BY <2>1 DEF SWR_MACRO, Blend, ShiftLeft, ss_lr_masks, WL_SIZE
  <2>3. READ_WORD(m, A)[i] = m[A + i - 1]
    BY <2>1 DEF READ_WORD
  <2> HIDE DEF r, A
  <2>4. A + i - 1 = b /\ 4 - (4 - r) = r /\ i - r = b - a + 1
    BY <1>1
  <2>5. i \in 1 .. r <=> b < a
    BY <1>1, <2>1
  <2>6. i > r <=> b >= a
    BY <1>1
  <2> QED BY <1>1, <1>2, <1>3, <2>2, <2>3, <2>4, <2>5, <2>6 DEF A
<1>4. CASE ~(b \in A .. A + 3)
  <2>1. ~(b >= a /\ b <= A + 3)
    BY <1>1, <1>4
  <2> QED BY <1>2, <1>4, <2>1
<1> QED BY <1>3, <1>4

\* SWL at a writes the high bytes of the register from the start of a's word up
\* to a, and nothing else.
LEMMA StoreLeft ==
    ASSUME NEW a \in Nat, NEW m \in Memories, NEW reg \in Words, NEW b \in Nat
    PROVE  SWL(m, a, reg)[b] =
               IF b >= WORDALIGN(a) /\ b <= a THEN reg[b - a + 4] ELSE m[b]
<1> DEFINE r == a % 4
           A == WORDALIGN(a)
           i == b - A + 1
<1>1. r \in 0 .. 3 /\ A \in Nat /\ a = A + r
  BY Aligned
<1>2. SWL(m, a, reg)[b] = IF b \in A .. A + 3 THEN SWL_MACRO(a, reg, READ_WORD(m, A))[i] ELSE m[b]
  BY DEF SWL, WRITE_WORD
<1>3. CASE b \in A .. A + 3
  <2>1. i \in 1 .. 4
    BY <1>1, <1>3
  <2>2. SWL_MACRO(a, reg, READ_WORD(m, A))[i] =
            IF i \in 1 .. 4 - (4 - (r + 1))
            THEN IF i + (4 - (r + 1)) <= 4 THEN reg[i + (4 - (r + 1))] ELSE 0
            ELSE READ_WORD(m, A)[i]
    BY <2>1 DEF SWL_MACRO, Blend, ShiftRight, ss_lr_masks, WR_SIZE
  <2>3. READ_WORD(m, A)[i] = m[A + i - 1]
    BY <2>1 DEF READ_WORD
  <2> HIDE DEF r, A
  <2>4. A + i - 1 = b /\ i + (4 - (r + 1)) = b - a + 4
    BY <1>1
  <2>5. /\ i \in 1 .. 4 - (4 - (r + 1)) <=> b <= a
        /\ i + (4 - (r + 1)) <= 4 <=> b <= a
    BY <1>1, <2>1
  <2>6. b >= A
    BY <1>1, <1>3
  <2> QED BY <1>2, <1>3, <2>2, <2>3, <2>4, <2>5, <2>6 DEF A
<1>4. CASE ~(b \in A .. A + 3)
  <2>1. ~(b >= A /\ b <= a)
    BY <1>1, <1>4
  <2> QED BY <1>2, <1>4, <2>1
<1> QED BY <1>3, <1>4

LEMMA StoreTypes ==
    ASSUME NEW a \in Nat, NEW m \in Memories, NEW reg \in Words
    PROVE  SWL(m, a, reg) \in Memories /\ SWR(m, a, reg) \in Memories
<1>1. /\ SWL(m, a, reg) = [b \in Nat |-> SWL(m, a, reg)[b]]
      /\ SWR(m, a, reg) = [b \in Nat |-> SWR(m, a, reg)[b]]
  BY DEF SWL, SWR, WRITE_WORD
<1>2. ASSUME NEW b \in Nat
      PROVE  SWL(m, a, reg)[b] \in Bytes /\ SWR(m, a, reg)[b] \in Bytes
  <2>1. a % 4 \in 0 .. 3 /\ WORDALIGN(a) \in Nat /\ a = WORDALIGN(a) + (a % 4)
    BY Aligned
  <2>2. b >= a /\ b <= WORDALIGN(a) + 3 => b - a + 1 \in 1 .. 4
    BY <2>1
  <2>3. b >= WORDALIGN(a) /\ b <= a => b - a + 4 \in 1 .. 4
    BY <2>1
  <2> QED BY <2>2, <2>3, StoreLeft, StoreRight DEF Memories, Words
<1> QED BY <1>1, <1>2 DEF Memories

\* SWR at a and SWL at a + 3, in either order, store the register's four bytes
\* at a and leave every other byte of memory as it was.
THEOREM UnalignedStore ==
    ASSUME NEW a \in Nat, NEW m \in Memories, NEW reg \in Words
    PROVE  /\ SWL(SWR(m, a, reg), a + 3, reg) = WRITE_WORD(m, a, reg)
           /\ SWR(SWL(m, a + 3, reg), a, reg) = WRITE_WORD(m, a, reg)
<1> DEFINE A == WORDALIGN(a)
           Above == WORDALIGN(a + 3)
<1>1. /\ a % 4 \in 0 .. 3 /\ A \in Nat /\ a = A + (a % 4)
      /\ Above = IF a % 4 = 0 THEN A ELSE A + 4
  BY Aligned
<1>2. SWR(m, a, reg) \in Memories /\ SWL(m, a + 3, reg) \in Memories
  BY StoreTypes
<1>3. ASSUME NEW b \in Nat
      PROVE  /\ SWL(SWR(m, a, reg), a + 3, reg)[b] = WRITE_WORD(m, a, reg)[b]
             /\ SWR(SWL(m, a + 3, reg), a, reg)[b] = WRITE_WORD(m, a, reg)[b]
  <2>1. \A n \in Memories :
            SWR(n, a, reg)[b] = IF b >= a /\ b <= A + 3 THEN reg[b - a + 1] ELSE n[b]
    BY StoreRight
  <2>2. \A n \in Memories :
            SWL(n, a + 3, reg)[b] =
                IF b >= Above /\ b <= a + 3 THEN reg[b - (a + 3) + 4] ELSE n[b]
    BY StoreLeft
  <2>3. WRITE_WORD(m, a, reg)[b] = IF b \in a .. a + 3 THEN reg[b - a + 1] ELSE m[b]
    BY DEF WRITE_WORD
  <2>4. b - (a + 3) + 4 = b - a + 1
    OBVIOUS
  <2> HIDE DEF A, Above
  <2>5. b \in a .. a + 3 <=> (b >= a /\ b <= A + 3) \/ (b >= Above /\ b <= a + 3)
    BY <1>1
  <2> QED BY <1>2, <2>1, <2>2, <2>3, <2>4, <2>5
<1>4. /\ SWL(SWR(m, a, reg), a + 3, reg) = [b \in Nat |-> SWL(SWR(m, a, reg), a + 3, reg)[b]]
      /\ SWR(SWL(m, a + 3, reg), a, reg) = [b \in Nat |-> SWR(SWL(m, a + 3, reg), a, reg)[b]]
      /\ WRITE_WORD(m, a, reg) = [b \in Nat |-> WRITE_WORD(m, a, reg)[b]]
  BY DEF SWL, SWR, WRITE_WORD
<1> QED BY <1>3, <1>4
============================================================================
