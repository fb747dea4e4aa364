----------------------------- MODULE BootProofs -----------------------------
(***************************************************************************)
(* Start-up, checkpoints and memory ports for every set of programs, jobs  *)
(* and checkpoints and every size of block, table, segments and stack.     *)
(***************************************************************************)
EXTENDS Boot, TLAPS, NaturalsInduction, WellFoundedInduction

-----------------------------------------------------------------------------
(* Induction over the rounds of a loop                                     *)

\* A set of numbers has a least one.
LEMMA Least ==
    ASSUME NEW S \in SUBSET Nat, S # {}
    PROVE  \E x \in S : \A y \in S : x <= y
<1> DEFINE R == {ss \in Nat \X Nat : ss[1] < ss[2]}
<1>1. IsWellFoundedOn(R, Nat)
    BY NatLessThanWellFounded DEF OpToRel
<1>2. PICK x \in S : \A y \in S : ~ (<<y, x>> \in R)
    <2> HIDE DEF R
    <2> QED BY <1>1, WFMin, Zenon
<1>3. ASSUME NEW y \in S PROVE x <= y
    <2>1. ~ (y < x) /\ x \in Nat /\ y \in Nat
        BY <1>2
    <2> QED BY <2>1
<1> QED BY <1>3

\* What holds at the start of a loop and is kept by each round holds at its end.
LEMMA Rounds ==
    ASSUME NEW n \in Nat, NEW S, 0 \in S, \A k \in 0 .. n - 1 : k \in S => k + 1 \in S
    PROVE  \A k \in 0 .. n : k \in S
<1> SUFFICES ASSUME ~ \A k \in 0 .. n : k \in S PROVE FALSE
    OBVIOUS
<1> DEFINE T == {k \in 0 .. n : k \notin S}
<1>1. T \in SUBSET Nat /\ T # {}
    OBVIOUS
<1>2. PICK x \in T : \A y \in T : x <= y
    <2> HIDE DEF T
    <2> QED BY <1>1, Least
<1>3. x \in 0 .. n /\ x \notin S /\ x # 0
    BY <1>2
<1>4. x - 1 \in 0 .. n - 1
    BY <1>3
<1>5. x - 1 \notin T
    <2>1. x - 1 \in Nat /\ x \in Nat /\ ~ (x <= x - 1)
        BY <1>3, <1>4
    <2> HIDE DEF T
    <2> QED BY <1>2, <2>1
<1>6. x - 1 \in S
    BY <1>3, <1>4, <1>5
<1> QED BY <1>3, <1>4, <1>6

\* The states of a loop: the step is a function of the round and the state before.
StatesOf(f, N, base, G) == f = [n \in 0 .. N |-> IF n = 0 THEN base ELSE G[<<n, f[n - 1]>>]]

\* A loop has a state after each of its rounds.
LEMMA LoopStates ==
    ASSUME NEW N \in Nat, NEW base, NEW G
    PROVE  \E f : StatesOf(f, N, base, G)
<1> DEFINE Upto(n, f) == f = [k \in 0 .. n |-> IF k = 0 THEN base ELSE G[<<k, f[k - 1]>>]]
           S == {n \in 0 .. N : \E f : Upto(n, f)}
<1>1. 0 \in S
    <2>1. Upto(0, [k \in 0 .. 0 |-> base])
        OBVIOUS
    <2> HIDE DEF Upto
    <2> QED BY <2>1
<1>2. ASSUME NEW n \in 0 .. N - 1, n \in S
      PROVE  n + 1 \in S
    <2>1. PICK f : Upto(n, f)
        BY <1>2, Zenon
    <2> DEFINE q == [k \in 0 .. n + 1 |-> IF k <= n THEN f[k] ELSE G[<<k, f[n]>>]]
    <2>2. ASSUME NEW k \in 0 .. n + 1
          PROVE  q[k] = IF k = 0 THEN base ELSE G[<<k, q[k - 1]>>]
        <3>1. CASE k <= n
            <4>1. f[k] = (IF k = 0 THEN base ELSE G[<<k, f[k - 1]>>])
                BY <2>1, <3>1
            <4>2. k # 0 => k - 1 \in 0 .. n + 1 /\ k - 1 <= n
                BY <3>1
            <4> QED BY <3>1, <4>1, <4>2
        <3>2. CASE k = n + 1
            <4>1. /\ n + 1 \in 0 .. n + 1 /\ ~ (n + 1 <= n) /\ n \in 0 .. n + 1
                  /\ n + 1 # 0 /\ (n + 1) - 1 = n
                OBVIOUS
            <4> QED BY <3>2, <4>1
        <3> QED BY <3>1, <3>2
    <2>3. Upto(n + 1, q)
        <3>1. q = [k \in 0 .. n + 1 |-> q[k]]
            OBVIOUS
        <3> HIDE DEF q
        <3> QED BY <2>2, <3>1
    <2>4. n + 1 \in 0 .. N
        OBVIOUS
    <2> HIDE DEF Upto, q
    <2> QED BY <2>3, <2>4
<1>3. \A k \in 0 .. N : k \in S
    <2> HIDE DEF S
    <2> QED BY <1>1, <1>2, Rounds
<1>4. PICK f : Upto(N, f)
    <2> HIDE DEF Upto
    <2> QED BY <1>3
<1>5. StatesOf(f, N, base, G)
    BY <1>4 DEF StatesOf
<1> QED BY <1>5

\* The same, for a step that stays in a set of states T.
IsLoop(f, N, T, base, G) ==
    f \in [0 .. N -> T] /\ f[0] = base /\ \A n \in 1 .. N : f[n] = G[<<n, f[n - 1]>>]

\* A loop whose step keeps its state in T is the recursive function the models use.
LEMMA TypedLoop ==
    ASSUME NEW N \in Nat, NEW T, NEW base \in T, NEW G \in [(1 .. N) \X T -> T]
    PROVE  \E f : IsLoop(f, N, T, base, G)
<1>1. PICK f : StatesOf(f, N, base, G)
    BY LoopStates
<1>2. f[0] = base
    BY <1>1 DEF StatesOf
<1>3. \A n \in 1 .. N : f[n] = G[<<n, f[n - 1]>>]
    BY <1>1 DEF StatesOf
<1> DEFINE S == {n \in 0 .. N : f[n] \in T}
<1>4. \A k \in 0 .. N : k \in S
    <2>1. 0 \in S
        BY <1>2
    <2>2. ASSUME NEW k \in 0 .. N - 1, k \in S
          PROVE  k + 1 \in S
        <3>1. k + 1 \in 1 .. N /\ k + 1 \in 0 .. N /\ (k + 1) - 1 = k
            OBVIOUS
        <3>2. f[k + 1] = G[<<k + 1, f[k]>>]
            BY <1>3, <3>1
        <3>3. <<k + 1, f[k]>> \in (1 .. N) \X T
            BY <2>2, <3>1
        <3> QED BY <3>1, <3>2, <3>3
    <2> HIDE DEF S
    <2> QED BY <2>1, <2>2, Rounds
<1>5. DOMAIN f = 0 .. N
    BY <1>1 DEF StatesOf
<1>6. f \in [0 .. N -> T]
    <2>1. f = [n \in 0 .. N |-> f[n]]
        BY <1>1 DEF StatesOf
    <2> QED BY <2>1, <1>4
<1> QED BY <1>2, <1>3, <1>6 DEF IsLoop

-----------------------------------------------------------------------------
(* Addresses                                                               *)

\* Division by a positive number.
LEMMA Division ==
    ASSUME NEW a \in Int, NEW n \in Nat \ {0}
    PROVE  /\ a \div n \in Int /\ a % n \in 0 .. n - 1
           /\ a = n * (a \div n) + (a % n)
OBVIOUS

\* Quotient and remainder are the only ones.
LEMMA DivisionIsUnique ==
    ASSUME NEW n \in Nat \ {0}, NEW q \in Int, NEW r \in 0 .. n - 1
    PROVE  (n * q + r) \div n = q /\ (n * q + r) % n = r
<1> DEFINE a == n * q + r
           p == a \div n
           s == a % n
<1>1. a \in Int /\ p \in Int /\ s \in 0 .. n - 1 /\ a = n * p + s
    BY Division
<1>2. n * q + r = n * p + s
    BY <1>1
<1>3. ~ (p >= q + 1)
    <2> SUFFICES ASSUME p >= q + 1 PROVE FALSE
        OBVIOUS
    <2>1. n * p >= n * (q + 1)
        BY <1>1
    <2>2. n * (q + 1) = n * q + n
        OBVIOUS
    <2> QED BY <1>1, <1>2, <2>1, <2>2
<1>4. ~ (q >= p + 1)
    <2> SUFFICES ASSUME q >= p + 1 PROVE FALSE
        OBVIOUS
    <2>1. n * q >= n * (p + 1)
        BY <1>1
    <2>2. n * (p + 1) = n * p + n
        BY <1>1
    <2> QED BY <1>1, <1>2, <2>1, <2>2
<1>5. p = q
    BY <1>1, <1>3, <1>4
<1> QED BY <1>1, <1>2, <1>5

\* Sums of multiples.
LEMMA Multiples ==
    ASSUME NEW n \in Nat \ {0}, NEW a \in Int, NEW b \in Int, a % n = 0, b % n = 0
    PROVE  (a + b) % n = 0
<1> DEFINE p == a \div n
           q == b \div n
<1>1. p \in Int /\ q \in Int /\ a = n * p /\ b = n * q
    BY Division
<1>2. a + b = n * (p + q) + 0
    BY <1>1
<1>3. p + q \in Int /\ 0 \in 0 .. n - 1
    BY <1>1
<1> HIDE DEF p, q
<1> QED BY <1>2, <1>3, DivisionIsUnique

\* What the assumptions say of the constants.
LEMMA Sizes ==
    /\ Byte \in Nat /\ Byte >= 2 /\ Byte % 2 = 0
    /\ BLOCK_SIZE \in Nat /\ BLOCK_SIZE >= 16 /\ BLOCK_SIZE % 4 = 0
    /\ INST_SIZE \in Nat /\ INST_SIZE >= 2 /\ BLOCK_SIZE % INST_SIZE = 0
    /\ TABLE_SIZE \in Nat /\ TABLE_SIZE >= 1
    /\ TABLE_SIZE * BLOCK_SIZE \in Nat /\ TABLE_SIZE * BLOCK_SIZE >= BLOCK_SIZE
<1>1. /\ Byte \in Nat /\ Byte >= 2 /\ Byte % 2 = 0
      /\ BLOCK_SIZE \in Nat /\ BLOCK_SIZE >= 16 /\ BLOCK_SIZE % 4 = 0
      /\ INST_SIZE \in Nat /\ INST_SIZE >= 2 /\ BLOCK_SIZE % INST_SIZE = 0
      /\ TABLE_SIZE \in Nat /\ TABLE_SIZE >= 1
    BY TargetMemoryAssumption
<1>2. TABLE_SIZE * BLOCK_SIZE \in Nat
    BY <1>1
<1>3. TABLE_SIZE * BLOCK_SIZE >= 1 * BLOCK_SIZE
    BY <1>1
<1> QED BY <1>1, <1>2, <1>3

\* Where an address is.
LEMMA AddressSplit ==
    ASSUME NEW a \in MemAddrs
    PROVE  /\ MEM_BLOCK(a) \in Blocks /\ MEM_OFFSET(a) \in 0 .. BLOCK_SIZE - 1
           /\ a = MEM_BLOCK(a) * BLOCK_SIZE + MEM_OFFSET(a)
<1> DEFINE q == a \div BLOCK_SIZE
           r == a % BLOCK_SIZE
<1>1. a \in Nat /\ a < TABLE_SIZE * BLOCK_SIZE
    BY Sizes DEF MemAddrs
<1>2. q \in Int /\ r \in 0 .. BLOCK_SIZE - 1 /\ a = BLOCK_SIZE * q + r
    BY <1>1, Sizes, Division
<1> HIDE DEF q, r
<1>3. q >= 0
    <2> SUFFICES ASSUME q <= -1 PROVE FALSE
        BY <1>2
    <2>1. BLOCK_SIZE * q <= BLOCK_SIZE * (-1)
        BY <1>2, Sizes
    <2> QED BY <1>1, <1>2, <2>1, Sizes
<1>4. q < TABLE_SIZE
    <2> SUFFICES ASSUME q >= TABLE_SIZE PROVE FALSE
        BY <1>2, Sizes
    <2>1. BLOCK_SIZE * q >= BLOCK_SIZE * TABLE_SIZE
        BY <1>2, Sizes
    <2>2. BLOCK_SIZE * TABLE_SIZE = TABLE_SIZE * BLOCK_SIZE
        BY Sizes
    <2> QED BY <1>1, <1>2, <2>1, <2>2, Sizes
<1>5. BLOCK_SIZE * q = q * BLOCK_SIZE
    BY <1>2, Sizes
<1>6. q \in 0 .. TABLE_SIZE - 1
    BY <1>2, <1>3, <1>4, Sizes
<1> QED BY <1>2, <1>5, <1>6 DEF MEM_BLOCK, MEM_OFFSET, Blocks, q, r

\* What is at an offset of a block.
LEMMA AddressJoin ==
    ASSUME NEW b \in Blocks, NEW o \in 0 .. BLOCK_SIZE - 1
    PROVE  /\ b * BLOCK_SIZE + o \in MemAddrs
           /\ MEM_BLOCK(b * BLOCK_SIZE + o) = b /\ MEM_OFFSET(b * BLOCK_SIZE + o) = o
<1>1. b \in Nat /\ b <= TABLE_SIZE - 1 /\ o \in Nat
    BY Sizes DEF Blocks
<1>2. b * BLOCK_SIZE = BLOCK_SIZE * b /\ b * BLOCK_SIZE \in Nat
    BY <1>1, Sizes
<1>3. b * BLOCK_SIZE <= (TABLE_SIZE - 1) * BLOCK_SIZE
    BY <1>1, Sizes
<1>4. (TABLE_SIZE - 1) * BLOCK_SIZE = TABLE_SIZE * BLOCK_SIZE - BLOCK_SIZE
    BY Sizes
<1>5. b * BLOCK_SIZE + o \in MemAddrs
    BY <1>1, <1>2, <1>3, <1>4, Sizes DEF MemAddrs
<1>6. (BLOCK_SIZE * b + o) \div BLOCK_SIZE = b /\ (BLOCK_SIZE * b + o) % BLOCK_SIZE = o
    BY <1>1, Sizes, DivisionIsUnique
<1> QED BY <1>2, <1>5, <1>6 DEF MEM_BLOCK, MEM_OFFSET

\* The n bytes at a multiple of n are in one block, if n divides its size.
LEMMA Aligned ==
    ASSUME NEW n \in Nat \ {0}, BLOCK_SIZE % n = 0, NEW a \in MemAddrs, a % n = 0,
           NEW k \in 0 .. n - 1
    PROVE  /\ a + k \in MemAddrs
           /\ MEM_BLOCK(a + k) = MEM_BLOCK(a) /\ MEM_OFFSET(a + k) = MEM_OFFSET(a) + k
           /\ MEM_OFFSET(a) + k \in 0 .. BLOCK_SIZE - 1
<1> DEFINE b == MEM_BLOCK(a)
           o == MEM_OFFSET(a)
           c == BLOCK_SIZE \div n
           p == a \div n
           d == p - c * b
<1>1. b \in Blocks /\ o \in 0 .. BLOCK_SIZE - 1 /\ a = b * BLOCK_SIZE + o
    BY AddressSplit
<1>2. c \in Int /\ BLOCK_SIZE = n * c
    BY Sizes, Division
<1>3. p \in Int /\ a = n * p
    BY Division, Sizes DEF MemAddrs
<1>4. b \in Nat
    BY <1>1 DEF Blocks
<1> HIDE DEF b, c, p, o
<1>5. c * b \in Int /\ d \in Int
    BY <1>2, <1>3, <1>4
<1>6. o = n * d
    <2>1. ASSUME NEW x \in Int PROVE n * (p - x) = n * p - n * x
        BY <1>3
    <2>2. n * (c * b) = (n * c) * b
        BY <1>2, <1>4
    <2>3. BLOCK_SIZE * b = b * BLOCK_SIZE
        BY <1>4, Sizes
    <2>4. n * (p - c * b) = n * p - n * (c * b)
        BY <1>5, <2>1
    <2>5. n * (p - c * b) = a - b * BLOCK_SIZE
        BY <1>2, <1>3, <2>2, <2>3, <2>4
    <2>6. a - b * BLOCK_SIZE = o
        BY <1>1, <1>4, Sizes
    <2> QED BY <2>5, <2>6
<1>7. d <= c - 1
    <2> SUFFICES ASSUME d >= c PROVE FALSE
        BY <1>2, <1>5
    <2>1. n * d >= n * c
        BY <1>2, <1>5
    <2> QED BY <1>1, <1>2, <1>6, <2>1, Sizes
<1>8. n * d <= n * (c - 1)
    BY <1>2, <1>5, <1>7
<1>9. n * (c - 1) = BLOCK_SIZE - n
    BY <1>2
<1>10. o + k \in 0 .. BLOCK_SIZE - 1
    BY <1>1, <1>6, <1>8, <1>9, Sizes
<1>11. a + k = b * BLOCK_SIZE + (o + k)
    BY <1>1, <1>4, Sizes
<1>12. /\ b * BLOCK_SIZE + (o + k) \in MemAddrs
       /\ MEM_BLOCK(b * BLOCK_SIZE + (o + k)) = b /\ MEM_OFFSET(b * BLOCK_SIZE + (o + k)) = o + k
    BY <1>1, <1>10, AddressJoin
<1> QED BY <1>10, <1>11, <1>12 DEF b, o

\* An access below the end of an aligned word, from one of its addresses on.
LEMMA AlignedPart ==
    ASSUME NEW n \in Nat \ {0}, BLOCK_SIZE % n = 0, NEW a \in MemAddrs, a % n = 0,
           NEW j \in 0 .. n - 1, NEW k \in 0 .. n - 1 - j
    PROVE  /\ a + j \in MemAddrs /\ (a + j) + k \in MemAddrs
           /\ MEM_BLOCK((a + j) + k) = MEM_BLOCK(a + j)
           /\ MEM_OFFSET((a + j) + k) = MEM_OFFSET(a + j) + k
<1>1. j + k \in 0 .. n - 1 /\ (a + j) + k = a + (j + k)
    BY Sizes DEF MemAddrs
<1>2. /\ a + j \in MemAddrs /\ MEM_BLOCK(a + j) = MEM_BLOCK(a)
      /\ MEM_OFFSET(a + j) = MEM_OFFSET(a) + j
    BY Aligned
<1>3. /\ a + (j + k) \in MemAddrs /\ MEM_BLOCK(a + (j + k)) = MEM_BLOCK(a)
      /\ MEM_OFFSET(a + (j + k)) = MEM_OFFSET(a) + (j + k)
    BY <1>1, Aligned
<1>4. MEM_OFFSET(a) \in Int
    BY AddressSplit
<1> QED BY <1>1, <1>2, <1>3, <1>4

-----------------------------------------------------------------------------
(* Memory                                                                  *)

\* What a memory reads as at an address.
ByteAt(m, a) == BlockOf(m, a)[MEM_OFFSET(a)]

BlockValues == [0 .. BLOCK_SIZE - 1 -> ByteValues]

\* A block of bytes is not a NULL pointer.
LEMMA BlockIsThere ==
    ASSUME NEW f \in BlockValues
    PROVE  f # Absent
<1>1. 0 \in DOMAIN f
    BY Sizes DEF BlockValues
<1>2. DOMAIN Absent = {}
    BY DEF Absent
<1> QED BY <1>1, <1>2

\* A fresh block can be filled with zeroes.
LEMMA ZeroIsAByte == 0 \in ByteValues
BY Sizes DEF ByteValues

\* An address is looked up in a block of bytes, present or not.
LEMMA BytesAreTyped ==
    ASSUME NEW m \in Tables, NEW a \in MemAddrs
    PROVE  BlockOf(m, a) \in BlockValues /\ ByteAt(m, a) \in ByteValues
<1>1. MEM_BLOCK(a) \in Blocks /\ MEM_OFFSET(a) \in 0 .. BLOCK_SIZE - 1
    BY AddressSplit
<1>2. m[MEM_BLOCK(a)] \in {Absent} \cup BlockValues
    BY <1>1 DEF Tables, BlockValues
<1>3. mem_newblock \in BlockValues
    BY ZeroIsAByte DEF mem_newblock, BlockValues
<1>4. BlockOf(m, a) \in BlockValues
    BY <1>2, <1>3 DEF BlockOf, Present
<1> QED BY <1>1, <1>4 DEF ByteAt, BlockValues

\* Before anything is loaded every byte reads as zero and no block is there.
LEMMA EmptyTableIsZero ==
    /\ EmptyTable \in Tables
    /\ \A a \in MemAddrs : ByteAt(EmptyTable, a) = 0 /\ ~Present(EmptyTable, a)
<1>1. EmptyTable \in Tables
    BY DEF EmptyTable, Tables
<1>2. ASSUME NEW a \in MemAddrs PROVE ByteAt(EmptyTable, a) = 0 /\ ~Present(EmptyTable, a)
    <2>1. MEM_BLOCK(a) \in Blocks /\ MEM_OFFSET(a) \in 0 .. BLOCK_SIZE - 1
        BY AddressSplit
    <2>2. EmptyTable[MEM_BLOCK(a)] = Absent
        BY <2>1 DEF EmptyTable
    <2> QED BY <2>1, <2>2 DEF ByteAt, BlockOf, Present, mem_newblock
<1> QED BY <1>1, <1>2

\* Two tables that read the same and have the same blocks are the same.
LEMMA SameTable ==
    ASSUME NEW m \in Tables, NEW n \in Tables,
           \A a \in MemAddrs : ByteAt(m, a) = ByteAt(n, a),
           \A b \in Blocks : m[b] = Absent <=> n[b] = Absent
    PROVE  m = n
<1>1. ASSUME NEW b \in Blocks PROVE m[b] = n[b]
    <2>1. CASE m[b] = Absent
        BY <2>1
    <2>2. CASE m[b] # Absent
        <3>1. m[b] \in BlockValues /\ n[b] \in BlockValues /\ n[b] # Absent
            BY <2>2 DEF Tables, BlockValues
        <3>2. ASSUME NEW o \in 0 .. BLOCK_SIZE - 1 PROVE m[b][o] = n[b][o]
            <4> DEFINE a == b * BLOCK_SIZE + o
            <4>1. a \in MemAddrs /\ MEM_BLOCK(a) = b /\ MEM_OFFSET(a) = o
                BY AddressJoin
            <4>2. ByteAt(m, a) = m[b][o] /\ ByteAt(n, a) = n[b][o]
                BY <4>1, <2>2, <3>1 DEF ByteAt, BlockOf, Present
            <4> QED BY <4>1, <4>2
        <3>3. /\ m[b] = [o \in 0 .. BLOCK_SIZE - 1 |-> m[b][o]]
              /\ n[b] = [o \in 0 .. BLOCK_SIZE - 1 |-> n[b][o]]
            BY <3>1 DEF BlockValues
        <3>4. [o \in 0 .. BLOCK_SIZE - 1 |-> m[b][o]] = [o \in 0 .. BLOCK_SIZE - 1 |-> n[b][o]]
            BY <3>2
        <3> QED BY <3>3, <3>4
    <2> QED BY <2>1, <2>2
<1> QED BY <1>1 DEF Tables

\* One byte, and the bytes of an access that stays in its block.
LEMMA ReadOne ==
    ASSUME NEW m \in Tables, NEW a \in MemAddrs
    PROVE  ReadBytes(m, a, 1) = <<ByteAt(m, a)>>
<1>1. MEM_OFFSET(a) + 1 - 1 = MEM_OFFSET(a)
    BY AddressSplit
<1>2. ReadBytes(m, a, 1) = [k \in 1 .. 1 |-> BlockOf(m, a)[MEM_OFFSET(a) + k - 1]]
    BY DEF ReadBytes
<1>3. \A k \in 1 .. 1 : BlockOf(m, a)[MEM_OFFSET(a) + k - 1] = ByteAt(m, a)
    BY <1>1 DEF ByteAt
<1>4. ReadBytes(m, a, 1) = [k \in 1 .. 1 |-> ByteAt(m, a)]
    BY <1>2, <1>3
<1> QED BY <1>4

\* A read that stays in one block takes the bytes at consecutive addresses.
LEMMA ReadMany ==
    ASSUME NEW m \in Tables, NEW a \in MemAddrs, NEW n \in Nat,
           \A k \in 0 .. n - 1 : /\ a + k \in MemAddrs /\ MEM_BLOCK(a + k) = MEM_BLOCK(a)
                                 /\ MEM_OFFSET(a + k) = MEM_OFFSET(a) + k
    PROVE  /\ ReadBytes(m, a, n) \in Seq(ByteValues) /\ Len(ReadBytes(m, a, n)) = n
           /\ \A k \in 1 .. n : /\ a + k - 1 \in MemAddrs
                                /\ ReadBytes(m, a, n)[k] = ByteAt(m, a + k - 1)
<1>1. a \in Int /\ MEM_OFFSET(a) \in Int
    BY AddressSplit, Sizes DEF MemAddrs
<1>2. ASSUME NEW k \in 1 .. n
      PROVE  /\ a + k - 1 \in MemAddrs
             /\ BlockOf(m, a)[MEM_OFFSET(a) + k - 1] = ByteAt(m, a + k - 1)
    <2>1. k - 1 \in 0 .. n - 1 /\ a + (k - 1) = a + k - 1
          /\ MEM_OFFSET(a) + (k - 1) = MEM_OFFSET(a) + k - 1
        BY <1>1
    <2>2. /\ a + k - 1 \in MemAddrs /\ MEM_BLOCK(a + k - 1) = MEM_BLOCK(a)
          /\ MEM_OFFSET(a + k - 1) = MEM_OFFSET(a) + k - 1
        BY <2>1
    <2> QED BY <2>2 DEF ByteAt, BlockOf, Present
<1>3. ReadBytes(m, a, n) = [k \in 1 .. n |-> ByteAt(m, a + k - 1)]
    BY <1>2 DEF ReadBytes
<1>4. \A k \in 1 .. n : ByteAt(m, a + k - 1) \in ByteValues
    BY <1>2, BytesAreTyped
<1> HIDE DEF ByteAt
<1>5. ReadBytes(m, a, n) \in Seq(ByteValues) /\ Len(ReadBytes(m, a, n)) = n
    BY <1>3, <1>4
<1> QED BY <1>2, <1>3, <1>5

\* An aligned read: an instruction or a word.
LEMMA ReadAligned ==
    ASSUME NEW m \in Tables, NEW n \in Nat \ {0}, BLOCK_SIZE % n = 0,
           NEW a \in MemAddrs, a % n = 0
    PROVE  /\ ReadBytes(m, a, n) \in Seq(ByteValues) /\ Len(ReadBytes(m, a, n)) = n
           /\ \A k \in 1 .. n : /\ a + k - 1 \in MemAddrs
                                /\ ReadBytes(m, a, n)[k] = ByteAt(m, a + k - 1)
<1>1. \A k \in 0 .. n - 1 : /\ a + k \in MemAddrs /\ MEM_BLOCK(a + k) = MEM_BLOCK(a)
                            /\ MEM_OFFSET(a + k) = MEM_OFFSET(a) + k
    BY Aligned
<1> QED BY <1>1, ReadMany

\* A write changes the bytes it writes, and adds blocks.
Written(m, n, a, w) ==
    /\ n \in Tables
    /\ \A x \in MemAddrs : ByteAt(n, x) = IF x \in a .. a + Len(w) - 1 THEN w[x - a + 1]
                                                                      ELSE ByteAt(m, x)
    /\ \A x \in MemAddrs : Present(m, x) => Present(n, x)
    /\ \A b \in Blocks : m[b] # Absent => n[b] # Absent

\* WriteBytes changes the bytes of its range and makes the blocks it touches present.
LEMMA WriteBytesWrites ==
    ASSUME NEW m \in Tables, NEW a \in Int, NEW w \in Seq(ByteValues)
    PROVE  Written(m, WriteBytes(m, a, w), a, w)
<1> DEFINE there == a .. a + Len(w) - 1
           byte(x) == IF x \in there THEN w[x - a + 1] ELSE ByteAt(m, x)
           block(b) == [o \in 0 .. BLOCK_SIZE - 1 |-> byte(b * BLOCK_SIZE + o)]
           apart(b) == \A x \in there : MEM_BLOCK(x) # b
           n == WriteBytes(m, a, w)
<1>1. n = [b \in Blocks |-> IF apart(b) THEN m[b] ELSE block(b)]
    BY DEF WriteBytes, ByteAt
<1>2. ASSUME NEW x \in MemAddrs PROVE byte(x) \in ByteValues
    <2>1. CASE x \in there
        <3>1. x - a + 1 \in 1 .. Len(w)
            BY <2>1
        <3> QED BY <2>1, <3>1
    <2>2. CASE x \notin there
        BY <2>2, BytesAreTyped
    <2> QED BY <2>1, <2>2
<1> HIDE DEF byte
<1>3. ASSUME NEW b \in Blocks PROVE block(b) \in BlockValues /\ block(b) # Absent
    <2>1. \A o \in 0 .. BLOCK_SIZE - 1 : byte(b * BLOCK_SIZE + o) \in ByteValues
        BY <1>2, AddressJoin
    <2>2. block(b) \in BlockValues
        BY <2>1 DEF BlockValues
    <2> HIDE DEF block
    <2> QED BY <2>2, BlockIsThere
<1>4. ASSUME NEW b \in Blocks PROVE n[b] = IF apart(b) THEN m[b] ELSE block(b)
    BY <1>1
<1>5. n \in Tables
    <2>1. \A b \in Blocks : n[b] \in {Absent} \cup BlockValues
        <3> HIDE DEF block, apart, n
        <3> QED BY <1>3, <1>4 DEF Tables, BlockValues
    <2> HIDE DEF block, apart
    <2> QED BY <1>1, <2>1 DEF Tables, BlockValues
<1>6. ASSUME NEW b \in Blocks, m[b] # Absent PROVE n[b] # Absent
    <2> HIDE DEF block, apart, n
    <2> QED BY <1>3, <1>4, <1>6
<1>7. ASSUME NEW x \in MemAddrs PROVE ByteAt(n, x) = byte(x)
    <2>1. /\ MEM_BLOCK(x) \in Blocks /\ MEM_OFFSET(x) \in 0 .. BLOCK_SIZE - 1
          /\ x = MEM_BLOCK(x) * BLOCK_SIZE + MEM_OFFSET(x)
        BY AddressSplit
    <2>2. CASE apart(MEM_BLOCK(x))
        <3>1. n[MEM_BLOCK(x)] = m[MEM_BLOCK(x)]
            BY <1>4, <2>1, <2>2
        <3>2. x \notin there
            BY <2>2
        <3>3. byte(x) = ByteAt(m, x)
            BY <3>2 DEF byte
        <3> HIDE DEF n
        <3> QED BY <3>1, <3>3 DEF ByteAt, BlockOf, Present
    <2>3. CASE ~apart(MEM_BLOCK(x))
        <3>1. n[MEM_BLOCK(x)] = block(MEM_BLOCK(x))
            BY <1>4, <2>1, <2>3
        <3>2. block(MEM_BLOCK(x))[MEM_OFFSET(x)] = byte(x)
            BY <2>1
        <3>3. block(MEM_BLOCK(x)) # Absent
            BY <2>1, <1>3
        <3> HIDE DEF n, block
        <3> QED BY <3>1, <3>2, <3>3 DEF ByteAt, BlockOf, Present
    <2> QED BY <2>2, <2>3
<1>8. \A x \in MemAddrs : Present(m, x) => Present(n, x)
    <2> HIDE DEF n
    <2> QED BY <1>6, AddressSplit DEF Present
<1> HIDE DEF n
<1>9. \A x \in MemAddrs : ByteAt(n, x) = IF x \in there THEN w[x - a + 1] ELSE ByteAt(m, x)
    BY <1>7 DEF byte
<1>10. n = WriteBytes(m, a, w)
    BY DEF n
<1> QED BY <1>5, <1>6, <1>8, <1>9, <1>10 DEF Written

\* The first access to a block is not seen.
LEMMA TouchKeeps ==
    ASSUME NEW m \in Tables, NEW a \in MemAddrs
    PROVE  /\ Touch(m, a) \in Tables
           /\ \A x \in MemAddrs : ByteAt(Touch(m, a), x) = ByteAt(m, x)
           /\ \A x \in MemAddrs : Present(m, x) => Present(Touch(m, a), x)
<1> DEFINE n == Touch(m, a)
<1>1. MEM_BLOCK(a) \in Blocks /\ BlockOf(m, a) \in BlockValues /\ BlockOf(m, a) # Absent
    BY AddressSplit, BytesAreTyped, BlockIsThere
<1>2. n = [m EXCEPT ![MEM_BLOCK(a)] = BlockOf(m, a)]
    BY DEF Touch
<1>3. n \in Tables
    BY <1>1, <1>2 DEF Tables, BlockValues
<1>4. ASSUME NEW x \in MemAddrs
      PROVE  ByteAt(n, x) = ByteAt(m, x) /\ (Present(m, x) => Present(n, x))
    <2>1. MEM_BLOCK(x) \in Blocks
        BY AddressSplit
    <2>2. CASE MEM_BLOCK(x) = MEM_BLOCK(a)
        <3>1. n[MEM_BLOCK(x)] = BlockOf(m, x)
            BY <1>2, <2>1, <2>2 DEF Tables, BlockOf, Present
        <3>2. BlockOf(m, x) # Absent
            BY <1>1, <2>2 DEF BlockOf, Present
        <3> HIDE DEF n
        <3> QED BY <3>1, <3>2 DEF ByteAt, BlockOf, Present
    <2>3. CASE MEM_BLOCK(x) # MEM_BLOCK(a)
        <3>1. n[MEM_BLOCK(x)] = m[MEM_BLOCK(x)]
            BY <1>2, <2>1, <2>3 DEF Tables
        <3> HIDE DEF n
        <3> QED BY <3>1 DEF ByteAt, BlockOf, Present
    <2> QED BY <2>2, <2>3
<1> QED BY <1>3, <1>4

\* A copy is the master.
LEMMA CopyIsMaster ==
    ASSUME NEW table \in Tables, NEW master \in Tables
    PROVE  copy_mem(table, master) = master
BY DEF copy_mem, Tables

\* The flat memory, byte by byte.
LEMMA FlatIs ==
    ASSUME NEW m
    PROVE  /\ DOMAIN Flat(m) = MemAddrs
           /\ \A a \in MemAddrs : Flat(m)[a] = ByteAt(m, a)
           /\ Flat(m) = [a \in MemAddrs |-> ByteAt(m, a)]
BY DEF Flat, ByteAt

-----------------------------------------------------------------------------
(* Words                                                                   *)

\* The remainder by Byte is a byte.
LEMMA RemainderIsByte ==
    ASSUME NEW n \in Int
    PROVE  n % Byte \in ByteValues
<1>1. Byte \in Nat \ {0}
    BY Sizes
<1> QED BY <1>1, Division DEF ByteValues

\* A word of the program's stack is four bytes.
LEMMA WordIsTyped ==
    ASSUME NEW n \in Nat
    PROVE  WordOf(n) \in Seq(ByteValues) /\ Len(WordOf(n)) = 4
<1> DEFINE m == n \div Byte
           k == m \div Byte
           j == k \div Byte
<1>1. Byte \in Nat \ {0}
    BY Sizes
<1>2. m \in Int
    BY <1>1, Division
<1>3. k \in Int
    BY <1>1, <1>2, Division
<1>4. j \in Int
    BY <1>1, <1>3, Division
<1>5. WordOf(n) = <<n % Byte, m % Byte, k % Byte, j % Byte>>
    BY DEF WordOf
<1> HIDE DEF m, k, j
<1>6. /\ n % Byte \in ByteValues /\ m % Byte \in ByteValues
      /\ k % Byte \in ByteValues /\ j % Byte \in ByteValues
    BY <1>2, <1>3, <1>4, RemainderIsByte
<1> QED BY <1>5, <1>6

\* The word of a number that fits in four bytes is that number.
LEMMA WordRoundTrip ==
    ASSUME NEW n \in Nat, n < Byte * (Byte * (Byte * Byte))
    PROVE  NumOf(WordOf(n)) = n
<1> DEFINE m == n \div Byte
           k == m \div Byte
           j == k \div Byte
<1>1. Byte \in Nat \ {0}
    BY Sizes
<1>2. m \in Int /\ n % Byte \in 0 .. Byte - 1 /\ n = Byte * m + (n % Byte)
    BY <1>1, Division
<1>3. k \in Int /\ m % Byte \in 0 .. Byte - 1 /\ m = Byte * k + (m % Byte)
    BY <1>1, <1>2, Division
<1>4. j \in Int /\ k % Byte \in 0 .. Byte - 1 /\ k = Byte * j + (k % Byte)
    BY <1>1, <1>3, Division
<1>5. WordOf(n) = <<n % Byte, m % Byte, k % Byte, j % Byte>>
    BY DEF WordOf
<1> HIDE DEF m, k, j
<1>6. ASSUME NEW x \in Int, NEW y \in Int, Byte * x < Byte * y PROVE x < y
    <2> SUFFICES ASSUME x >= y PROVE FALSE
        OBVIOUS
    <2>1. Byte * x >= Byte * y
        BY <1>1
    <2>2. Byte * x \in Int /\ Byte * y \in Int
        BY <1>1
    <2> QED BY <1>6, <2>1, <2>2
<1>7. ASSUME NEW x \in Int, NEW y \in Int, NEW r \in 0 .. Byte - 1, Byte * x + r < Byte * y
      PROVE  x < y
    <2>1. Byte * x \in Int /\ Byte * y \in Int
        BY <1>1
    <2>2. Byte * x < Byte * y
        BY <1>1, <1>7, <2>1
    <2> QED BY <1>6, <2>2
<1>8. Byte * Byte \in Int /\ Byte * (Byte * Byte) \in Int
    BY <1>1
<1>9. m < Byte * (Byte * Byte)
    BY <1>2, <1>7, <1>8
<1>10. k < Byte * Byte
    BY <1>3, <1>7, <1>8, <1>9
<1>11. j < Byte
    BY <1>1, <1>4, <1>7, <1>10
<1>12. ASSUME NEW x \in Int, NEW r \in 0 .. Byte - 1, Byte * x + r >= 0 PROVE x >= 0
    <2> SUFFICES ASSUME x <= -1 PROVE FALSE
        OBVIOUS
    <2>1. Byte * x <= Byte * (-1)
        BY <1>1
    <2>2. Byte * x \in Int
        BY <1>1
    <2> QED BY <1>1, <1>12, <2>1, <2>2
<1>13. m >= 0
    BY <1>2, <1>12
<1>14. k >= 0
    BY <1>3, <1>12, <1>13
<1>15. j >= 0
    BY <1>4, <1>12, <1>14
<1>16. j % Byte = j
    <2>1. j \in 0 .. Byte - 1 /\ 0 \in Int
        BY <1>1, <1>4, <1>11, <1>15
    <2>2. (Byte * 0 + j) % Byte = j
        BY <1>1, <2>1, DivisionIsUnique
    <2>3. Byte * 0 + j = j
        BY <1>1, <2>1
    <2> QED BY <2>2, <2>3
<1>17. NumOf(WordOf(n)) = (n % Byte) + Byte * ((m % Byte) + Byte * ((k % Byte) + Byte * j))
    BY <1>5, <1>16 DEF NumOf
<1>18. (k % Byte) + Byte * j = k
    BY <1>1, <1>4
<1>19. (m % Byte) + Byte * k = m
    BY <1>1, <1>3
<1>20. (n % Byte) + Byte * m = n
    BY <1>1, <1>2
<1> QED BY <1>17, <1>18, <1>19, <1>20

\* The words the ports return.
LEMMA ExtendIsTyped ==
    ASSUME NEW w \in Seq(ByteValues), NEW fill \in ByteValues
    PROVE  Extend(w, fill) \in [1 .. 4 -> ByteValues]
<1>1. \A k \in 1 .. 4 : (IF k <= Len(w) THEN w[k] ELSE fill) \in ByteValues
    <2>1. Len(w) \in Nat /\ \A k \in 1 .. Len(w) : w[k] \in ByteValues
        OBVIOUS
    <2> QED BY <2>1
<1> QED BY <1>1 DEF Extend

\* What a run of bytes holds, within the data and the stack.
Holds(m, a, w) ==
    \A k \in 1 .. Len(w) : /\ a + k - 1 \in DATA_BASE .. STACK_BASE - 1
                           /\ a + k - 1 \in MemAddrs
                           /\ ByteAt(m, a + k - 1) = w[k]

\* What is written between the data and the stack base, in the table, is there.
LEMMA WrittenHolds ==
    ASSUME NEW m, NEW n, NEW a \in Int, NEW w \in Seq(ByteValues), Written(m, n, a, w),
           \A k \in 1 .. Len(w) : a + k - 1 \in DATA_BASE .. STACK_BASE - 1 /\ a + k - 1 \in MemAddrs
    PROVE  Holds(n, a, w)
<1>1. ASSUME NEW k \in 1 .. Len(w) PROVE ByteAt(n, a + k - 1) = w[k]
    <2>1. a + k - 1 \in a .. a + Len(w) - 1 /\ (a + k - 1) - a + 1 = k
        OBVIOUS
    <2>2. a + k - 1 \in MemAddrs
        OBVIOUS
    <2>3. ByteAt(n, a + k - 1) = w[(a + k - 1) - a + 1]
        BY <2>1, <2>2 DEF Written
    <2> QED BY <2>1, <2>3
<1> QED BY <1>1 DEF Holds

\* A memory that reads the same there holds the same.
LEMMA HoldsKept ==
    ASSUME NEW m, NEW n, NEW a \in Int, NEW w, Len(w) \in Nat, Holds(m, a, w),
           \A x \in MemAddrs : x \in a .. a + Len(w) - 1 => ByteAt(n, x) = ByteAt(m, x)
    PROVE  Holds(n, a, w)
<1>1. ASSUME NEW k \in 1 .. Len(w)
      PROVE  a + k - 1 \in a .. a + Len(w) - 1 /\ a + k - 1 \in MemAddrs
    BY DEF Holds
<1> QED BY <1>1 DEF Holds

\* The word that is read where four bytes hold a number.
LEMMA HeldWord ==
    ASSUME NEW m \in Tables, NEW a \in Int, a % 4 = 0, NEW n \in Nat,
           Holds(m, a, WordOf(n)), n < Byte * (Byte * (Byte * Byte))
    PROVE  NumOf(ReadBytes(m, a, 4)) = n
<1>1. WordOf(n) \in Seq(ByteValues) /\ Len(WordOf(n)) = 4
    BY WordIsTyped
<1>2. \A k \in 1 .. 4 : a + k - 1 \in MemAddrs /\ ByteAt(m, a + k - 1) = WordOf(n)[k]
    BY <1>1 DEF Holds
<1>3. a \in MemAddrs
    <2>1. 1 \in 1 .. 4 /\ a + 1 - 1 = a
        OBVIOUS
    <2> QED BY <1>2, <2>1
<1>4. /\ ReadBytes(m, a, 4) \in Seq(ByteValues) /\ Len(ReadBytes(m, a, 4)) = 4
      /\ \A k \in 1 .. 4 : ReadBytes(m, a, 4)[k] = ByteAt(m, a + k - 1)
    <2>1. BLOCK_SIZE % 4 = 0 /\ 4 \in Nat \ {0}
        BY Sizes
    <2> HIDE DEF ByteAt
    <2> QED BY <1>3, <2>1, ReadAligned
<1>5. \A k \in 1 .. 4 : ReadBytes(m, a, 4)[k] = WordOf(n)[k]
    BY <1>2, <1>4
<1>6. NumOf(ReadBytes(m, a, 4)) = NumOf(WordOf(n))
    BY <1>5 DEF NumOf
<1> QED BY <1>6, WordRoundTrip

-----------------------------------------------------------------------------
(* The loader                                                              *)

Modes == {"none", "save", "restore"}
Threads ==
    [ld_text_base : Nat, ld_text_size : Int, ld_data_base : Nat, ld_data_size : Nat,
     ld_stack_base : {STACK_BASE}, ld_prog_entry : Nat, ld_environ_base : Nat,
     mem : Tables, mem_brk_point : Int,
     regs : [Regs -> Nat], regs_PC : Nat, arch_PC : Nat,
     num_insn : Nat, blocked : BOOLEAN, fp : Modes, fatal : BOOLEAN]

\* What the assumptions say of the segments.
LEMMA Segments ==
    /\ TEXT_BASE \in Nat /\ DATA_BASE \in Nat /\ STACK_BASE \in Nat
    /\ MAX_ENVIRON \in Nat /\ SLACK \in Nat
    /\ TEXT_BASE >= BLOCK_SIZE /\ TEXT_BASE % INST_SIZE = 0
    /\ DATA_BASE > TEXT_BASE /\ DATA_BASE % INST_SIZE = 0
    /\ STACK_BASE > DATA_BASE /\ STACK_BASE - MAX_ENVIRON > DATA_BASE
    /\ PAGE_SIZE \in Nat \ {0}
    /\ mask2op \in [ByteValues -> ByteValues]
<1>1. /\ TEXT_BASE \in Nat /\ DATA_BASE \in Nat /\ STACK_BASE \in Nat
      /\ MAX_ENVIRON \in Nat /\ SLACK \in Nat
      /\ TEXT_BASE >= BLOCK_SIZE /\ TEXT_BASE % INST_SIZE = 0
      /\ DATA_BASE > TEXT_BASE /\ DATA_BASE % INST_SIZE = 0
      /\ MAX_ENVIRON < STACK_BASE - DATA_BASE
      /\ PAGE_SIZE \in Nat \ {0}
      /\ mask2op \in [ByteValues -> ByteValues]
    BY LoaderAssumption
<1>2. STACK_BASE > DATA_BASE /\ STACK_BASE - MAX_ENVIRON > DATA_BASE
    BY <1>1
<1> QED BY <1>1, <1>2

\* Every address below the stack's base is in the table.
LEMMA StackIsInTable == \A a \in Nat : a < STACK_BASE => a \in MemAddrs
<1>1. STACK_BASE <= TABLE_SIZE * BLOCK_SIZE
    BY LoaderAssumption
<1> QED BY <1>1, Segments, Sizes DEF MemAddrs

\* An address below the stack base fits in a word.
LEMMA AddressFits == \A a \in Nat : a < STACK_BASE => a < Byte * (Byte * (Byte * Byte))
<1>1. Byte * Byte \in Nat
    BY Sizes
<1>2. Byte * (Byte * Byte) \in Nat
    BY <1>1, Sizes
<1>3. Byte * (Byte * (Byte * Byte)) \in Nat
    BY <1>2, Sizes
<1>4. TABLE_SIZE * BLOCK_SIZE <= Byte * (Byte * (Byte * Byte))
    BY TargetMemoryAssumption
<1>5. STACK_BASE <= TABLE_SIZE * BLOCK_SIZE
    BY LoaderAssumption
<1> QED BY <1>3, <1>4, <1>5, Segments, Sizes

\* Addresses are not negative.
LEMMA AddressesAreNumbers == MemAddrs \subseteq Nat
BY Sizes DEF MemAddrs

\* The state a Thread is constructed in is a thread.
LEMMA NewStateIsTyped == NewState \in Threads
<1>1. EmptyTable \in Tables
    BY EmptyTableIsZero
<1>2. [r \in Regs |-> 0] \in [Regs -> Nat]
    OBVIOUS
<1> QED BY <1>1, <1>2, Segments DEF NewState, Threads, Modes

\* A store of the loader or of a system call: all of it, or the simulator ends.
Wrote(t, u, a, w) ==
    /\ u \in Threads /\ u = [t EXCEPT !.mem = u.mem, !.fatal = u.fatal]
    /\ ~u.fatal => /\ ~t.fatal
                   /\ \A k \in 1 .. Len(w) : CanWrite(t, a + k - 1)
                   /\ Written(t.mem, u.mem, a, w)

\* The loader's Write either stores the bytes or marks the load as failed.
LEMMA WriteIs ==
    ASSUME NEW t \in Threads, NEW a \in Nat, NEW w \in Seq(ByteValues),
           NEW u, u = Write(t, a, w)
    PROVE  Wrote(t, u, a, w)
<1> DEFINE W == WriteBytes(t.mem, a, w)
<1>1. t.mem \in Tables
    BY DEF Threads
<1>2. Written(t.mem, W, a, w)
    BY <1>1, WriteBytesWrites
<1>3. W \in Tables
    BY <1>2 DEF Written
<1> HIDE DEF W
<1>4. CASE t.fatal
    <2>1. u = t
        BY <1>4 DEF Write
    <2>2. t = [t EXCEPT !.mem = t.mem, !.fatal = t.fatal]
        BY DEF Threads
    <2> QED BY <1>4, <2>1, <2>2 DEF Wrote
<1>5. CASE ~t.fatal /\ \A k \in 1 .. Len(w) : CanWrite(t, a + k - 1)
    <2>1. u = [t EXCEPT !.mem = W]
        BY <1>5 DEF Write, W
    <2>2. u \in Threads /\ u.mem = W
        BY <1>3, <2>1 DEF Threads
    <2>3. u.fatal = t.fatal
        BY <2>1 DEF Threads
    <2>4. u = [t EXCEPT !.mem = u.mem, !.fatal = u.fatal]
        BY <2>1, <2>2, <2>3 DEF Threads
    <2> QED BY <1>2, <1>5, <2>2, <2>4 DEF Wrote
<1>6. CASE ~t.fatal /\ ~ \A k \in 1 .. Len(w) : CanWrite(t, a + k - 1)
    <2>1. u = [t EXCEPT !.fatal = TRUE]
        BY <1>6 DEF Write
    <2>2. u \in Threads /\ u.fatal /\ u.mem = t.mem
        BY <2>1 DEF Threads
    <2>3. u = [t EXCEPT !.mem = u.mem, !.fatal = u.fatal]
        BY <2>1, <2>2 DEF Threads
    <2> QED BY <2>2, <2>3 DEF Wrote
<1> QED BY <1>4, <1>5, <1>6

-----------------------------------------------------------------------------
(* Sections                                                                *)

Sections == [kind : STRING, addr : Nat, bytes : Seq(ByteValues)]
In(a, s) == a >= s.addr /\ a < s.addr + Len(s.bytes)

\* The sections of a well formed executable are typed, and do not overlap.
LEMMA SectionsOf ==
    ASSUME NEW image, WellFormed(image)
    PROVE  /\ image.sections \in Seq(Sections) /\ Len(image.sections) \in Nat
           /\ DOMAIN image.sections = 1 .. Len(image.sections)
           /\ \A i \in 1 .. Len(image.sections) :
                 /\ image.sections[i] \in Sections
                 /\ image.sections[i].kind = "text" =>
                       image.sections[i].addr + Len(image.sections[i].bytes) + SLACK <= DATA_BASE
                 /\ image.sections[i].kind \notin FromFile =>
                       image.sections[i].bytes = <<>>
           /\ \A i, j \in 1 .. Len(image.sections) : \A a \in Nat :
                 In(a, image.sections[i]) /\ In(a, image.sections[j]) => i = j
<1> DEFINE S == image.sections
<1>1. S \in Seq(Sections)
    BY DEF WellFormed, Sections
<1> HIDE DEF S
<1>2. Len(S) \in Nat /\ DOMAIN S = 1 .. Len(S) /\ \A i \in 1 .. Len(S) : S[i] \in Sections
    BY <1>1
<1>3. \A i \in 1 .. Len(S) : S[i].addr \in Nat /\ Len(S[i].bytes) \in Nat
    BY <1>2 DEF Sections
<1>4. ASSUME NEW i \in 1 .. Len(S)
      PROVE  /\ S[i].kind = "text" => S[i].addr + Len(S[i].bytes) + SLACK <= DATA_BASE
             /\ S[i].kind \notin FromFile => S[i].bytes = <<>>
             /\ \A j \in 1 .. Len(S) : j # i =>
                    \/ S[i].addr + Len(S[i].bytes) <= S[j].addr
                    \/ S[i].addr >= S[j].addr + Len(S[j].bytes)
    BY <1>2 DEF WellFormed, S
<1>5. ASSUME NEW i \in 1 .. Len(S), NEW j \in 1 .. Len(S), NEW a \in Nat, In(a, S[i]), In(a, S[j]), i # j
      PROVE  FALSE
    <2> DEFINE p == S[i].addr
               q == S[j].addr
               m == Len(S[i].bytes)
               n == Len(S[j].bytes)
    <2>1. p + m <= q \/ p >= q + n
        BY <1>4, <1>5
    <2>2. a >= p /\ a < p + m /\ a >= q /\ a < q + n
        BY <1>5 DEF In
    <2>3. p \in Int /\ m \in Int /\ q \in Int /\ n \in Int
        BY <1>3
    <2> HIDE DEF p, q, m, n
    <2> QED BY <2>1, <2>2, <2>3
<1> QED BY <1>1, <1>2, <1>4, <1>5 DEF S

\* The executable's byte is that of the section that has it.
LEMMA ImageByteIs ==
    ASSUME NEW image, WellFormed(image), NEW a \in Nat
    PROVE  /\ \A i \in 1 .. Len(image.sections) : In(a, image.sections[i]) =>
                 ImageByte(image, a) = image.sections[i].bytes[a - image.sections[i].addr + 1]
           /\ (\A i \in 1 .. Len(image.sections) : ~In(a, image.sections[i])) =>
                 ImageByte(image, a) = 0
           /\ ImageByte(image, a) \in ByteValues
<1> DEFINE S == image.sections
           holds == {s \in Range(S) : In(a, s)}
<1>1. /\ DOMAIN S = 1 .. Len(S)
      /\ \A i \in 1 .. Len(S) : S[i] \in Sections
      /\ \A i, j \in 1 .. Len(S) : In(a, S[i]) /\ In(a, S[j]) => i = j
    BY SectionsOf
<1>2. /\ holds = {} => ImageByte(image, a) = 0
      /\ holds # {} => LET s == CHOOSE s \in holds : TRUE
                       IN  ImageByte(image, a) = s.bytes[a - s.addr + 1]
    BY DEF ImageByte, In
<1>3. Range(S) = {S[i] : i \in 1 .. Len(S)}
    BY <1>1 DEF Range
<1> HIDE DEF S
<1>4. ASSUME NEW i \in 1 .. Len(S), In(a, S[i])
      PROVE  ImageByte(image, a) = S[i].bytes[a - S[i].addr + 1]
    <2>1. holds = {S[i]}
        BY <1>1, <1>3, <1>4
    <2>2. (CHOOSE s \in holds : TRUE) = S[i]
        BY <2>1
    <2> HIDE DEF holds
    <2> QED BY <1>2, <2>1, <2>2
<1>5. ASSUME \A i \in 1 .. Len(S) : ~In(a, S[i])
      PROVE  ImageByte(image, a) = 0
    <2>1. holds = {}
        BY <1>3, <1>5
    <2> QED BY <1>2, <2>1
<1>6. ImageByte(image, a) \in ByteValues
    <2>1. CASE \E i \in 1 .. Len(S) : In(a, S[i])
        <3>1. PICK i \in 1 .. Len(S) : In(a, S[i])
            BY <2>1
        <3>2. S[i].bytes \in Seq(ByteValues) /\ S[i].addr \in Nat
            BY <1>1 DEF Sections
        <3> DEFINE w == S[i].bytes
                   b == S[i].addr
        <3>3. a - b + 1 \in 1 .. Len(w)
            <4>1. a >= b /\ a < b + Len(w)
                BY <3>1 DEF In
            <4>2. b \in Nat /\ Len(w) \in Nat
                BY <3>2
            <4> HIDE DEF b, w
            <4> QED BY <4>1, <4>2
        <3>4. w[a - b + 1] \in ByteValues
            <4>1. w \in Seq(ByteValues)
                BY <3>2
            <4> HIDE DEF b, w
            <4> QED BY <3>3, <4>1
        <3> QED BY <1>4, <3>1, <3>4
    <2>2. CASE ~ \E i \in 1 .. Len(S) : In(a, S[i])
        BY <1>5, <2>2, ZeroIsAByte
    <2> QED BY <2>1, <2>2
<1> QED BY <1>4, <1>5, <1>6 DEF S

\* One section: its bytes are written, if the simulator goes on.
Loading == {t \in Threads : t.ld_text_size + TEXT_BASE <= DATA_BASE}
Loaded(t, u, s) ==
    /\ u \in Loading
    /\ u = [t EXCEPT !.mem = u.mem, !.fatal = u.fatal, !.ld_text_size = u.ld_text_size]
    /\ ~u.fatal => /\ ~t.fatal
                   /\ \A x \in MemAddrs :
                         ByteAt(u.mem, x) = IF In(x, s) THEN s.bytes[x - s.addr + 1]
                                                        ELSE ByteAt(t.mem, x)

\* One section is loaded: its bytes are stored and its bounds noted.
LEMMA LoadSectionIs ==
    ASSUME NEW t \in Loading, NEW s \in Sections,
           s.kind = "text" => s.addr + Len(s.bytes) + SLACK <= DATA_BASE,
           s.kind \notin FromFile => s.bytes = <<>>,
           NEW u, u = LoadSection(t, s)
    PROVE  Loaded(t, u, s)
<1>7. t \in Threads
    BY DEF Loading
<1>6. t.ld_text_size + TEXT_BASE <= DATA_BASE
    BY DEF Loading
<1>1. s.addr \in Nat /\ s.bytes \in Seq(ByteValues) /\ Len(s.bytes) \in Nat
    BY DEF Sections
<1>2. ASSUME NEW m, NEW n, Written(m, n, s.addr, s.bytes)
      PROVE  \A x \in MemAddrs : ByteAt(n, x) = IF In(x, s) THEN s.bytes[x - s.addr + 1]
                                                            ELSE ByteAt(m, x)
    <2>1. \A x \in MemAddrs : x \in s.addr .. s.addr + Len(s.bytes) - 1 <=> In(x, s)
        BY <1>1, AddressesAreNumbers DEF In
    <2> QED BY <1>2, <2>1 DEF Written
<1>3. CASE s.bytes # <<>> /\ s.kind = "text"
    <2> DEFINE e == s.addr + Len(s.bytes) - TEXT_BASE + SLACK
               v == [t EXCEPT !.ld_text_size = e]
    <2>1. e \in Int /\ e + TEXT_BASE <= DATA_BASE
        <3> DEFINE b == s.addr
                   n == Len(s.bytes)
        <3>1. b \in Nat /\ n \in Nat /\ b + n + SLACK <= DATA_BASE
            BY <1>1, <1>3
        <3>2. e = b + n - TEXT_BASE + SLACK
            OBVIOUS
        <3> HIDE DEF b, n, e
        <3> QED BY <3>1, <3>2, Segments
    <2>2. u = Write(v, s.addr, s.bytes)
        BY <1>3 DEF LoadSection, FromFile
    <2> HIDE DEF e
    <2>3. v \in Threads /\ v.mem = t.mem /\ v.fatal = t.fatal /\ v.ld_text_size = e
        BY <1>7, <2>1 DEF Threads
    <2>4. v = [t EXCEPT !.ld_text_size = e]
        OBVIOUS
    <2> HIDE DEF v
    <2>5. /\ u \in Threads /\ u = [v EXCEPT !.mem = u.mem, !.fatal = u.fatal]
          /\ ~u.fatal => ~v.fatal /\ Written(v.mem, u.mem, s.addr, s.bytes)
        <3>1. Wrote(v, u, s.addr, s.bytes)
            BY <1>1, <2>2, <2>3, WriteIs
        <3> QED BY <3>1 DEF Wrote
    <2>6. u.ld_text_size = e
        BY <1>7, <2>3, <2>5 DEF Threads
    <2>7. u = [t EXCEPT !.mem = u.mem, !.fatal = u.fatal, !.ld_text_size = u.ld_text_size]
        BY <1>7, <2>3, <2>4, <2>5, <2>6 DEF Threads
    <2>8. ~u.fatal => /\ ~t.fatal
                      /\ \A x \in MemAddrs :
                            ByteAt(u.mem, x) = IF In(x, s) THEN s.bytes[x - s.addr + 1]
                                                           ELSE ByteAt(t.mem, x)
        BY <1>2, <2>3, <2>5
    <2> QED BY <2>1, <2>5, <2>6, <2>7, <2>8 DEF Loaded, Loading
<1>4. CASE s.bytes # <<>> /\ s.kind \in FromFile \ {"text"}
    <2>1. u = Write(t, s.addr, s.bytes)
        BY <1>4 DEF LoadSection, FromFile
    <2>2. /\ u \in Threads /\ u = [t EXCEPT !.mem = u.mem, !.fatal = u.fatal]
          /\ ~u.fatal => ~t.fatal /\ Written(t.mem, u.mem, s.addr, s.bytes)
        <3>1. Wrote(t, u, s.addr, s.bytes)
            BY <1>1, <1>7, <2>1, WriteIs
        <3> QED BY <3>1 DEF Wrote
    <2>3. u.ld_text_size = t.ld_text_size
        BY <1>7, <2>2 DEF Threads
    <2>4. u = [t EXCEPT !.mem = u.mem, !.fatal = u.fatal, !.ld_text_size = u.ld_text_size]
        BY <1>7, <2>2, <2>3 DEF Threads
    <2>5. ~u.fatal => /\ ~t.fatal
                      /\ \A x \in MemAddrs :
                            ByteAt(u.mem, x) = IF In(x, s) THEN s.bytes[x - s.addr + 1]
                                                           ELSE ByteAt(t.mem, x)
        BY <1>2, <2>2
    <2> QED BY <1>6, <2>2, <2>3, <2>4, <2>5 DEF Loaded, Loading
<1>5. CASE s.kind \notin FromFile
    <2>1. u = t
        BY <1>5 DEF LoadSection, FromFile
    <2>2. t = [t EXCEPT !.mem = t.mem, !.fatal = t.fatal, !.ld_text_size = t.ld_text_size]
        BY <1>7 DEF Threads
    <2>3. \A x \in MemAddrs : ~In(x, s)
        <3>1. Len(s.bytes) = 0
            BY <1>5
        <3> SUFFICES ASSUME NEW x \in MemAddrs, In(x, s) PROVE FALSE
            OBVIOUS
        <3>2. x >= s.addr /\ x < s.addr + 0
            BY <3>1 DEF In
        <3> QED BY <1>1, <3>2, AddressesAreNumbers
    <2> QED BY <1>6, <1>7, <2>1, <2>2, <2>3 DEF Loaded, Loading
<1>8. CASE s.bytes = <<>> /\ s.kind \in FromFile
    <2>1. u = [t EXCEPT !.fatal = TRUE]
        BY <1>8 DEF LoadSection
    <2>2. u \in Threads /\ u.fatal /\ u.mem = t.mem /\ u.ld_text_size = t.ld_text_size
        BY <1>7, <2>1 DEF Threads
    <2>3. u = [t EXCEPT !.mem = u.mem, !.fatal = u.fatal, !.ld_text_size = u.ld_text_size]
        BY <1>7, <2>1, <2>2 DEF Threads
    <2> QED BY <1>6, <2>2, <2>3 DEF Loaded, Loading
<1>9. \/ s.kind = "text" \/ s.kind \in FromFile \ {"text"} \/ s.kind \notin FromFile
    OBVIOUS
<1>10. s.kind = "text" => s.kind \in FromFile
    BY DEF FromFile
<1> QED BY <1>3, <1>4, <1>5, <1>8, <1>9, <1>10

\* What the first n sections have put in memory.
FirstLoaded(image, n, u) ==
    LET S == image.sections IN
    /\ u \in Loading
    /\ u = [NewState EXCEPT !.mem = u.mem, !.fatal = u.fatal, !.ld_text_size = u.ld_text_size]
    /\ ~u.fatal =>
          \A x \in MemAddrs :
              /\ \A i \in 1 .. n : In(x, S[i]) => ByteAt(u.mem, x) = S[i].bytes[x - S[i].addr + 1]
              /\ (\A i \in 1 .. n : ~In(x, S[i])) => ByteAt(u.mem, x) = 0

\* Before the first section nothing is loaded.
LEMMA FirstLoadedStarts ==
    ASSUME NEW image
    PROVE  FirstLoaded(image, 0, NewState)
<1>1. NewState \in Threads
    BY NewStateIsTyped
<1>2. NewState.ld_text_size = 0 /\ NewState.mem = EmptyTable /\ NewState.fatal = FALSE
    BY DEF NewState
<1>3. NewState \in Loading
    BY <1>1, <1>2, Segments DEF Loading
<1>4. NewState = [NewState EXCEPT !.mem = NewState.mem, !.fatal = NewState.fatal,
                                  !.ld_text_size = NewState.ld_text_size]
    BY <1>1 DEF Threads
<1>5. \A x \in MemAddrs : ByteAt(NewState.mem, x) = 0
    BY <1>2, EmptyTableIsZero
<1> QED BY <1>3, <1>4, <1>5 DEF FirstLoaded

\* A section more is loaded, and the sections before it stay: they do not overlap.
LEMMA FirstLoadedGrows ==
    ASSUME NEW image, WellFormed(image), NEW n \in 0 .. Len(image.sections) - 1,
           NEW t, FirstLoaded(image, n, t), NEW u, Loaded(t, u, image.sections[n + 1])
    PROVE  FirstLoaded(image, n + 1, u)
<1> DEFINE S == image.sections
           s == S[n + 1]
<1>1. /\ Len(S) \in Nat
      /\ \A i, j \in 1 .. Len(S) : \A a \in Nat : In(a, S[i]) /\ In(a, S[j]) => i = j
    BY SectionsOf
<1> HIDE DEF S
<1>2. t \in Threads /\ NewState \in Threads
    BY NewStateIsTyped DEF FirstLoaded, Loading
<1>3. /\ u \in Loading
      /\ u = [t EXCEPT !.mem = u.mem, !.fatal = u.fatal, !.ld_text_size = u.ld_text_size]
      /\ ~u.fatal => ~t.fatal
    BY DEF Loaded
<1>4. t = [NewState EXCEPT !.mem = t.mem, !.fatal = t.fatal, !.ld_text_size = t.ld_text_size]
    BY DEF FirstLoaded
<1>5. u = [NewState EXCEPT !.mem = u.mem, !.fatal = u.fatal, !.ld_text_size = u.ld_text_size]
    BY <1>2, <1>3, <1>4 DEF Threads
<1>6. ASSUME ~u.fatal, NEW x \in MemAddrs
      PROVE  /\ \A i \in 1 .. n + 1 : In(x, S[i]) => ByteAt(u.mem, x) = S[i].bytes[x - S[i].addr + 1]
             /\ (\A i \in 1 .. n + 1 : ~In(x, S[i])) => ByteAt(u.mem, x) = 0
    <2>1. x \in Nat
        BY AddressesAreNumbers
    <2>2. ByteAt(u.mem, x) = IF In(x, s) THEN s.bytes[x - s.addr + 1] ELSE ByteAt(t.mem, x)
        BY <1>6 DEF Loaded, S
    <2>3. /\ \A i \in 1 .. n : In(x, S[i]) => ByteAt(t.mem, x) = S[i].bytes[x - S[i].addr + 1]
          /\ (\A i \in 1 .. n : ~In(x, S[i])) => ByteAt(t.mem, x) = 0
        BY <1>3, <1>6 DEF FirstLoaded, S
    <2>4. n + 1 \in 1 .. Len(S) /\ \A i \in 1 .. n : i \in 1 .. Len(S) /\ i # n + 1
        BY <1>1 DEF S
    <2>5. \A i \in 1 .. n : In(x, S[i]) => ~In(x, s)
        BY <1>1, <2>1, <2>4
    <2>6. 1 .. n + 1 = (1 .. n) \cup {n + 1}
        BY <1>1 DEF S
    <2> HIDE DEF ByteAt
    <2> QED BY <2>2, <2>3, <2>5, <2>6
<1> QED BY <1>3, <1>5, <1>6 DEF FirstLoaded, S

\* The loop over the sections loads them all.
LEMMA LoadSectionsLoads ==
    ASSUME NEW image, WellFormed(image)
    PROVE  FirstLoaded(image, Len(image.sections), LoadSections(NewState, image))
<1> DEFINE S == image.sections
           N == Len(S)
           G == [p \in (1 .. N) \X Loading |-> LoadSection(p[2], S[p[1]])]
           states(f) == f = [n \in 0 .. N |-> IF n = 0 THEN NewState ELSE LoadSection(f[n - 1], S[n])]
<1>1. N \in Nat
    BY SectionsOf
<1>2. ASSUME NEW n \in 1 .. N, NEW t \in Loading
      PROVE  Loaded(t, LoadSection(t, S[n]), S[n])
    <2>1. /\ S[n] \in Sections
          /\ S[n].kind = "text" => S[n].addr + Len(S[n].bytes) + SLACK <= DATA_BASE
          /\ S[n].kind \notin FromFile => S[n].bytes = <<>>
        BY SectionsOf
    <2>2. ASSUME NEW s \in Sections, s = S[n], NEW u, u = LoadSection(t, s)
          PROVE  Loaded(t, u, s)
        <3> HIDE DEF S
        <3> QED BY <2>1, <2>2, LoadSectionIs
    <2> HIDE DEF S
    <2> QED BY <2>1, <2>2
<1>3. NewState \in Loading
    BY FirstLoadedStarts DEF FirstLoaded
<1>4. G \in [(1 .. N) \X Loading -> Loading]
    <2>1. \A n \in 1 .. N : \A t \in Loading : LoadSection(t, S[n]) \in Loading
        <3>1. ASSUME NEW a, NEW b, NEW s, Loaded(a, b, s) PROVE b \in Loading
            BY <3>1 DEF Loaded
        <3> HIDE DEF S, N
        <3> QED BY <1>2, <3>1
    <2> HIDE DEF S, N
    <2> QED BY <2>1
<1>5. PICK f : IsLoop(f, N, Loading, NewState, G)
    <2> HIDE DEF G, N
    <2> QED BY <1>1, <1>3, <1>4, TypedLoop
<1> HIDE DEF S, N
<1>6. states(f)
    <2>1. ASSUME NEW n \in 0 .. N
          PROVE  f[n] = IF n = 0 THEN NewState ELSE LoadSection(f[n - 1], S[n])
        <3>1. CASE n = 0
            BY <1>5, <3>1 DEF IsLoop
        <3>2. CASE n # 0
            <4>1. n \in 1 .. N /\ n - 1 \in 0 .. N
                BY <1>1, <3>2
            <4>2. f[n - 1] \in Loading /\ f[n] = G[<<n, f[n - 1]>>]
                BY <1>5, <4>1 DEF IsLoop
            <4> QED BY <3>2, <4>1, <4>2
        <3> QED BY <3>1, <3>2
    <2>2. f = [n \in 0 .. N |-> f[n]]
        BY <1>5 DEF IsLoop
    <2> QED BY <2>1, <2>2
<1> DEFINE g == CHOOSE r : states(r)
<1>7. states(g)
    <2> HIDE DEF states
    <2> QED BY <1>6
<1>8. LoadSections(NewState, image) = g[N]
    BY DEF LoadSections, S, N
<1> HIDE DEF g
<1>9. g[0] = NewState /\ \A n \in 1 .. N : g[n] = LoadSection(g[n - 1], S[n])
    BY <1>1, <1>7
<1> HIDE DEF states
<1> DEFINE Done == {n \in 0 .. N : FirstLoaded(image, n, g[n])}
<1>10. \A n \in 0 .. N : n \in Done
    <2>1. 0 \in Done
        BY <1>1, <1>9, FirstLoadedStarts
    <2>2. ASSUME NEW n \in 0 .. N - 1, n \in Done
          PROVE  n + 1 \in Done
        <3>1. /\ n + 1 \in 1 .. N /\ n + 1 \in 0 .. N /\ (n + 1) - 1 = n
              /\ n \in 0 .. Len(image.sections) - 1
            BY <1>1 DEF N, S
        <3>2. g[n + 1] = LoadSection(g[n], S[n + 1])
            BY <1>9, <3>1
        <3>3. FirstLoaded(image, n, g[n]) /\ g[n] \in Loading
            BY <2>2 DEF FirstLoaded
        <3>4. Loaded(g[n], g[n + 1], S[n + 1])
            BY <1>2, <3>1, <3>2, <3>3
        <3>5. FirstLoaded(image, n + 1, g[n + 1])
            BY <3>1, <3>3, <3>4, FirstLoadedGrows DEF S
        <3> QED BY <3>1, <3>5
    <2> HIDE DEF Done
    <2> QED BY <1>1, <2>1, <2>2, Rounds
<1>11. FirstLoaded(image, N, g[N])
    BY <1>1, <1>10
<1> QED BY <1>8, <1>11 DEF N, S

\* The text segment's size depends on the executable alone.
TextSize(image) == LoadSections(NewState, image).ld_text_size

\* After the sections memory is the executable.
ImageLoaded(t, image) ==
    /\ t \in Loading
    /\ t = [NewState EXCEPT !.mem = t.mem, !.fatal = t.fatal, !.ld_text_size = TextSize(image)]
    /\ ~t.fatal => \A x \in MemAddrs : ByteAt(t.mem, x) = ImageByte(image, x)

\* The loaded text is the text of the image.
LEMMA SectionsAreImage ==
    ASSUME NEW image, WellFormed(image), NEW t, t = LoadSections(NewState, image)
    PROVE  ImageLoaded(t, image)
<1>1. FirstLoaded(image, Len(image.sections), t)
    BY LoadSectionsLoads
<1>2. ASSUME ~t.fatal, NEW x \in MemAddrs
      PROVE  ByteAt(t.mem, x) = ImageByte(image, x)
    <2> DEFINE S == image.sections
    <2>1. /\ \A i \in 1 .. Len(S) : In(x, S[i]) => ByteAt(t.mem, x) = S[i].bytes[x - S[i].addr + 1]
          /\ (\A i \in 1 .. Len(S) : ~In(x, S[i])) => ByteAt(t.mem, x) = 0
        BY <1>1, <1>2 DEF FirstLoaded
    <2>2. /\ \A i \in 1 .. Len(S) : In(x, S[i]) => ImageByte(image, x) = S[i].bytes[x - S[i].addr + 1]
          /\ (\A i \in 1 .. Len(S) : ~In(x, S[i])) => ImageByte(image, x) = 0
        <3>1. x \in Nat
            BY AddressesAreNumbers
        <3> QED BY <3>1, ImageByteIs
    <2> HIDE DEF S
    <2> QED BY <2>1, <2>2
<1>3. t.ld_text_size = TextSize(image)
    BY DEF TextSize
<1> QED BY <1>1, <1>2, <1>3 DEF FirstLoaded, ImageLoaded

-----------------------------------------------------------------------------
(* The argument vector                                                     *)

\* A store once the segments are known: it is to the data or the stack.
Segmented == {t \in Threads : t.ld_data_base = DATA_BASE}
Stored(t, u, a, w) ==
    /\ u \in Segmented /\ u = [t EXCEPT !.mem = u.mem, !.fatal = u.fatal]
    /\ ~u.fatal => /\ ~t.fatal
                   /\ \A x \in MemAddrs : x \notin a .. a + Len(w) - 1
                                              => ByteAt(u.mem, x) = ByteAt(t.mem, x)
                   /\ \A x \in MemAddrs : x < DATA_BASE => ByteAt(u.mem, x) = ByteAt(t.mem, x)
                   /\ Holds(u.mem, a, w)

\* Once the segments are known a write that succeeds leaves all below the data segment alone.
LEMMA StoreIs ==
    ASSUME NEW t \in Segmented, NEW a \in Nat, NEW w \in Seq(ByteValues),
           NEW u, u = Write(t, a, w)
    PROVE  Stored(t, u, a, w)
<1>1. t \in Threads /\ t.ld_data_base = DATA_BASE /\ t.ld_stack_base = STACK_BASE
    BY DEF Segmented, Threads
<1>2. Wrote(t, u, a, w)
    BY <1>1, WriteIs
<1>3. u \in Threads /\ u = [t EXCEPT !.mem = u.mem, !.fatal = u.fatal]
    BY <1>2 DEF Wrote
<1>4. u.ld_data_base = DATA_BASE
    BY <1>1, <1>3 DEF Threads
<1>5. ASSUME ~u.fatal
      PROVE  /\ ~t.fatal
             /\ \A x \in MemAddrs : x \notin a .. a + Len(w) - 1
                                        => ByteAt(u.mem, x) = ByteAt(t.mem, x)
             /\ \A x \in MemAddrs : x < DATA_BASE => ByteAt(u.mem, x) = ByteAt(t.mem, x)
             /\ Holds(u.mem, a, w)
    <2>1. ~t.fatal /\ Written(t.mem, u.mem, a, w) /\ \A k \in 1 .. Len(w) : CanWrite(t, a + k - 1)
        BY <1>2, <1>5 DEF Wrote
    <2>2. ASSUME NEW k \in 1 .. Len(w)
          PROVE  a + k - 1 \in DATA_BASE .. STACK_BASE - 1 /\ a + k - 1 \in MemAddrs
        <3>1. a + k - 1 >= DATA_BASE /\ a + k - 1 < STACK_BASE
            BY <1>1, <2>1 DEF CanWrite
        <3>2. a + k - 1 \in Nat
            OBVIOUS
        <3> QED BY <3>1, <3>2, StackIsInTable, Segments
    <2>3. Holds(u.mem, a, w)
        <3> DEFINE m == t.mem
                   n == u.mem
        <3>1. Written(m, n, a, w)
            BY <2>1
        <3> HIDE DEF m, n
        <3>2. Holds(n, a, w)
            BY <2>2, <3>1, WrittenHolds
        <3> QED BY <3>2 DEF n
    <2>4. \A x \in MemAddrs : x \notin a .. a + Len(w) - 1 => ByteAt(u.mem, x) = ByteAt(t.mem, x)
        BY <2>1 DEF Written
    <2>5. ASSUME NEW x \in MemAddrs, x < DATA_BASE PROVE x \notin a .. a + Len(w) - 1
        <3> SUFFICES ASSUME x \in a .. a + Len(w) - 1 PROVE FALSE
            OBVIOUS
        <3>1. x - a + 1 \in 1 .. Len(w) /\ a + (x - a + 1) - 1 = x
            BY AddressesAreNumbers
        <3>2. x \in DATA_BASE .. STACK_BASE - 1
            BY <2>2, <3>1
        <3> QED BY <2>5, <3>2, Segments
    <2> QED BY <2>1, <2>3, <2>4, <2>5
<1> QED BY <1>3, <1>4, <1>5 DEF Stored, Segmented

\* What a store leaves alone stays in place.
LEMMA StoredKeeps ==
    ASSUME NEW t, NEW u, NEW a \in Int, NEW w, Len(w) \in Nat, Stored(t, u, a, w), ~u.fatal,
           NEW b \in Int, NEW v, Len(v) \in Nat, Holds(t.mem, b, v),
           b + Len(v) <= a \/ a + Len(w) <= b
    PROVE  Holds(u.mem, b, v)
<1>1. \A x \in MemAddrs : x \in b .. b + Len(v) - 1 => ByteAt(u.mem, x) = ByteAt(t.mem, x)
    <2>1. \A x \in MemAddrs : x \in b .. b + Len(v) - 1 => x \notin a .. a + Len(w) - 1
        BY AddressesAreNumbers
    <2> QED BY <2>1 DEF Stored
<1> DEFINE m == t.mem
           n == u.mem
<1>2. /\ \A x \in MemAddrs : x \in b .. b + Len(v) - 1 => ByteAt(n, x) = ByteAt(m, x)
      /\ Holds(m, b, v)
    BY <1>1
<1> HIDE DEF m, n
<1>3. Holds(n, b, v)
    BY <1>2, HoldsKept
<1> QED BY <1>3 DEF n

\* A job's strings are finite sequences of bytes.
LEMMA ArgumentsAre ==
    ASSUME NEW strings, Arguments(strings)
    PROVE  /\ Len(strings) \in Nat /\ DOMAIN strings = 1 .. Len(strings)
           /\ \A i \in 1 .. Len(strings) : strings[i] \in Seq(ByteValues) /\ Len(strings[i]) \in Nat
<1>1. strings \in Seq(Seq(ByteValues))
    BY DEF Arguments
<1> DEFINE T == Seq(ByteValues)
<1>2. /\ Len(strings) \in Nat /\ DOMAIN strings = 1 .. Len(strings)
      /\ \A i \in 1 .. Len(strings) : strings[i] \in T
    <2>1. strings \in Seq(T)
        BY <1>1
    <2> HIDE DEF T
    <2> QED BY <2>1
<1>3. \A s \in T : Len(s) \in Nat
    OBVIOUS
<1> QED BY <1>2, <1>3

\* Memory and the end of the simulator are all that changes.
Kept(t, u) == u = [t EXCEPT !.mem = u.mem, !.fatal = u.fatal]

\* What two writes each keep, both keep.
LEMMA KeptTwice ==
    ASSUME NEW t \in Threads, NEW u, Kept(t, u), NEW v, Kept(u, v)
    PROVE  Kept(t, v)
BY DEF Threads, Kept

\* A string is placed with one byte more, its terminator.
LEMMA TerminatedIs ==
    ASSUME NEW s \in Seq(ByteValues)
    PROVE  /\ Terminated(s) \in Seq(ByteValues) /\ Len(Terminated(s)) = Len(s) + 1
           /\ Len(Terminated(s)) \in Nat
BY ZeroIsAByte DEF Terminated

\* A round of the loop over the strings, and what n rounds have put in place.
Placing == [t : Segmented, sp : Nat]
Place(base, strings, p, n) ==
    [t |-> Write(Write(p.t, base + 4 * (n - 1), WordOf(p.sp)), p.sp, Terminated(strings[n])),
     sp |-> p.sp + Len(strings[n]) + 1]

Pointed(m, a, s, sp, end) ==
    \E p \in Nat : /\ p >= sp /\ p + Len(s) + 1 <= end
                   /\ Holds(m, a, WordOf(p)) /\ Holds(m, p, Terminated(s))

Vector(u, q, base, strings, n, sp) ==
    /\ q \in Placing /\ q.sp >= sp
    /\ q.t = [u EXCEPT !.mem = q.t.mem, !.fatal = q.t.fatal]
    /\ ~q.t.fatal =>
          /\ ~u.fatal
          /\ \A i \in 1 .. n : Pointed(q.t.mem, base + 4 * (i - 1), strings[i], sp, q.sp)
          /\ \A x \in MemAddrs :
                x < DATA_BASE \/ x < base \/ (x >= base + 4 * Len(strings) /\ x < sp)
                    => ByteAt(q.t.mem, x) = ByteAt(u.mem, x)

\* Before the first string the vector of pointers is empty.
LEMMA VectorStarts ==
    ASSUME NEW u \in Segmented, NEW base, NEW strings, NEW sp \in Nat,
           NEW q, q = [t |-> u, sp |-> sp]
    PROVE  Vector(u, q, base, strings, 0, sp)
<1>1. u = [u EXCEPT !.mem = u.mem, !.fatal = u.fatal]
    BY DEF Segmented, Threads
<1>2. q.t = u /\ q.sp = sp
    OBVIOUS
<1>3. q \in Placing
    BY DEF Placing
<1> QED BY <1>1, <1>2, <1>3 DEF Vector

\* The memory of the round: first the pointer, then the string.
LEMMA PlaceIs ==
    ASSUME NEW base \in Nat, NEW strings, Arguments(strings),
           NEW n \in 1 .. Len(strings), NEW p \in Placing,
           NEW q, q = Place(base, strings, p, n)
    PROVE  \E v : /\ Stored(p.t, v, base + 4 * (n - 1), WordOf(p.sp))
                  /\ Stored(v, q.t, p.sp, Terminated(strings[n]))
                  /\ q.sp = p.sp + Len(strings[n]) + 1
                  /\ q \in Placing
<1> DEFINE v == Write(p.t, base + 4 * (n - 1), WordOf(p.sp))
           w == WordOf(p.sp)
           s == Terminated(strings[n])
           t == p.t
           sp == p.sp
           a == base + 4 * (n - 1)
<1>1. t \in Segmented /\ sp \in Nat
    BY DEF Placing
<1>2. strings[n] \in Seq(ByteValues) /\ Len(strings[n]) \in Nat
    BY ArgumentsAre
<1>3. w \in Seq(ByteValues) /\ s \in Seq(ByteValues)
    BY <1>1, <1>2, WordIsTyped, TerminatedIs
<1>4. a \in Nat
    <2>1. Len(strings) \in Nat
        BY ArgumentsAre
    <2>2. n - 1 \in Nat
        BY <2>1
    <2> QED BY <2>2
<1>5. v = Write(t, a, w)
    OBVIOUS
<1>6. q = [t |-> Write(v, sp, s), sp |-> sp + Len(strings[n]) + 1]
    BY DEF Place
<1>7. q.t = Write(v, sp, s) /\ q.sp = sp + Len(strings[n]) + 1
    BY <1>6
<1> HIDE DEF v, w, s, t, sp, a
<1>8. Stored(t, v, a, w)
    BY <1>1, <1>3, <1>4, <1>5, StoreIs
<1>9. v \in Segmented
    BY <1>8 DEF Stored
<1>10. ASSUME NEW r, r = Write(v, sp, s) PROVE Stored(v, r, sp, s)
    BY <1>1, <1>3, <1>9, <1>10, StoreIs
<1>11. Stored(v, q.t, sp, s)
    BY <1>7, <1>10
<1>12. q.t \in Segmented
    BY <1>11 DEF Stored
<1>13. q \in Placing
    BY <1>1, <1>2, <1>6, <1>7, <1>12 DEF Placing
<1>14. Stored(p.t, v, base + 4 * (n - 1), WordOf(p.sp)) /\ Stored(v, q.t, p.sp, Terminated(strings[n]))
    BY <1>8, <1>11 DEF t, sp, w, s, a
<1> QED BY <1>7, <1>13, <1>14 DEF sp

\* A string and its pointer are placed; the earlier strings and pointers stay.
LEMMA VectorGrows ==
    ASSUME NEW u \in Segmented, NEW base \in Nat, NEW strings, Arguments(strings), NEW sp \in Nat,
           base + 4 * Len(strings) + 4 <= sp, NEW n \in 0 .. Len(strings) - 1,
           NEW p, Vector(u, p, base, strings, n, sp),
           NEW q, q = Place(base, strings, p, n + 1)
    PROVE  Vector(u, q, base, strings, n + 1, sp)
<1> DEFINE N == Len(strings)
           s == strings[n + 1]
           a == base + 4 * n
           w == WordOf(p.sp)
           top == p.sp
           z == Terminated(s)
<1>1. N \in Nat /\ n + 1 \in 1 .. N /\ 4 * ((n + 1) - 1) = 4 * n /\ a \in Nat
    <2>1. N \in Nat
        BY ArgumentsAre
    <2> HIDE DEF N
    <2> QED BY <2>1 DEF N
<1>2. p \in Placing /\ top \in Nat /\ top >= sp
    BY DEF Vector, Placing
<1>3. PICK v : /\ Stored(p.t, v, a, w) /\ Stored(v, q.t, top, z)
               /\ q.sp = top + Len(s) + 1 /\ q \in Placing
    <2>1. \E v : /\ Stored(p.t, v, base + 4 * ((n + 1) - 1), WordOf(p.sp))
                 /\ Stored(v, q.t, p.sp, Terminated(strings[n + 1]))
                 /\ q.sp = p.sp + Len(strings[n + 1]) + 1
                 /\ q \in Placing
        BY <1>1, <1>2, PlaceIs
    <2> QED BY <1>1, <2>1
<1>4. Len(s) \in Nat /\ Len(w) = 4 /\ Len(z) = Len(s) + 1
    <2>1. s \in Seq(ByteValues)
        BY <1>1, ArgumentsAre
    <2> QED BY <1>2, <2>1, WordIsTyped, TerminatedIs
<1>5. q.sp >= sp /\ q.sp \in Nat /\ q.sp >= top
    <2> DEFINE l == Len(s)
    <2>1. q.sp = top + l + 1 /\ l \in Nat
        BY <1>3, <1>4
    <2> HIDE DEF l, top
    <2> QED BY <1>2, <2>1
<1>6. q.t = [u EXCEPT !.mem = q.t.mem, !.fatal = q.t.fatal]
    <2>1. /\ p.t = [u EXCEPT !.mem = p.t.mem, !.fatal = p.t.fatal]
          /\ v = [p.t EXCEPT !.mem = v.mem, !.fatal = v.fatal]
          /\ q.t = [v EXCEPT !.mem = q.t.mem, !.fatal = q.t.fatal]
        BY <1>3 DEF Vector, Stored
    <2> DEFINE t == p.t
               r == q.t
    <2>2. Kept(u, t) /\ Kept(t, v) /\ Kept(v, r)
        BY <2>1 DEF Kept
    <2> HIDE DEF t, r
    <2>3. u \in Threads
        BY DEF Segmented
    <2>4. Kept(u, v)
        BY <2>2, <2>3, KeptTwice
    <2>5. Kept(u, r)
        BY <2>2, <2>3, <2>4, KeptTwice
    <2> QED BY <2>5 DEF r, Kept
<1>7. ASSUME ~q.t.fatal
      PROVE  /\ ~u.fatal
             /\ \A i \in 1 .. n + 1 : Pointed(q.t.mem, base + 4 * (i - 1), strings[i], sp, q.sp)
             /\ \A x \in MemAddrs :
                    x < DATA_BASE \/ x < base \/ (x >= base + 4 * N /\ x < sp)
                        => ByteAt(q.t.mem, x) = ByteAt(u.mem, x)
    <2>1. ~v.fatal /\ ~p.t.fatal
        <3>1. ~v.fatal
            BY <1>3, <1>7 DEF Stored
        <3> QED BY <1>3, <3>1 DEF Stored
    <2>2. /\ ~u.fatal
          /\ \A i \in 1 .. n : Pointed(p.t.mem, base + 4 * (i - 1), strings[i], sp, p.sp)
          /\ \A x \in MemAddrs :
                x < DATA_BASE \/ x < base \/ (x >= base + 4 * N /\ x < sp)
                    => ByteAt(p.t.mem, x) = ByteAt(u.mem, x)
        BY <2>1 DEF Vector
    <2>3. ASSUME NEW b \in Int, NEW y, Len(y) \in Nat, Holds(p.t.mem, b, y),
                 b + Len(y) <= a \/ (a + 4 <= b /\ b + Len(y) <= top)
          PROVE  Holds(q.t.mem, b, y)
        <3>1. a \in Int /\ Len(w) \in Nat /\ (b + Len(y) <= a \/ a + Len(w) <= b)
            BY <1>1, <1>4, <2>3
        <3>2. Holds(v.mem, b, y)
            <4> HIDE DEF a, w
            <4> QED BY <1>3, <2>1, <2>3, <3>1, StoredKeeps
        <3>3. top \in Int /\ Len(z) \in Nat /\ b + Len(y) <= top
            <4>1. Len(z) \in Nat
                <5> HIDE DEF z, s
                <5> QED BY <1>4
            <4>2. a <= sp
                BY <1>1
            <4> HIDE DEF top, z, a
            <4> QED BY <1>1, <1>2, <2>3, <4>1, <4>2
        <3>4. ASSUME NEW r, r = q.t PROVE Holds(r.mem, b, y)
            <4>1. Stored(v, r, top, z) /\ ~r.fatal
                BY <1>3, <1>7, <3>4
            <4> HIDE DEF top, z
            <4> QED BY <2>3, <3>2, <3>3, <4>1, StoredKeeps
        <3> QED BY <3>4
    <2>4. ASSUME NEW i \in 1 .. n
          PROVE  Pointed(q.t.mem, base + 4 * (i - 1), strings[i], sp, q.sp)
        <3>1. PICK k \in Nat : /\ k >= sp /\ k + Len(strings[i]) + 1 <= top
                               /\ Holds(p.t.mem, base + 4 * (i - 1), WordOf(k))
                               /\ Holds(p.t.mem, k, Terminated(strings[i]))
            BY <2>2 DEF Pointed
        <3>2. /\ Len(strings[i]) \in Nat /\ Len(WordOf(k)) = 4
              /\ Len(Terminated(strings[i])) = Len(strings[i]) + 1
            <4>1. i \in 1 .. Len(strings)
                BY <1>1
            <4>2. strings[i] \in Seq(ByteValues)
                BY <4>1, ArgumentsAre
            <4> QED BY <4>2, WordIsTyped, TerminatedIs
        <3>3. Holds(q.t.mem, base + 4 * (i - 1), WordOf(k))
            <4> DEFINE c == base + 4 * (i - 1)
                       y == WordOf(k)
            <4>1. c \in Int /\ c + 4 <= a
                BY <1>1
            <4>2. Len(y) = 4 /\ Holds(p.t.mem, c, y)
                BY <3>1, <3>2
            <4>3. Len(y) \in Nat /\ c + Len(y) <= a
                BY <4>1, <4>2
            <4> HIDE DEF a, top, c, y
            <4>4. Holds(q.t.mem, c, y)
                BY <2>3, <4>1, <4>2, <4>3
            <4> QED BY <4>4 DEF c, y
        <3>4. Holds(q.t.mem, k, Terminated(strings[i]))
            <4>1. a + 4 <= k
                BY <1>1, <3>1
            <4>2. k + Len(Terminated(strings[i])) <= top
                <5> DEFINE l == Len(strings[i])
                <5>1. k + l + 1 <= top /\ l \in Nat /\ Len(Terminated(strings[i])) = l + 1
                    BY <3>1, <3>2
                <5> HIDE DEF l, top
                <5> QED BY <1>2, <5>1
            <4>3. Len(Terminated(strings[i])) \in Nat
                BY <3>2
            <4> HIDE DEF a, top
            <4> QED BY <2>3, <3>1, <4>1, <4>2, <4>3
        <3>5. k + Len(strings[i]) + 1 <= q.sp
            <4> DEFINE l == Len(strings[i])
            <4>1. l \in Nat /\ k + l + 1 <= top
                BY <3>1, <3>2
            <4> HIDE DEF l, top
            <4>2. k + l + 1 <= q.sp
                BY <1>2, <1>5, <4>1
            <4> QED BY <4>2 DEF l
        <3> QED BY <3>1, <3>3, <3>4, <3>5 DEF Pointed
    <2>5. Pointed(q.t.mem, base + 4 * ((n + 1) - 1), strings[n + 1], sp, q.sp)
        <3>1. Holds(v.mem, a, w) /\ Holds(q.t.mem, top, z)
            BY <1>3, <1>7, <2>1 DEF Stored
        <3>2. ASSUME NEW r, r = q.t PROVE Holds(r.mem, a, w)
            <4>1. Stored(v, r, top, z) /\ ~r.fatal
                BY <1>3, <1>7, <3>2
            <4>2. a + Len(w) <= top
                <5>1. a + 4 <= sp
                    BY <1>1
                <5> HIDE DEF a, w, top
                <5> QED BY <1>1, <1>2, <1>4, <5>1
            <4>3. a \in Int /\ Len(w) \in Nat /\ top \in Int /\ Len(z) \in Nat
                <5> HIDE DEF a, w, top, z, s
                <5> QED BY <1>1, <1>2, <1>4
            <4> HIDE DEF a, w, top, z
            <4> QED BY <3>1, <4>1, <4>2, <4>3, StoredKeeps
        <3>3. top + Len(s) + 1 <= q.sp
            <4> HIDE DEF top, s
            <4> QED BY <1>2, <1>3, <1>4
        <3>4. Holds(q.t.mem, base + 4 * ((n + 1) - 1), w) /\ Holds(q.t.mem, top, Terminated(s))
            BY <1>1, <3>1, <3>2
        <3> QED BY <1>2, <3>3, <3>4 DEF Pointed
    <2>6. ASSUME NEW x \in MemAddrs, x < DATA_BASE \/ x < base \/ (x >= base + 4 * N /\ x < sp)
          PROVE  ByteAt(q.t.mem, x) = ByteAt(u.mem, x)
        <3>1. ByteAt(p.t.mem, x) = ByteAt(u.mem, x)
            BY <2>2, <2>6
        <3>2. CASE x < DATA_BASE
            <4>1. ByteAt(v.mem, x) = ByteAt(p.t.mem, x)
                BY <1>3, <2>1, <3>2 DEF Stored
            <4>2. ByteAt(q.t.mem, x) = ByteAt(v.mem, x)
                BY <1>3, <1>7, <3>2 DEF Stored
            <4> QED BY <3>1, <4>1, <4>2
        <3>3. CASE x < base \/ (x >= base + 4 * N /\ x < sp)
            <4>1. x \in Nat
                BY AddressesAreNumbers
            <4>2. x \notin a .. a + 3 /\ x < top
                BY <1>1, <1>2, <3>3, <4>1
            <4>3. x \notin a .. a + Len(w) - 1
                BY <1>1, <1>4, <4>2
            <4>4. x \notin top .. top + Len(z) - 1
                <5>1. Len(z) \in Nat
                    BY <1>4
                <5> HIDE DEF top, z
                <5> QED BY <1>2, <4>1, <4>2, <5>1
            <4>5. ByteAt(v.mem, x) = ByteAt(p.t.mem, x)
                BY <1>3, <2>1, <4>3 DEF Stored
            <4>6. ByteAt(q.t.mem, x) = ByteAt(v.mem, x)
                BY <1>3, <1>7, <4>4 DEF Stored
            <4> QED BY <3>1, <4>5, <4>6
        <3> QED BY <2>6, <3>2, <3>3
    <2>7. \A i \in 1 .. n + 1 : i \in 1 .. n \/ i = n + 1
        OBVIOUS
    <2> QED BY <2>2, <2>4, <2>5, <2>6, <2>7
<1> HIDE DEF s, a, w, top, z
<1> QED BY <1>3, <1>5, <1>6, <1>7 DEF Vector

\* A string stays pointed to, if a store is above or below it and its pointer.
LEMMA PointedKept ==
    ASSUME NEW t, NEW u, NEW b \in Int, NEW w, Len(w) \in Nat, Stored(t, u, b, w), ~u.fatal,
           NEW a \in Int, NEW s \in Seq(ByteValues), NEW sp \in Int, NEW end \in Int,
           Pointed(t.mem, a, s, sp, end),
           a + 4 <= b \/ b + Len(w) <= a, b + Len(w) <= sp \/ end <= b
    PROVE  Pointed(u.mem, a, s, sp, end)
<1> DEFINE m == t.mem
           n == u.mem
<1>1. PICK p \in Nat : /\ p >= sp /\ p + Len(s) + 1 <= end
                       /\ Holds(m, a, WordOf(p)) /\ Holds(m, p, Terminated(s))
    BY DEF Pointed
<1> DEFINE y == WordOf(p)
           z == Terminated(s)
           l == Len(s)
<1>2. Len(y) = 4 /\ Len(z) = l + 1 /\ l \in Nat
    BY WordIsTyped, TerminatedIs
<1>3. p >= sp /\ p + l + 1 <= end /\ Holds(m, a, y) /\ Holds(m, p, z)
    BY <1>1
<1> HIDE DEF y, z, l
<1>4. Holds(n, a, y)
    <2>1. Len(y) \in Nat /\ (a + Len(y) <= b \/ b + Len(w) <= a)
        BY <1>2
    <2>2. Holds(t.mem, a, y)
        BY <1>3
    <2>3. Holds(u.mem, a, y)
        BY <2>1, <2>2, StoredKeeps
    <2> QED BY <2>3
<1>5. Holds(n, p, z)
    <2>1. Len(z) \in Nat /\ p \in Int /\ (p + Len(z) <= b \/ b + Len(w) <= p)
        BY <1>2, <1>3
    <2>2. Holds(t.mem, p, z)
        BY <1>3
    <2>3. Holds(u.mem, p, z)
        BY <2>1, <2>2, StoredKeeps
    <2> QED BY <2>3
<1> QED BY <1>1, <1>4, <1>5 DEF Pointed, y, z

\* After the last string the NULL.
VectorDone(u, r, base, strings, sp) ==
    /\ r.t \in Segmented /\ r.sp \in Nat /\ r.sp >= sp
    /\ Kept(u, r.t)
    /\ ~r.t.fatal =>
          /\ ~u.fatal
          /\ \A i \in 1 .. Len(strings) : Pointed(r.t.mem, base + 4 * (i - 1), strings[i], sp, r.sp)
          /\ Holds(r.t.mem, base + 4 * Len(strings), WordOf(0))
          /\ \A x \in MemAddrs :
                x < DATA_BASE \/ x < base \/ (x >= base + 4 * Len(strings) + 4 /\ x < sp)
                    => ByteAt(r.t.mem, x) = ByteAt(u.mem, x)

\* The null pointer that ends the vector disturbs none of the strings.
LEMMA VectorEnds ==
    ASSUME NEW u \in Segmented, NEW base \in Nat, NEW strings, Arguments(strings), NEW sp \in Nat,
           base + 4 * Len(strings) + 4 <= sp,
           NEW p, Vector(u, p, base, strings, Len(strings), sp),
           NEW r, r = [t |-> Write(p.t, base + 4 * Len(strings), WordOf(0)), sp |-> p.sp]
    PROVE  VectorDone(u, r, base, strings, sp)
<1> DEFINE N == Len(strings)
           e == base + 4 * N
           w == WordOf(0)
           t == p.t
           v == r.t
<1>1. N \in Nat /\ e \in Nat
    <2>1. N \in Nat
        BY ArgumentsAre
    <2> HIDE DEF N
    <2> QED BY <2>1
<1>2. w \in Seq(ByteValues) /\ Len(w) = 4
    BY WordIsTyped
<1>3. t \in Segmented /\ p.sp \in Nat /\ p.sp >= sp
    BY DEF Vector, Placing
<1>4. v = Write(t, e, w) /\ r.sp = p.sp
    OBVIOUS
<1>5. e + 4 <= sp
    OBVIOUS
<1>6. Kept(u, t)
    BY DEF Vector, Kept
<1>7. ~t.fatal =>
          /\ ~u.fatal
          /\ \A i \in 1 .. N : Pointed(t.mem, base + 4 * (i - 1), strings[i], sp, p.sp)
          /\ \A x \in MemAddrs :
                x < DATA_BASE \/ x < base \/ (x >= e /\ x < sp) => ByteAt(t.mem, x) = ByteAt(u.mem, x)
    BY DEF Vector
<1> HIDE DEF w, t, v
<1>8. Stored(t, v, e, w)
    <2> HIDE DEF e
    <2> QED BY <1>1, <1>2, <1>3, <1>4, StoreIs
<1>9. v \in Segmented /\ Kept(t, v)
    BY <1>8 DEF Stored, Kept
<1>10. Kept(u, v)
    <2>1. u \in Threads
        BY DEF Segmented
    <2> QED BY <1>6, <1>9, <2>1, KeptTwice
<1>11. ASSUME ~v.fatal
       PROVE  /\ ~u.fatal
              /\ \A i \in 1 .. N : Pointed(v.mem, base + 4 * (i - 1), strings[i], sp, r.sp)
              /\ Holds(v.mem, e, w)
              /\ \A x \in MemAddrs : x < DATA_BASE \/ x < base \/ (x >= e + 4 /\ x < sp)
                                         => ByteAt(v.mem, x) = ByteAt(u.mem, x)
    <2>1. /\ ~t.fatal /\ Holds(v.mem, e, w)
          /\ \A x \in MemAddrs : x \notin e .. e + Len(w) - 1 => ByteAt(v.mem, x) = ByteAt(t.mem, x)
          /\ \A x \in MemAddrs : x < DATA_BASE => ByteAt(v.mem, x) = ByteAt(t.mem, x)
        BY <1>8, <1>11 DEF Stored
    <2>2. ASSUME NEW i \in 1 .. N
          PROVE  Pointed(v.mem, base + 4 * (i - 1), strings[i], sp, r.sp)
        <3> DEFINE a == base + 4 * (i - 1)
                   s == strings[i]
                   end == p.sp
        <3>1. a \in Int /\ a + 4 <= e
            BY <1>1
        <3>2. s \in Seq(ByteValues)
            BY <1>1, ArgumentsAre
        <3>3. Pointed(t.mem, a, s, sp, end)
            BY <1>7, <2>1
        <3>4. e + Len(w) <= sp /\ Len(w) \in Nat /\ e \in Int /\ end \in Int
            BY <1>1, <1>2, <1>3, <1>5
        <3> HIDE DEF a, s, end, e
        <3>5. Pointed(v.mem, a, s, sp, end)
            BY <1>8, <1>11, <3>1, <3>2, <3>3, <3>4, PointedKept
        <3> QED BY <1>4, <3>5 DEF a, s, end
    <2>3. ASSUME NEW x \in MemAddrs, x < DATA_BASE \/ x < base \/ (x >= e + 4 /\ x < sp)
          PROVE  ByteAt(v.mem, x) = ByteAt(u.mem, x)
        <3>1. x \in Nat
            BY AddressesAreNumbers
        <3>2. ByteAt(t.mem, x) = ByteAt(u.mem, x)
            BY <1>1, <1>7, <2>1, <2>3, <3>1
        <3>3. x < DATA_BASE \/ x \notin e .. e + Len(w) - 1
            BY <1>1, <1>2, <2>3, <3>1
        <3> QED BY <2>1, <3>2, <3>3
    <2> QED BY <1>7, <2>1, <2>2, <2>3
<1>12. r.sp \in Nat /\ r.sp >= sp
    BY <1>3, <1>4
<1>13. e + 4 = base + 4 * Len(strings) + 4
    OBVIOUS
<1> QED BY <1>9, <1>10, <1>11, <1>12, <1>13 DEF VectorDone, v, w

\* The loop over the strings places them all, upwards from sp.
LEMMA WriteVectorIs ==
    ASSUME NEW u \in Segmented, NEW base \in Nat, NEW strings, Arguments(strings), NEW sp \in Nat,
           base + 4 * Len(strings) + 4 <= sp,
           NEW r, r = WriteVector(u, base, strings, sp)
    PROVE  VectorDone(u, r, base, strings, sp)
<1> DEFINE N == Len(strings)
           q0 == [t |-> u, sp |-> sp]
           G == [p \in (1 .. N) \X Placing |-> Place(base, strings, p[2], p[1])]
           states(f) == f = [n \in 0 .. N |-> IF n = 0 THEN q0 ELSE Place(base, strings, f[n - 1], n)]
<1>1. N \in Nat
    BY ArgumentsAre
<1>2. q0 \in Placing
    BY DEF Placing
<1>3. G \in [(1 .. N) \X Placing -> Placing]
    <2>1. ASSUME NEW n \in 1 .. N, NEW p \in Placing, NEW q, q = Place(base, strings, p, n)
          PROVE  q \in Placing
        BY <2>1, PlaceIs
    <2> HIDE DEF N
    <2> QED BY <2>1
<1> HIDE DEF N, q0
<1>4. PICK f : IsLoop(f, N, Placing, q0, G)
    <2> HIDE DEF G
    <2> QED BY <1>1, <1>2, <1>3, TypedLoop
<1>5. states(f)
    <2>1. ASSUME NEW n \in 0 .. N
          PROVE  f[n] = IF n = 0 THEN q0 ELSE Place(base, strings, f[n - 1], n)
        <3>1. CASE n = 0
            BY <1>4, <3>1 DEF IsLoop
        <3>2. CASE n # 0
            <4>1. n \in 1 .. N /\ n - 1 \in 0 .. N
                BY <1>1, <3>2
            <4>2. f[n - 1] \in Placing /\ f[n] = G[<<n, f[n - 1]>>]
                BY <1>4, <4>1 DEF IsLoop
            <4> QED BY <3>2, <4>1, <4>2
        <3> QED BY <3>1, <3>2
    <2>2. f = [n \in 0 .. N |-> f[n]]
        BY <1>4 DEF IsLoop
    <2> QED BY <2>1, <2>2
<1> DEFINE g == CHOOSE c : states(c)
<1>6. states(g)
    <2> HIDE DEF states
    <2> QED BY <1>5
<1>7. WriteVector(u, base, strings, sp)
          = [t |-> Write(g[N].t, base + 4 * Len(strings), WordOf(0)), sp |-> g[N].sp]
    BY DEF WriteVector, Place, N, q0
<1> HIDE DEF g
<1>8. g[0] = q0 /\ \A n \in 1 .. N : g[n] = Place(base, strings, g[n - 1], n)
    BY <1>1, <1>6
<1> HIDE DEF states
<1> DEFINE Done == {n \in 0 .. N : Vector(u, g[n], base, strings, n, sp)}
<1>9. \A n \in 0 .. N : n \in Done
    <2>1. 0 \in Done
        <3>1. ASSUME NEW q, q = q0 PROVE Vector(u, q, base, strings, 0, sp)
            BY <3>1, VectorStarts DEF q0
        <3> QED BY <1>1, <1>8, <3>1
    <2>2. ASSUME NEW n \in 0 .. N - 1, n \in Done
          PROVE  n + 1 \in Done
        <3>1. n + 1 \in 1 .. N /\ n + 1 \in 0 .. N /\ (n + 1) - 1 = n /\ n \in 0 .. Len(strings) - 1
            BY <1>1 DEF N
        <3>2. g[n + 1] = Place(base, strings, g[n], n + 1)
            BY <1>8, <3>1
        <3>3. ASSUME NEW p, p = g[n], NEW q, q = g[n + 1] PROVE Vector(u, q, base, strings, n + 1, sp)
            <4>1. Vector(u, p, base, strings, n, sp) /\ q = Place(base, strings, p, n + 1)
                BY <2>2, <3>2, <3>3
            <4> QED BY <3>1, <4>1, VectorGrows
        <3> QED BY <3>1, <3>3
    <2> HIDE DEF Done
    <2> QED BY <1>1, <2>1, <2>2, Rounds
<1>10. ASSUME NEW p, p = g[N] PROVE VectorDone(u, r, base, strings, sp)
    <2>1. Vector(u, p, base, strings, Len(strings), sp)
        BY <1>1, <1>9, <1>10 DEF N
    <2>2. r = [t |-> Write(p.t, base + 4 * Len(strings), WordOf(0)), sp |-> p.sp]
        BY <1>7, <1>10
    <2> QED BY <2>1, <2>2, VectorEnds
<1> QED BY <1>10

\* The count, the pointers and strings of the arguments, and two NULLs.
InPlace(m, args) ==
    /\ Holds(m, ArgcAddr, WordOf(Len(args)))
    /\ \A i \in 1 .. Len(args) :
          \E p \in Nat : /\ Holds(m, ArgcAddr + 4 * i, WordOf(p))
                         /\ Holds(m, p, Terminated(args[i]))
    /\ Holds(m, ArgcAddr + 4 * (Len(args) + 1), WordOf(0))
    /\ Holds(m, ArgcAddr + 4 * (Len(args) + 2), WordOf(0))

\* The stack pointer and every slot above it are word aligned.
LEMMA ArgcAddrIs == ArgcAddr \in Nat /\ ArgcAddr % 4 = 0 /\ \A k \in Nat : (ArgcAddr + 4 * k) % 4 = 0
<1> DEFINE q == (STACK_BASE - MAX_ENVIRON) \div 8
<1>1. q \in Nat
    BY Segments
<1>2. ArgcAddr = q * 8
    BY DEF ArgcAddr
<1> HIDE DEF q
<1> QED BY <1>1, <1>2

Argued(t, u, args) ==
    /\ u \in Segmented
    /\ u = [t EXCEPT !.mem = u.mem, !.fatal = u.fatal, !.ld_environ_base = ArgcAddr]
    /\ ~u.fatal => /\ ~t.fatal
                   /\ \A x \in MemAddrs : x < DATA_BASE => ByteAt(u.mem, x) = ByteAt(t.mem, x)
                   /\ InPlace(u.mem, args)

\* argc, argv and envp are written, and none overwrites another.
LEMMA WriteArgumentsIs ==
    ASSUME NEW t \in Segmented, NEW args, Arguments(args), NEW u, u = WriteArguments(t, args)
    PROVE  Argued(t, u, args)
<1> DEFINE N == Len(args)
           w == WordOf(N)
           A == ArgcAddr
           E == A + 4 + 4 * (N + 1)
           c == Write(t, A, w)
           ar == WriteVector(c, A + 4, args, E + 4)
           en == WriteVector(ar.t, E, <<>>, ar.sp)
<1>1. N \in Nat /\ A \in Nat
    BY ArgumentsAre, ArgcAddrIs
<1>2. w \in Seq(ByteValues) /\ Len(w) = 4
    BY <1>1, WordIsTyped
<1>3. u = [en.t EXCEPT !.ld_environ_base = A, !.fatal = @ \/ en.sp > STACK_BASE]
    BY DEF WriteArguments, ArgvAddr, EnvpAddr
<1> HIDE DEF N, A, w, E, c, ar, en
<1>4. E \in Nat /\ E = A + 8 + 4 * N
    BY <1>1 DEF E
<1>5. Stored(t, c, A, w)
    BY <1>1, <1>2, StoreIs DEF c
<1>6. c \in Segmented
    BY <1>5 DEF Stored
<1>7. VectorDone(c, ar, A + 4, args, E + 4)
    <2>1. A + 4 \in Nat /\ E + 4 \in Nat /\ (A + 4) + 4 * Len(args) + 4 <= E + 4
        BY <1>1, <1>4 DEF N
    <2> QED BY <1>6, <2>1, WriteVectorIs DEF ar
<1>8. ar.t \in Segmented /\ ar.sp \in Nat /\ ar.sp >= E + 4
    BY <1>7 DEF VectorDone
<1>9. VectorDone(ar.t, en, E, <<>>, ar.sp)
    <2>1. Arguments(<<>>)
        BY DEF Arguments
    <2>2. E + 4 * Len(<<>>) + 4 <= ar.sp
        BY <1>4, <1>8
    <2>3. ASSUME NEW v \in Segmented, v = ar.t, NEW sp \in Nat, sp = ar.sp
          PROVE  VectorDone(v, en, E, <<>>, sp)
        <3>1. en = WriteVector(v, E, <<>>, sp) /\ E + 4 * Len(<<>>) + 4 <= sp
            BY <2>2, <2>3 DEF en
        <3> QED BY <1>4, <2>1, <3>1, WriteVectorIs
    <2> QED BY <1>8, <2>3
<1>10. en.t \in Segmented /\ Kept(t, c) /\ Kept(c, ar.t) /\ Kept(ar.t, en.t)
    BY <1>5, <1>7, <1>9 DEF VectorDone, Stored, Kept
<1>11. Kept(t, en.t)
    <2> DEFINE a == ar.t
               e == en.t
    <2>1. t \in Threads /\ Kept(t, c) /\ Kept(c, a) /\ Kept(a, e)
        BY <1>10 DEF Segmented
    <2> HIDE DEF a, e
    <2>2. Kept(t, a)
        BY <2>1, KeptTwice
    <2>3. Kept(t, e)
        BY <2>1, <2>2, KeptTwice
    <2> QED BY <2>3 DEF e
<1>12. /\ u \in Segmented /\ u.mem = en.t.mem
       /\ u = [t EXCEPT !.mem = u.mem, !.fatal = u.fatal, !.ld_environ_base = A]
    <2> DEFINE e == en.t
               f == e.fatal \/ en.sp > STACK_BASE
    <2>1. e \in Threads /\ e.ld_data_base = DATA_BASE /\ t \in Threads
        BY <1>10 DEF Segmented
    <2>2. u = [e EXCEPT !.ld_environ_base = A, !.fatal = f]
        BY <1>3, <2>1 DEF Threads
    <2>3. e = [t EXCEPT !.mem = e.mem, !.fatal = e.fatal]
        BY <1>11 DEF Kept
    <2>4. f \in BOOLEAN
        BY <2>1 DEF Threads
    <2> HIDE DEF e, f
    <2>5. u \in Threads /\ u.ld_data_base = DATA_BASE /\ u.mem = e.mem
        BY <1>1, <2>1, <2>2, <2>4 DEF Threads
    <2>6. u = [t EXCEPT !.mem = u.mem, !.fatal = u.fatal, !.ld_environ_base = A]
        BY <2>1, <2>2, <2>3, <2>5 DEF Threads
    <2> QED BY <2>5, <2>6 DEF Segmented, e
<1>13. ~u.fatal => ~en.t.fatal
    <2>1. en.t \in Threads
        BY <1>10 DEF Segmented
    <2> QED BY <1>3, <2>1 DEF Threads
<1>14. ASSUME ~u.fatal
       PROVE  /\ ~t.fatal
              /\ \A x \in MemAddrs : x < DATA_BASE => ByteAt(u.mem, x) = ByteAt(t.mem, x)
              /\ InPlace(u.mem, args)
    <2>1. /\ ~ar.t.fatal
          /\ Holds(en.t.mem, E + 4 * Len(<<>>), WordOf(0))
          /\ \A x \in MemAddrs : x < DATA_BASE \/ x < E \/ (x >= E + 4 * Len(<<>>) + 4 /\ x < ar.sp)
                                     => ByteAt(en.t.mem, x) = ByteAt(ar.t.mem, x)
        BY <1>9, <1>13, <1>14 DEF VectorDone
    <2>2. /\ Holds(u.mem, E, WordOf(0))
          /\ \A x \in MemAddrs : x < DATA_BASE \/ x < E \/ (x >= E + 4 /\ x < ar.sp)
                                     => ByteAt(u.mem, x) = ByteAt(ar.t.mem, x)
        <3>1. E + 4 * Len(<<>>) = E
            BY <1>4
        <3> QED BY <1>12, <2>1, <3>1
    <2>3. /\ ~c.fatal
          /\ \A i \in 1 .. N : Pointed(ar.t.mem, (A + 4) + 4 * (i - 1), args[i], E + 4, ar.sp)
          /\ Holds(ar.t.mem, (A + 4) + 4 * N, WordOf(0))
          /\ \A x \in MemAddrs :
                x < DATA_BASE \/ x < A + 4 \/ (x >= (A + 4) + 4 * N + 4 /\ x < E + 4)
                    => ByteAt(ar.t.mem, x) = ByteAt(c.mem, x)
        BY <1>7, <2>1 DEF VectorDone, N
    <2>4. /\ ~t.fatal /\ Holds(c.mem, A, w)
          /\ \A x \in MemAddrs : x < DATA_BASE => ByteAt(c.mem, x) = ByteAt(t.mem, x)
        BY <1>5, <2>3 DEF Stored
    <2> DEFINE m == ar.t.mem
               n == u.mem
    <2>5. ASSUME NEW a \in Int, NEW y, Len(y) \in Nat, Holds(m, a, y),
                 a + Len(y) <= E \/ (a >= E + 4 /\ a + Len(y) <= ar.sp)
          PROVE  Holds(n, a, y)
        <3>1. \A x \in MemAddrs : x \in a .. a + Len(y) - 1 => ByteAt(n, x) = ByteAt(m, x)
            <4>1. \A x \in MemAddrs : x < E \/ (x >= E + 4 /\ x < ar.sp) => ByteAt(n, x) = ByteAt(m, x)
                BY <2>2
            <4> DEFINE l == Len(y)
                       end == ar.sp
            <4>2. l \in Nat /\ end \in Nat /\ (a + l <= E \/ (a >= E + 4 /\ a + l <= end))
                BY <1>8, <2>5
            <4>3. \A x \in Nat : x \in a .. a + l - 1 => x < E \/ (x >= E + 4 /\ x < end)
                <5> HIDE DEF l, end
                <5> QED BY <1>4, <4>2
            <4> HIDE DEF m, n
            <4> QED BY <4>1, <4>3, AddressesAreNumbers
        <3> HIDE DEF m, n
        <3> QED BY <2>5, <3>1, HoldsKept
    <2>6. Holds(n, A, w)
        <3>1. Holds(m, A, w)
            <4> DEFINE k == c.mem
            <4>1. \A x \in MemAddrs : x < A + 4 => ByteAt(m, x) = ByteAt(k, x)
                BY <2>3
            <4>2. \A x \in MemAddrs : x \in A .. A + Len(w) - 1 => ByteAt(m, x) = ByteAt(k, x)
                <5> HIDE DEF m, k
                <5> QED BY <1>1, <1>2, <4>1, AddressesAreNumbers
            <4>3. Holds(k, A, w) /\ A \in Int /\ Len(w) \in Nat
                BY <1>1, <1>2, <2>4
            <4> HIDE DEF m, k
            <4> QED BY <4>2, <4>3, HoldsKept
        <3>2. A + Len(w) <= E /\ A \in Int /\ Len(w) \in Nat
            BY <1>1, <1>2, <1>4
        <3> HIDE DEF m, n
        <3> QED BY <2>5, <3>1, <3>2
    <2>7. ASSUME NEW i \in 1 .. N
          PROVE  \E p \in Nat : Holds(n, A + 4 * i, WordOf(p)) /\ Holds(n, p, Terminated(args[i]))
        <3> DEFINE l == Len(args[i])
                   z == Terminated(args[i])
                   a == A + 4 * i
        <3>1. (A + 4) + 4 * (i - 1) = a /\ a \in Int /\ a + 4 <= E
            BY <1>1, <1>4
        <3>2. Len(z) = l + 1 /\ l \in Nat
            <4>1. args[i] \in Seq(ByteValues)
                BY ArgumentsAre DEF N
            <4> QED BY <4>1, TerminatedIs
        <3>3. Pointed(m, a, args[i], E + 4, ar.sp)
            <4>1. Pointed(m, (A + 4) + 4 * (i - 1), args[i], E + 4, ar.sp)
                BY <2>3
            <4> HIDE DEF m, a
            <4> QED BY <3>1, <4>1
        <3>4. PICK p \in Nat : /\ p >= E + 4 /\ p + l + 1 <= ar.sp
                               /\ Holds(m, a, WordOf(p)) /\ Holds(m, p, z)
            BY <3>3 DEF Pointed
        <3> DEFINE y == WordOf(p)
        <3>5. Len(y) = 4
            BY WordIsTyped
        <3> HIDE DEF l, z, a, y, m, n
        <3>6. Holds(n, a, y)
            <4>1. Len(y) \in Nat /\ a + Len(y) <= E
                BY <3>1, <3>5
            <4>2. Holds(m, a, y)
                BY <3>4 DEF y
            <4> QED BY <2>5, <3>1, <4>1, <4>2
        <3>7. Holds(n, p, z)
            <4>1. Len(z) \in Nat /\ p \in Int /\ p + Len(z) <= ar.sp
                BY <1>8, <3>2, <3>4
            <4> QED BY <2>5, <3>4, <4>1
        <3> QED BY <3>6, <3>7 DEF y, a, z
    <2>8. Holds(n, A + 4 * (N + 1), WordOf(0))
        <3> DEFINE y == WordOf(0)
                   a == A + 4 * (N + 1)
        <3>1. Len(y) = 4 /\ a \in Int /\ a + 4 <= E /\ a = (A + 4) + 4 * N
            BY <1>1, <1>4, WordIsTyped
        <3>2. Holds(m, a, y)
            <4>1. Holds(m, (A + 4) + 4 * N, y)
                BY <2>3
            <4> HIDE DEF m, y, a
            <4> QED BY <3>1, <4>1
        <3> HIDE DEF m, n, y, a
        <3>3. Len(y) \in Nat /\ a + Len(y) <= E
            BY <3>1
        <3>4. Holds(n, a, y)
            BY <2>5, <3>1, <3>2, <3>3
        <3> QED BY <3>4 DEF a, y
    <2>9. Holds(n, A + 4 * (N + 2), WordOf(0))
        <3>1. A + 4 * (N + 2) = E
            BY <1>1, <1>4
        <3> HIDE DEF n
        <3> QED BY <2>2, <3>1 DEF n
    <2>10. InPlace(n, args)
        <3> HIDE DEF n
        <3> QED BY <2>6, <2>7, <2>8, <2>9 DEF InPlace, A, N, w
    <2>11. \A x \in MemAddrs : x < DATA_BASE => ByteAt(u.mem, x) = ByteAt(t.mem, x)
        <3>1. \A x \in MemAddrs : x < DATA_BASE =>
                  /\ ByteAt(u.mem, x) = ByteAt(ar.t.mem, x)
                  /\ ByteAt(ar.t.mem, x) = ByteAt(c.mem, x)
                  /\ ByteAt(c.mem, x) = ByteAt(t.mem, x)
            BY <2>2, <2>3, <2>4
        <3> QED BY <3>1
    <2> QED BY <2>4, <2>10, <2>11
<1> QED BY <1>12, <1>14 DEF Argued, A

-----------------------------------------------------------------------------
(* A new thread, and its text decoded                                      *)

\* A thread that runs: its pc is that of an instruction, its pointer is not into
\* the text.
Pointers == {0} \cup DATA_BASE .. STACK_BASE - 1
Running == {t \in Segmented : t.regs_PC % INST_SIZE = 0 /\ t.regs[4] \in Pointers}

IsThreadOf(t, image) ==
    /\ t.ld_text_base = TEXT_BASE /\ t.ld_text_size = TextSize(image)
    /\ t.ld_prog_entry = image.entry

\* The text ends before the data segment.
LEMMA TextSizeIs ==
    ASSUME NEW image, WellFormed(image)
    PROVE  TextSize(image) \in Int /\ TextSize(image) + TEXT_BASE <= DATA_BASE
<1>1. ASSUME NEW t, t = LoadSections(NewState, image)
      PROVE  t.ld_text_size \in Int /\ t.ld_text_size + TEXT_BASE <= DATA_BASE
    <2>1. ImageLoaded(t, image)
        BY <1>1, SectionsAreImage
    <2> QED BY <2>1 DEF ImageLoaded, Loading, Threads
<1> QED BY <1>1 DEF TextSize

\* A program starts at an instruction boundary.
LEMMA EntryOf ==
    ASSUME NEW image, WellFormed(image)
    PROVE  /\ image.entry \in Nat /\ image.entry % INST_SIZE = 0
           /\ image.dsize + image.bsize \in Nat
<1>1. /\ image.entry \in MemAddrs /\ image.entry % INST_SIZE = 0
      /\ image.dsize \in Nat /\ image.bsize \in Nat
    BY Zenon DEF WellFormed
<1> DEFINE d == image.dsize
           b == image.bsize
<1>2. image.entry \in Nat
    BY <1>1, AddressesAreNumbers
<1>3. d + b \in Nat
    <2>1. d \in Nat /\ b \in Nat
        BY <1>1
    <2> HIDE DEF d, b
    <2> QED BY <2>1
<1> QED BY <1>1, <1>2, <1>3

Computed(t, u, image) ==
    /\ u \in Segmented /\ IsThreadOf(u, image)
    /\ u.mem = t.mem
    /\ ~u.fatal => ~t.fatal
    /\ u.num_insn = 0 /\ u.blocked = FALSE /\ u.fp = "none"

\* The segments computed from the sections are those of the image.
LEMMA ComputeSegmentsIs ==
    ASSUME NEW image, WellFormed(image), NEW t, t = LoadSections(NewState, image),
           NEW u, u = ComputeSegments(t, image)
    PROVE  Computed(t, u, image)
<1>1. /\ t \in Threads
      /\ t = [NewState EXCEPT !.mem = t.mem, !.fatal = t.fatal, !.ld_text_size = TextSize(image)]
    <2>1. ImageLoaded(t, image)
        BY SectionsAreImage
    <2> QED BY <2>1 DEF ImageLoaded, Loading
<1>2. NewState \in Threads
    BY NewStateIsTyped
<1>3. TextSize(image) \in Int
    BY TextSizeIs
<1>4. t.num_insn = 0 /\ t.blocked = FALSE /\ t.fp = "none" /\ t.ld_text_size = TextSize(image)
    BY <1>1, <1>2, <1>3 DEF NewState
<1>5. image.entry \in Nat /\ image.dsize + image.bsize \in Nat
    BY EntryOf
<1> DEFINE v == [t EXCEPT !.ld_text_base = TEXT_BASE, !.ld_data_base = DATA_BASE,
                          !.ld_prog_entry = image.entry,
                          !.ld_data_size = image.dsize + image.bsize]
<1>6. /\ v \in Threads /\ v.ld_data_base = DATA_BASE /\ v.ld_text_base = TEXT_BASE
      /\ v.ld_text_size = TextSize(image) /\ v.ld_prog_entry = image.entry
      /\ v.mem = t.mem /\ v.fatal = t.fatal
      /\ v.num_insn = 0 /\ v.blocked = FALSE /\ v.fp = "none"
    BY <1>1, <1>4, <1>5, Segments DEF Threads
<1>7. u = v \/ u = [v EXCEPT !.fatal = TRUE]
    BY DEF ComputeSegments
<1> HIDE DEF v
<1>8. CASE u = v
    BY <1>6, <1>8 DEF Segmented, IsThreadOf, Computed
<1>9. CASE u = [v EXCEPT !.fatal = TRUE]
    <2>1. u \in Threads /\ u.fatal = TRUE
        BY <1>6, <1>9 DEF Threads
    <2>2. /\ u.ld_data_base = v.ld_data_base /\ u.ld_text_base = v.ld_text_base
          /\ u.ld_text_size = v.ld_text_size /\ u.ld_prog_entry = v.ld_prog_entry
          /\ u.mem = v.mem /\ u.num_insn = v.num_insn /\ u.fp = v.fp
        BY <1>6, <1>9 DEF Threads
    <2>3. u.blocked = v.blocked
        BY <1>6, <1>9 DEF Threads
    <2> QED BY <1>6, <2>1, <2>2, <2>3 DEF Segmented, IsThreadOf, Computed
<1> QED BY <1>7, <1>8, <1>9

Fresh(t, image, args) ==
    /\ t \in Running /\ IsThreadOf(t, image)
    /\ t.regs[29] = ArgcAddr
    /\ t.num_insn = 0 /\ t.blocked = FALSE /\ t.fp = "none"
    /\ ~t.fatal => /\ \A x \in MemAddrs : x < DATA_BASE => ByteAt(t.mem, x) = ImageByte(image, x)
                   /\ InPlace(t.mem, args)

\* A thread that was not refused holds its program and its arguments.
LEMMA NewThreadIsFresh ==
    ASSUME NEW image, WellFormed(image), NEW args, Arguments(args), NEW t, t = NewThread(image, args)
    PROVE  Fresh(t, image, args)
<1> DEFINE s == LoadSections(NewState, image)
           c == ComputeSegments(s, image)
           a == WriteArguments(c, args)
           r == regs_init(a)
<1>1. /\ c \in Segmented /\ IsThreadOf(c, image)
      /\ c.mem = s.mem
      /\ ~c.fatal => ~s.fatal
      /\ c.num_insn = 0 /\ c.blocked = FALSE /\ c.fp = "none"
    <2> HIDE DEF s
    <2>1. s = LoadSections(NewState, image)
        BY DEF s
    <2> HIDE DEF c
    <2>2. c = ComputeSegments(s, image)
        BY DEF c
    <2>3. Computed(s, c, image)
        BY <2>1, <2>2, ComputeSegmentsIs
    <2> QED BY <2>3 DEF Computed
<1>2. ~s.fatal => \A x \in MemAddrs : ByteAt(s.mem, x) = ImageByte(image, x)
    <2> HIDE DEF s
    <2>1. s = LoadSections(NewState, image)
        BY DEF s
    <2>2. ImageLoaded(s, image)
        BY <2>1, SectionsAreImage
    <2> QED BY <2>2 DEF ImageLoaded
<1>3. t = mem_init(r)
    BY DEF NewThread, ld_load_prog
<1> HIDE DEF s, c
<1>4. Argued(c, a, args)
    <2> HIDE DEF a
    <2>1. a = WriteArguments(c, args)
        BY DEF a
    <2> QED BY <1>1, <2>1, WriteArgumentsIs
<1> HIDE DEF a
<1>5. /\ a \in Threads /\ a.ld_data_base = DATA_BASE /\ c \in Threads
      /\ a = [c EXCEPT !.mem = a.mem, !.fatal = a.fatal, !.ld_environ_base = ArgcAddr]
    BY <1>1, <1>4 DEF Argued, Segmented
<1>6. /\ a.ld_text_base = c.ld_text_base /\ a.ld_text_size = c.ld_text_size
      /\ a.ld_prog_entry = c.ld_prog_entry /\ a.num_insn = c.num_insn /\ a.fp = c.fp
      /\ a.ld_environ_base = ArgcAddr
    BY <1>5 DEF Threads
<1>7. a.blocked = c.blocked
    BY <1>5 DEF Threads
<1>8. r = [a EXCEPT !.regs = [x \in Regs |-> IF x = 29 THEN a.ld_environ_base ELSE 0],
                    !.regs_PC = a.ld_prog_entry]
    BY DEF regs_init
<1> HIDE DEF r
<1>9. image.entry \in Nat /\ image.entry % INST_SIZE = 0
    BY EntryOf
<1>10. /\ r \in Threads /\ r.regs[29] = ArgcAddr /\ r.regs[4] = 0
       /\ r.regs_PC = image.entry
       /\ r.ld_data_base = DATA_BASE /\ r.mem = a.mem /\ r.num_insn = 0 /\ r.fp = "none"
       /\ r.ld_text_base = a.ld_text_base /\ r.ld_text_size = a.ld_text_size
       /\ r.ld_prog_entry = a.ld_prog_entry
    <2> DEFINE regs == [x \in Regs |-> IF x = 29 THEN a.ld_environ_base ELSE 0]
    <2>1. regs \in [Regs -> Nat] /\ regs[29] = ArgcAddr /\ regs[4] = 0
        BY <1>6, ArgcAddrIs DEF Regs
    <2>2. a.ld_prog_entry = image.entry
        BY <1>1, <1>6 DEF IsThreadOf
    <2> HIDE DEF regs
    <2>3. r = [a EXCEPT !.regs = regs, !.regs_PC = image.entry]
        BY <1>8, <2>2 DEF regs
    <2>4. r \in Threads
        BY <1>5, <1>9, <2>1, <2>3 DEF Threads
    <2>5. /\ r.regs = regs /\ r.regs_PC = image.entry
          /\ r.ld_data_base = a.ld_data_base /\ r.mem = a.mem /\ r.num_insn = a.num_insn /\ r.fp = a.fp
          /\ r.ld_text_base = a.ld_text_base /\ r.ld_text_size = a.ld_text_size
          /\ r.ld_prog_entry = a.ld_prog_entry
        BY <1>5, <2>3 DEF Threads
    <2> QED BY <1>1, <1>5, <1>6, <2>1, <2>4, <2>5
<1>11. r.blocked = a.blocked
    BY <1>5, <1>8 DEF Threads
<1>12. r.fatal = a.fatal
    BY <1>5, <1>8 DEF Threads
<1> DEFINE b == RoundUp(r.ld_data_base + r.ld_data_size, PAGE_SIZE)
<1>13. b \in Int
    <2> DEFINE n == r.ld_data_base + r.ld_data_size + PAGE_SIZE - 1
    <2>1. n \in Int
        BY <1>10, Segments DEF Threads
    <2>2. b = (n \div PAGE_SIZE) * PAGE_SIZE
        BY DEF RoundUp
    <2> HIDE DEF n, b
    <2>3. n \div PAGE_SIZE \in Int
        BY <2>1, Segments, Division
    <2> QED BY <2>2, <2>3, Segments
<1>14. t = [r EXCEPT !.mem_brk_point = b]
    BY <1>3 DEF mem_init
<1> HIDE DEF b
<1>15. /\ t \in Threads /\ t.regs = r.regs /\ t.regs_PC = r.regs_PC
       /\ t.ld_data_base = r.ld_data_base /\ t.mem = r.mem /\ t.num_insn = r.num_insn /\ t.fp = r.fp
       /\ t.ld_text_base = r.ld_text_base /\ t.ld_text_size = r.ld_text_size
       /\ t.ld_prog_entry = r.ld_prog_entry
    BY <1>10, <1>13, <1>14 DEF Threads
<1>16. t.blocked = r.blocked
    BY <1>10, <1>14 DEF Threads
<1>17. t.fatal = r.fatal
    BY <1>10, <1>14 DEF Threads
<1>18. t \in Running /\ IsThreadOf(t, image)
    BY <1>1, <1>6, <1>9, <1>10, <1>15 DEF Running, Segmented, Pointers, IsThreadOf
<1>19. ASSUME ~t.fatal
       PROVE  /\ \A x \in MemAddrs : x < DATA_BASE => ByteAt(t.mem, x) = ImageByte(image, x)
              /\ InPlace(t.mem, args)
    <2>1. t.mem = a.mem /\ ~a.fatal
        BY <1>10, <1>12, <1>15, <1>17, <1>19
    <2>2. /\ ~c.fatal
          /\ \A x \in MemAddrs : x < DATA_BASE => ByteAt(a.mem, x) = ByteAt(c.mem, x)
          /\ InPlace(a.mem, args)
        BY <1>4, <2>1 DEF Argued
    <2>3. ASSUME NEW x \in MemAddrs, x < DATA_BASE
          PROVE  ByteAt(t.mem, x) = ImageByte(image, x)
        <3>1. ByteAt(t.mem, x) = ByteAt(a.mem, x) /\ ByteAt(c.mem, x) = ByteAt(s.mem, x)
            BY <1>1, <2>1
        <3>2. ByteAt(a.mem, x) = ByteAt(c.mem, x)
            BY <2>2, <2>3
        <3>3. ByteAt(s.mem, x) = ImageByte(image, x)
            BY <1>1, <1>2, <2>2
        <3> QED BY <3>1, <3>2, <3>3
    <2> QED BY <2>1, <2>2, <2>3
<1> QED BY <1>1, <1>7, <1>10, <1>11, <1>15, <1>16, <1>18, <1>19 DEF Fresh

\* The same of the thread a job names.
LEMMA NewThreadOfIsFresh ==
    ASSUME NEW args, Arguments(args), ProgramOf(args) \in DOMAIN Images,
           NEW t, t = NewThreadOf(args)
    PROVE  Fresh(t, Images[ProgramOf(args)], args)
<1> DEFINE image == Images[ProgramOf(args)]
<1>1. WellFormed(image)
    BY ImagesAssumption
<1>2. t = NewThread(image, args)
    BY DEF NewThreadOf
<1> HIDE DEF image
<1>3. Fresh(t, image, args)
    BY <1>1, <1>2, NewThreadIsFresh
<1> QED BY <1>3 DEF image

\* The instructions of the text, and the text decoded once.
PCsOf(image) == {a \in TEXT_BASE .. TEXT_BASE + TextSize(image) - 1 : (a - TEXT_BASE) % INST_SIZE = 0}
DecodedByte(image, x) == IF x \in PCsOf(image) THEN mask2op[ImageByte(image, x)] ELSE ImageByte(image, x)
Decoded(t, image) ==
    /\ IsThreadOf(t, image)
    /\ \A x \in MemAddrs : x >= TEXT_BASE /\ x < DATA_BASE
                               => ByteAt(t.mem, x) = DecodedByte(image, x)

\* The addresses decode visits are in the text segment.
LEMMA PCsAreInText ==
    ASSUME NEW image, WellFormed(image), NEW x \in PCsOf(image)
    PROVE  x \in Nat /\ x >= TEXT_BASE /\ x < DATA_BASE /\ x \in MemAddrs
<1>1. TextSize(image) \in Int /\ TextSize(image) + TEXT_BASE <= DATA_BASE
    BY TextSizeIs
<1> DEFINE n == TextSize(image)
<1>2. x \in TEXT_BASE .. TEXT_BASE + n - 1
    BY DEF PCsOf
<1> HIDE DEF n
<1>3. n \in Int /\ n + TEXT_BASE <= DATA_BASE
    BY <1>1 DEF n
<1>4. x \in Nat /\ x >= TEXT_BASE /\ x < DATA_BASE
    BY <1>2, <1>3, Segments
<1> QED BY <1>4, StackIsInTable, Segments

\* decode visits the addresses of the image's instructions.
LEMMA TextPCsAre ==
    ASSUME NEW t, NEW image, IsThreadOf(t, image)
    PROVE  TextPCs(t) = PCsOf(image)
BY DEF TextPCs, PCsOf, IsThreadOf

DecodedFrom(t, u, image) ==
    /\ u \in Segmented
    /\ u = [t EXCEPT !.mem = u.mem, !.num_insn = 0,
                     !.regs_PC = t.ld_prog_entry, !.arch_PC = t.ld_prog_entry]
    /\ \A x \in MemAddrs : ByteAt(u.mem, x) = IF x \in PCsOf(image) THEN mask2op[ByteAt(t.mem, x)]
                                                                   ELSE ByteAt(t.mem, x)

\* decode fills the table with the instructions of the image and changes nothing else.
LEMMA DecodeIs ==
    ASSUME NEW t \in Segmented, NEW image, WellFormed(image), IsThreadOf(t, image), CanDecode(t),
           NEW u, u = decode(t)
    PROVE  DecodedFrom(t, u, image)
<1> DEFINE m == t.mem
           pcs == TextPCs(t)
           op(b, o) == IF b * BLOCK_SIZE + o \in pcs THEN mask2op[m[b][o]] ELSE m[b][o]
           block(b) == [o \in 0 .. BLOCK_SIZE - 1 |-> op(b, o)]
           n == [b \in Blocks |-> IF m[b] = Absent THEN Absent ELSE block(b)]
<1>1. t \in Threads /\ m \in Tables /\ t.ld_data_base = DATA_BASE
    BY DEF Segmented, Threads
<1>2. u = [t EXCEPT !.mem = n, !.num_insn = 0,
                    !.regs_PC = t.ld_prog_entry, !.arch_PC = t.ld_prog_entry]
    BY DEF decode
<1>3. ASSUME NEW b \in Blocks, m[b] # Absent
      PROVE  block(b) \in BlockValues /\ block(b) # Absent
    <2>1. m[b] \in BlockValues
        BY <1>1, <1>3 DEF Tables, BlockValues
    <2>2. \A o \in 0 .. BLOCK_SIZE - 1 : op(b, o) \in ByteValues
        <3>1. \A o \in 0 .. BLOCK_SIZE - 1 : m[b][o] \in ByteValues
            BY <2>1 DEF BlockValues
        <3>2. \A v \in ByteValues : mask2op[v] \in ByteValues
            BY Segments
        <3> HIDE DEF m, pcs
        <3> QED BY <3>1, <3>2
    <2>3. block(b) \in BlockValues
        <3> HIDE DEF op
        <3> QED BY <2>2 DEF BlockValues
    <2> HIDE DEF block
    <2> QED BY <2>3, BlockIsThere
<1>4. n \in Tables
    <2>1. \A b \in Blocks : (IF m[b] = Absent THEN Absent ELSE block(b)) \in {Absent} \cup BlockValues
        <3> HIDE DEF block, m
        <3> QED BY <1>3
    <2> HIDE DEF block, m
    <2> QED BY <2>1 DEF Tables, BlockValues
<1> HIDE DEF m, pcs, n
<1>5. pcs = PCsOf(image)
    BY TextPCsAre DEF pcs
<1>6. ASSUME NEW x \in MemAddrs
      PROVE  ByteAt(n, x) = IF x \in PCsOf(image) THEN mask2op[ByteAt(m, x)] ELSE ByteAt(m, x)
    <2> DEFINE b == MEM_BLOCK(x)
               o == MEM_OFFSET(x)
    <2>1. b \in Blocks /\ o \in 0 .. BLOCK_SIZE - 1 /\ x = b * BLOCK_SIZE + o
        BY AddressSplit
    <2>2. CASE m[b] = Absent
        <3>1. n[b] = Absent
            BY <2>1, <2>2 DEF n
        <3>2. ByteAt(n, x) = ByteAt(m, x)
            BY <2>2, <3>1 DEF ByteAt, BlockOf, Present
        <3>3. x \notin pcs
            BY <2>2 DEF CanDecode, Present, pcs, m
        <3> QED BY <1>5, <3>2, <3>3
    <2>3. CASE m[b] # Absent
        <3>1. n[b] = block(b)
            BY <2>1, <2>3 DEF n
        <3>2. n[b] # Absent
            BY <1>3, <2>1, <2>3, <3>1
        <3>3. n[b][o] = op(b, o)
            BY <2>1, <3>1
        <3>4. ByteAt(n, x) = op(b, o) /\ ByteAt(m, x) = m[b][o]
            BY <2>3, <3>2, <3>3 DEF ByteAt, BlockOf, Present
        <3>5. op(b, o) = IF x \in pcs THEN mask2op[m[b][o]] ELSE m[b][o]
            BY <2>1
        <3> QED BY <1>5, <3>4, <3>5
    <2> QED BY <2>2, <2>3
<1>7. u.mem = n /\ u \in Threads /\ u.ld_data_base = DATA_BASE
    <2> DEFINE e == t.ld_prog_entry
    <2>1. e \in Nat /\ 0 \in Nat
        BY <1>1 DEF Threads
    <2>2. u = [t EXCEPT !.mem = n, !.num_insn = 0, !.regs_PC = e, !.arch_PC = e]
        BY <1>2
    <2> HIDE DEF e
    <2>3. u \in Threads
        BY <1>1, <1>4, <2>1, <2>2 DEF Threads
    <2>4. u.mem = n /\ u.ld_data_base = t.ld_data_base
        BY <1>1, <2>2 DEF Threads
    <2> QED BY <1>1, <2>3, <2>4
<1> QED BY <1>1, <1>2, <1>6, <1>7 DEF DecodedFrom, Segmented, m

-----------------------------------------------------------------------------
(* Execution                                                               *)

RegisterSets == {r \in [Regs -> Nat] : r[4] \in Pointers}

\* What an instruction leaves alone.
TextKept(m, n) ==
    \A x \in MemAddrs : x >= TEXT_BASE /\ x < DATA_BASE => ByteAt(n, x) = ByteAt(m, x)
Kin(t, u) ==
    /\ u.ld_text_base = t.ld_text_base /\ u.ld_text_size = t.ld_text_size
    /\ u.ld_prog_entry = t.ld_prog_entry /\ u.num_insn = t.num_insn /\ u.fp = t.fp
    /\ u.blocked = t.blocked
    /\ TextKept(t.mem, u.mem)

\* A step that leaves text and decoded table alone keeps them in agreement.
LEMMA KinKeepsText ==
    ASSUME NEW t, NEW u, Kin(t, u), NEW image, Decoded(t, image)
    PROVE  Decoded(u, image)
<1>1. IsThreadOf(u, image)
    BY DEF Kin, Decoded, IsThreadOf
<1>2. \A x \in MemAddrs : x >= TEXT_BASE /\ x < DATA_BASE => ByteAt(u.mem, x) = DecodedByte(image, x)
    BY DEF Kin, TextKept, Decoded
<1> QED BY <1>1, <1>2 DEF Decoded

\* What a running thread is, apart from its segments.
LEMMA RunningIs ==
    ASSUME NEW t
    PROVE  t \in Running <=>
              /\ t \in Threads /\ t.ld_data_base = DATA_BASE
              /\ t.regs_PC % INST_SIZE = 0 /\ t.regs[4] \in Pointers
BY DEF Running, Segmented

\* A pointer of a program is outside the text segment.
LEMMA PointersAreAddresses ==
    ASSUME NEW a \in Pointers
    PROVE  a \in Nat /\ a \in MemAddrs /\ (a < TEXT_BASE \/ a >= DATA_BASE)
<1>1. a \in Nat /\ a < STACK_BASE /\ (a < TEXT_BASE \/ a >= DATA_BASE)
    BY Segments, Sizes DEF Pointers
<1> QED BY <1>1, StackIsInTable

\* An instruction is fetched as a whole, or from nowhere.
LEMMA FetchIs ==
    ASSUME NEW m \in Tables, NEW a \in Nat, a % INST_SIZE = 0,
           NEW inst, inst = Unchecked(m, a)
    PROVE  /\ inst \in Seq(ByteValues)
           /\ inst # NullFetch => /\ Len(inst) = INST_SIZE /\ a \in MemAddrs
                                  /\ \A k \in 1 .. INST_SIZE : /\ a + k - 1 \in MemAddrs
                                                               /\ inst[k] = ByteAt(m, a + k - 1)
<1>1. CASE a \in MemAddrs /\ Present(m, a)
    <2>1. inst = ReadBytes(m, a, INST_SIZE)
        BY <1>1 DEF Unchecked
    <2>2. INST_SIZE \in Nat \ {0} /\ BLOCK_SIZE % INST_SIZE = 0
        BY Sizes
    <2> HIDE DEF ByteAt
    <2>3. /\ ReadBytes(m, a, INST_SIZE) \in Seq(ByteValues)
          /\ Len(ReadBytes(m, a, INST_SIZE)) = INST_SIZE
          /\ \A k \in 1 .. INST_SIZE : /\ a + k - 1 \in MemAddrs
                                       /\ ReadBytes(m, a, INST_SIZE)[k] = ByteAt(m, a + k - 1)
        BY <1>1, <2>2, ReadAligned
    <2> QED BY <1>1, <2>1, <2>3
<1>2. CASE ~ (a \in MemAddrs /\ Present(m, a))
    <2>1. inst = NullFetch
        BY <1>2 DEF Unchecked
    <2> QED BY <2>1 DEF NullFetch
<1> QED BY <1>1, <1>2

\* The instruction a running thread executes is a pair of bytes, or the one fetch makes up.
LEMMA InstIs ==
    ASSUME NEW t \in Running
    PROVE  /\ Inst(t) \in Seq(ByteValues)
           /\ Inst(t) # NullFetch => Inst(t)[1] \in ByteValues /\ Inst(t)[2] \in ByteValues
<1>1. t.mem \in Tables /\ t.regs_PC \in Nat /\ t.regs_PC % INST_SIZE = 0
    BY RunningIs DEF Threads
<1>2. ASSUME NEW m, m = t.mem, NEW a, a = t.regs_PC
      PROVE  /\ Unchecked(m, a) \in Seq(ByteValues)
             /\ Unchecked(m, a) # NullFetch => Len(Unchecked(m, a)) = INST_SIZE
    BY <1>1, <1>2, FetchIs
<1>3. /\ Inst(t) \in Seq(ByteValues)
      /\ Inst(t) # NullFetch => Len(Inst(t)) = INST_SIZE
    BY <1>2 DEF Inst
<1> QED BY <1>3, Sizes

\* The number four bytes stand for is not negative.
LEMMA NumIsNat ==
    ASSUME NEW w \in [1 .. 4 -> ByteValues]
    PROVE  NumOf(w) \in Nat
<1>1. w[1] \in Nat /\ w[2] \in Nat /\ w[3] \in Nat /\ w[4] \in Nat
    BY Sizes DEF ByteValues
<1>2. \A x \in Nat : Byte * x \in Nat
    BY Sizes
<1>3. w[3] + Byte * w[4] \in Nat
    BY <1>1, <1>2
<1>4. w[2] + Byte * (w[3] + Byte * w[4]) \in Nat
    BY <1>1, <1>2, <1>3
<1>5. w[1] + Byte * (w[2] + Byte * (w[3] + Byte * w[4])) \in Nat
    BY <1>1, <1>2, <1>4
<1> QED BY <1>5 DEF NumOf

\* Kin of a thread: its registers and memory are all that changes.
Changed(t, u, regs, m) ==
    /\ u \in Running /\ Kin(t, u) /\ u.regs_PC = t.regs_PC
    /\ u.regs = regs /\ u.mem = m /\ u.fatal = t.fatal

With(t, regs, m) == [t EXCEPT !.regs = regs, !.mem = m]

\* A thread with other registers and memory is a running thread if the text is kept.
LEMMA KinFrom ==
    ASSUME NEW t \in Running, NEW regs \in RegisterSets, NEW m \in Tables, TextKept(t.mem, m),
           NEW u, u = With(t, regs, m)
    PROVE  Changed(t, u, regs, m)
<1> USE DEF With
<1>1. t \in Threads /\ regs \in [Regs -> Nat] /\ regs[4] \in Pointers
    BY RunningIs DEF RegisterSets
<1>2. /\ u \in Threads /\ u.regs = regs /\ u.mem = m
      /\ u.regs_PC = t.regs_PC /\ u.ld_data_base = t.ld_data_base
      /\ u.ld_text_base = t.ld_text_base /\ u.ld_text_size = t.ld_text_size
      /\ u.ld_prog_entry = t.ld_prog_entry /\ u.num_insn = t.num_insn /\ u.fp = t.fp
    BY <1>1 DEF Threads
<1>3. u.blocked = t.blocked
    BY <1>1 DEF Threads
<1>4. u.fatal = t.fatal
    BY <1>1 DEF Threads
<1>5. u \in Running
    BY <1>1, <1>2, RunningIs
<1> QED BY <1>2, <1>3, <1>4, <1>5 DEF Kin, Changed

\* The registers of a running thread are numbers, register 4 a pointer.
LEMMA RegistersOf ==
    ASSUME NEW t \in Running
    PROVE  /\ t.regs \in RegisterSets /\ t.mem \in Tables /\ t \in Threads
           /\ t.regs[2] \in Nat /\ t.regs[4] \in Nat /\ t.regs[4] \in MemAddrs
           /\ (t.regs[4] < TEXT_BASE \/ t.regs[4] >= DATA_BASE)
<1>1. t \in Threads /\ t.regs[4] \in Pointers
    BY RunningIs
<1>2. t.regs \in [Regs -> Nat] /\ t.mem \in Tables /\ 2 \in Regs
    BY <1>1 DEF Threads, Regs
<1>3. t.regs[2] \in Nat
    BY <1>2
<1> QED BY <1>1, <1>2, <1>3, PointersAreAddresses DEF RegisterSets

\* A byte written outside the text.
LEMMA OneByteWritten ==
    ASSUME NEW m, NEW n, NEW a \in Nat, a < TEXT_BASE \/ a >= DATA_BASE, NEW v,
           Written(m, n, a, <<v>>)
    PROVE  TextKept(m, n)
<1>1. \A x \in MemAddrs : x \notin a .. a => ByteAt(n, x) = ByteAt(m, x)
    BY DEF Written
<1>2. \A x \in MemAddrs : x >= TEXT_BASE /\ x < DATA_BASE => x \notin a .. a
    BY AddressesAreNumbers, Segments
<1> QED BY <1>1, <1>2 DEF TextKept

Executed(t, u) ==
    /\ u \in Running /\ Kin(t, u) /\ u.regs_PC = t.regs_PC

\* A register set, a store of one byte, a load of one byte.
LEMMA RegisterSet ==
    ASSUME NEW t \in Running, NEW i \in Regs, NEW v, [t.regs EXCEPT ![i] = v] \in RegisterSets,
           NEW u, u = SetReg(t, i, v)
    PROVE  Changed(t, u, [t.regs EXCEPT ![i] = v], t.mem)
<1> DEFINE m == t.mem
           r == [t.regs EXCEPT ![i] = v]
<1>1. t \in Threads /\ m \in Tables /\ r \in RegisterSets
    BY RegistersOf
<1>2. u = With(t, r, m)
    BY <1>1 DEF Threads, SetReg, With
<1>3. TextKept(t.mem, m)
    BY DEF TextKept
<1> HIDE DEF m, r
<1>4. Changed(t, u, r, m)
    BY <1>1, <1>2, <1>3, KinFrom
<1> QED BY <1>4 DEF m, r

\* SetMem of a memory with the same text changes the memory alone.
LEMMA MemorySet ==
    ASSUME NEW t \in Running, NEW n \in Tables, TextKept(t.mem, n), NEW u, u = SetMem(t, n)
    PROVE  Changed(t, u, t.regs, n)
<1> DEFINE r == t.regs
<1>1. t \in Threads /\ r \in RegisterSets
    BY RegistersOf
<1>2. u = With(t, r, n)
    BY <1>1 DEF Threads, SetMem, With
<1> HIDE DEF r
<1>3. Changed(t, u, r, n)
    BY <1>1, <1>2, KinFrom
<1> QED BY <1>3 DEF r

\* A result may be put in register 2.
LEMMA ResultSet ==
    ASSUME NEW regs \in RegisterSets, NEW v \in Nat
    PROVE  [regs EXCEPT ![2] = v] \in RegisterSets
BY DEF RegisterSets, Regs

\* A pointer may be put in register 4.
LEMMA PointerSet ==
    ASSUME NEW regs \in RegisterSets, NEW b \in Nat
    PROVE  [regs EXCEPT ![4] = Pointer(b)] \in RegisterSets
<1> DEFINE p == Pointer(b)
           n == STACK_BASE - DATA_BASE
           k == (8 * b) % n
<1>1. n \in Nat \ {0} /\ 8 * b \in Int
    BY Segments
<1>2. k \in 0 .. n - 1
    <2> HIDE DEF n
    <2> QED BY <1>1, Division
<1>3. p = DATA_BASE + k
    BY DEF Pointer
<1>4. p \in Pointers
    <2> HIDE DEF k, p
    <2> QED BY <1>2, <1>3, Segments DEF Pointers
<1>5. p \in Nat
    <2> HIDE DEF p
    <2> QED BY <1>4, PointersAreAddresses
<1> HIDE DEF p
<1>6. [regs EXCEPT ![4] = p] \in RegisterSets
    BY <1>4, <1>5 DEF RegisterSets, Regs
<1> QED BY <1>6 DEF p

ByteStored(m, n) ==
    /\ n \in Tables /\ TextKept(m, n)
    /\ \A b \in Blocks : m[b] # Absent => n[b] # Absent

\* A store outside the text segment keeps the text.
LEMMA ByteStoredIs ==
    ASSUME NEW m \in Tables, NEW a \in Nat, a < TEXT_BASE \/ a >= DATA_BASE, NEW v \in ByteValues,
           NEW n, n = WriteBytes(m, a, <<v>>)
    PROVE  ByteStored(m, n)
<1> DEFINE w == <<v>>
<1>1. w \in Seq(ByteValues)
    OBVIOUS
<1>2. n = WriteBytes(m, a, w)
    OBVIOUS
<1> HIDE DEF w
<1>3. Written(m, n, a, w)
    BY <1>1, <1>2, WriteBytesWrites
<1>4. Written(m, n, a, <<v>>)
    BY <1>3 DEF w
<1>5. TextKept(m, n)
    BY <1>4, OneByteWritten
<1> QED BY <1>3, <1>5 DEF ByteStored, Written

\* A loaded byte is a register's value.
LEMMA ByteLoadedIs ==
    ASSUME NEW m \in Tables, NEW a \in MemAddrs
    PROVE  NumOf(Unsigned(ReadBytes(m, a, 1))) \in Nat
<1> DEFINE v == ByteAt(m, a)
           w == <<v>>
           x == Extend(w, 0)
<1>1. v \in ByteValues
    BY BytesAreTyped
<1>2. ReadBytes(m, a, 1) = w
    BY ReadOne
<1> HIDE DEF v
<1>3. w \in Seq(ByteValues)
    BY <1>1
<1> HIDE DEF w
<1>4. x \in [1 .. 4 -> ByteValues]
    BY <1>3, ZeroIsAByte, ExtendIsTyped
<1>5. Unsigned(ReadBytes(m, a, 1)) = x
    BY <1>2 DEF Unsigned
<1> HIDE DEF x
<1> QED BY <1>4, <1>5, NumIsNat

\* An instruction changes registers and memory, never text, table or counters.
LEMMA ExecuteIs ==
    ASSUME NEW t \in Running, NEW inst, inst[2] \in ByteValues, NEW u, u = Execute(t, inst)
    PROVE  Executed(t, u)
<1> DEFINE regs == t.regs
           m == t.mem
           a == t.regs[4]
<1>1. /\ regs \in RegisterSets /\ m \in Tables /\ 2 \in Regs /\ 4 \in Regs
      /\ regs[2] \in Nat /\ a \in Nat /\ a \in MemAddrs /\ (a < TEXT_BASE \/ a >= DATA_BASE)
    BY RegistersOf DEF Regs
<1>2. inst[2] \in Nat
    BY Sizes DEF ByteValues
<1>3. CASE inst[1] = LI
    <2>1. [t.regs EXCEPT ![2] = inst[2]] \in RegisterSets
        BY <1>1, <1>2, ResultSet
    <2>2. u = SetReg(t, 2, inst[2])
        BY <1>3, CodesAssumption DEF Execute
    <2>3. Changed(t, u, [t.regs EXCEPT ![2] = inst[2]], t.mem)
        BY <1>1, <2>1, <2>2, RegisterSet
    <2> QED BY <2>3 DEF Changed, Executed
<1>4. CASE inst[1] # LI /\ inst[1] = PTR
    <2> DEFINE p == Pointer(inst[2])
    <2>1. [t.regs EXCEPT ![4] = p] \in RegisterSets
        BY <1>1, <1>2, PointerSet
    <2>2. u = SetReg(t, 4, p)
        BY <1>4, CodesAssumption DEF Execute
    <2> HIDE DEF p
    <2>3. Changed(t, u, [t.regs EXCEPT ![4] = p], t.mem)
        BY <1>1, <2>1, <2>2, RegisterSet
    <2> QED BY <2>3 DEF Changed, Executed
<1>5. CASE inst[1] # LI /\ inst[1] # PTR /\ inst[1] = SB
    <2> DEFINE v == regs[2] % Byte
               n == WriteBytes(m, a, <<v>>)
    <2>1. v \in ByteValues
        BY <1>1, RemainderIsByte
    <2>2. u = SetMem(t, n)
        BY <1>5, CodesAssumption DEF Execute
    <2> HIDE DEF v, a
    <2>3. ByteStored(m, n)
        BY <1>1, <2>1, ByteStoredIs
    <2> HIDE DEF n
    <2>4. Changed(t, u, t.regs, n)
        BY <2>2, <2>3, MemorySet DEF ByteStored
    <2> QED BY <2>4 DEF Changed, Executed
<1>6. CASE inst[1] # LI /\ inst[1] # PTR /\ inst[1] # SB /\ inst[1] = LB
    <2> DEFINE v == NumOf(Unsigned(ReadBytes(m, a, 1)))
               n == Touch(m, a)
               w == SetMem(t, n)
    <2>1. v \in Nat
        BY <1>1, ByteLoadedIs
    <2>2. u = SetReg(w, 2, v)
        BY <1>6, CodesAssumption DEF Execute
    <2>3. n \in Tables /\ TextKept(m, n)
        <3>1. n \in Tables /\ \A x \in MemAddrs : ByteAt(n, x) = ByteAt(m, x)
            <4> HIDE DEF m, a
            <4> QED BY <1>1, TouchKeeps
        <3> QED BY <3>1 DEF TextKept
    <2> HIDE DEF v, n, w
    <2>4. Changed(t, w, t.regs, n)
        BY <2>3, MemorySet DEF w
    <2>5. w \in Running /\ w.regs \in RegisterSets
        BY <1>1, <2>4 DEF Changed
    <2>6. [w.regs EXCEPT ![2] = v] \in RegisterSets
        BY <2>1, <2>5, ResultSet
    <2>7. Changed(w, u, [w.regs EXCEPT ![2] = v], w.mem)
        BY <1>1, <2>2, <2>5, <2>6, RegisterSet
    <2> QED BY <2>4, <2>7 DEF Changed, Executed, Kin, TextKept
<1>7. CASE inst[1] # LI /\ inst[1] # PTR /\ inst[1] # SB /\ inst[1] # LB
    <2>1. u = t
        BY <1>7, CodesAssumption DEF Execute
    <2> QED BY <2>1 DEF Executed, Kin, TextKept
<1> QED BY <1>3, <1>4, <1>5, <1>6, <1>7

Advanced(t, u) ==
    /\ u \in Running /\ Kin(t, u) /\ u.mem = t.mem /\ u.regs = t.regs
    /\ u.regs_PC = t.regs_PC + INST_SIZE

\* Only the program counter advances.
LEMMA AdvanceIs ==
    ASSUME NEW t \in Running, NEW u, u = Advance(t)
    PROVE  Advanced(t, u)
<1> DEFINE pc == t.regs_PC + INST_SIZE
<1>1. t \in Threads /\ t.regs_PC \in Nat /\ t.regs_PC % INST_SIZE = 0 /\ t.ld_data_base = DATA_BASE
      /\ t.regs[4] \in Pointers
    BY RunningIs DEF Threads
<1>2. pc \in Nat
    BY <1>1, Sizes
<1>3. pc % INST_SIZE = 0
    <2>1. INST_SIZE \in Nat \ {0} /\ INST_SIZE \in Int
        BY Sizes
    <2>2. INST_SIZE % INST_SIZE = 0
        <3>1. INST_SIZE = INST_SIZE * 1 + 0 /\ 1 \in Int /\ 0 \in 0 .. INST_SIZE - 1
            BY <2>1
        <3> QED BY <2>1, <3>1, DivisionIsUnique
    <2> QED BY <1>1, <2>1, <2>2, Multiples
<1>4. u = [t EXCEPT !.regs_PC = pc]
    BY <1>1 DEF Advance, Threads
<1> HIDE DEF pc
<1>5. /\ u \in Threads /\ u.regs = t.regs /\ u.mem = t.mem
      /\ u.regs_PC = pc /\ u.ld_data_base = t.ld_data_base
      /\ u.ld_text_base = t.ld_text_base /\ u.ld_text_size = t.ld_text_size
      /\ u.ld_prog_entry = t.ld_prog_entry /\ u.num_insn = t.num_insn /\ u.fp = t.fp
    BY <1>1, <1>2, <1>4 DEF Threads
<1>6. u.blocked = t.blocked
    BY <1>1, <1>4 DEF Threads
<1>7. u \in Running
    BY <1>1, <1>3, <1>5, RunningIs
<1> QED BY <1>5, <1>6, <1>7 DEF Advanced, Kin, TextKept, pc

-----------------------------------------------------------------------------
(* System calls and trap records                                           *)

\* The state of the program: what a step does to it depends on nothing else.
LEMMA ArchIs ==
    ASSUME NEW t
    PROVE  /\ Arch(t).regs = t.regs /\ Arch(t).mem = t.mem /\ Arch(t).regs_PC = t.regs_PC
           /\ Inst(Arch(t)) = Inst(t)
BY DEF Arch, Inst

\* Architected state commutes with the updates of registers and memory.
LEMMA ArchSets ==
    ASSUME NEW t \in Threads, NEW i, NEW v, NEW m
    PROVE  /\ Arch(SetReg(t, i, v)) = SetReg(Arch(t), i, v)
           /\ Arch(SetMem(t, m)) = SetMem(Arch(t), m)
           /\ SetMem(t, m) \in Threads <=> m \in Tables
<1>1. Arch(SetReg(t, i, v)) = SetReg(Arch(t), i, v)
    BY DEF Arch, SetReg, Threads
<1>2. Arch(SetMem(t, m)) = SetMem(Arch(t), m)
    BY DEF Arch, SetMem, Threads
<1>3. SetMem(t, m) \in Threads <=> m \in Tables
    BY DEF SetMem, Threads
<1> QED BY <1>1, <1>2, <1>3

\* The effect of an instruction depends on the architected state alone.
LEMMA ArchExecutes ==
    ASSUME NEW t \in Running, NEW inst
    PROVE  Arch(Execute(t, inst)) = Execute(Arch(t), inst)
<1> DEFINE s == Arch(t)
           m == t.mem
           a == t.regs[4]
<1>1. t \in Threads /\ m \in Tables /\ a \in MemAddrs
    BY RegistersOf
<1>2. s.regs = t.regs /\ s.mem = m
    BY ArchIs
<1> HIDE DEF s
<1>3. CASE inst[1] = LI
    <2>1. Execute(t, inst) = SetReg(t, 2, inst[2]) /\ Execute(s, inst) = SetReg(s, 2, inst[2])
        BY <1>3, CodesAssumption DEF Execute
    <2> QED BY <1>1, <2>1, ArchSets DEF s
<1>4. CASE inst[1] # LI /\ inst[1] = PTR
    <2>1. /\ Execute(t, inst) = SetReg(t, 4, Pointer(inst[2]))
          /\ Execute(s, inst) = SetReg(s, 4, Pointer(inst[2]))
        BY <1>4, CodesAssumption DEF Execute
    <2> QED BY <1>1, <2>1, ArchSets DEF s
<1>5. CASE inst[1] # LI /\ inst[1] # PTR /\ inst[1] = SB
    <2> DEFINE n == WriteBytes(m, a, <<t.regs[2] % Byte>>)
    <2>1. Execute(t, inst) = SetMem(t, n) /\ Execute(s, inst) = SetMem(s, n)
        BY <1>2, <1>5, CodesAssumption DEF Execute
    <2> HIDE DEF n
    <2> QED BY <1>1, <2>1, ArchSets DEF s
<1>6. CASE inst[1] # LI /\ inst[1] # PTR /\ inst[1] # SB /\ inst[1] = LB
    <2> DEFINE n == Touch(m, a)
               v == NumOf(Unsigned(ReadBytes(m, a, 1)))
    <2>1. Execute(t, inst) = SetReg(SetMem(t, n), 2, v) /\ Execute(s, inst) = SetReg(SetMem(s, n), 2, v)
        BY <1>2, <1>6, CodesAssumption DEF Execute
    <2>2. n \in Tables
        <3> HIDE DEF m, a
        <3> QED BY <1>1, TouchKeeps
    <2> HIDE DEF n, v
    <2>3. SetMem(t, n) \in Threads /\ Arch(SetMem(t, n)) = SetMem(s, n)
        BY <1>1, <2>2, ArchSets DEF s
    <2>4. Arch(SetReg(SetMem(t, n), 2, v)) = SetReg(Arch(SetMem(t, n)), 2, v)
        BY <2>3, ArchSets
    <2> QED BY <2>1, <2>3, <2>4 DEF s
<1>7. CASE inst[1] # LI /\ inst[1] # PTR /\ inst[1] # SB /\ inst[1] # LB
    <2>1. Execute(t, inst) = t /\ Execute(s, inst) = s
        BY <1>7 DEF Execute
    <2> QED BY <2>1 DEF s
<1> QED BY <1>3, <1>4, <1>5, <1>6, <1>7 DEF s

\* So does the next program counter.
LEMMA ArchAdvances ==
    ASSUME NEW t \in Threads
    PROVE  Arch(Advance(t)) = Advance(Arch(t))
BY DEF Arch, Advance, Threads

\* Executed and advanced.
Stepped(t, v) ==
    /\ v \in Running /\ Kin(t, v) /\ v.regs_PC = t.regs_PC + INST_SIZE

\* An instruction executed and passed.
LEMMA SteppedIs ==
    ASSUME NEW t, NEW u, Executed(t, u), NEW v, v = Advance(u)
    PROVE  Stepped(t, v) /\ Arch(v) = Advance(Arch(u))
<1>1. u \in Running /\ Kin(t, u) /\ u.regs_PC = t.regs_PC
    BY DEF Executed
<1>2. Advanced(u, v)
    BY <1>1, AdvanceIs
<1>3. v \in Running /\ Kin(u, v) /\ v.regs_PC = u.regs_PC + INST_SIZE
    BY <1>2 DEF Advanced
<1>4. Kin(t, v)
    BY <1>1, <1>3 DEF Kin, TextKept
<1>5. u \in Threads
    BY <1>1, RegistersOf
<1> QED BY <1>1, <1>3, <1>4, <1>5, ArchAdvances DEF Stepped

\* A system call, and whether the process goes on.
CalledWith(t, u, end) ==
    /\ end \in {"on", "exit", "fatal"} /\ (end # "on" => u = t)
    /\ Executed(t, u)
    /\ \A b \in Blocks : t.mem[b] # Absent => u.mem[b] # Absent
    /\ \A q \in Regs \ TrapRegs : u.regs[q] = t.regs[q]
Called(t, o) == CalledWith(t, o.t, o.end)

\* A system call that ends the program leaves its state.
LEMMA CallEnds ==
    ASSUME NEW t \in Running, NEW how \in {"exit", "fatal"}, NEW o, o = End(t, how)
    PROVE  Called(t, o)
<1>1. o.t = t /\ o.end = how
    BY DEF End
<1>2. CalledWith(t, t, how)
    BY DEF CalledWith, Executed, Kin, TextKept
<1> QED BY <1>1, <1>2 DEF Called

\* A call that stores a byte and does not fail changes the memory alone.
LEMMA ServedIs ==
    ASSUME NEW t \in Running, NEW h \in ByteValues, NEW u, u = Write(t, t.regs[4], <<h>>), ~u.fatal
    PROVE  u = SetMem(t, WriteBytes(t.mem, t.regs[4], <<h>>))
<1> DEFINE w == <<h>>
           a == t.regs[4]
<1>1. t \in Threads
    BY RegistersOf
<1>2. ~t.fatal
    BY DEF Write
<1>3. CASE \A k \in 1 .. Len(w) : CanWrite(t, a + k - 1)
    BY <1>2, <1>3 DEF Write, SetMem
<1>4. CASE ~(\A k \in 1 .. Len(w) : CanWrite(t, a + k - 1))
    <2>1. u = [t EXCEPT !.fatal = TRUE]
        BY <1>2, <1>4 DEF Write
    <2>2. u.fatal = TRUE
        BY <1>1, <2>1 DEF Threads
    <2> QED BY <2>2
<1> QED BY <1>3, <1>4

\* A system call ends the program or changes its result and one byte outside the text.
LEMMA CallIs ==
    ASSUME NEW t \in Running, NEW h \in ByteValues, NEW o, o = ss_syscall(t, h)
    PROVE  Called(t, o)
<1> DEFINE served == Write(t, t.regs[4], <<h>>)
<1>1. CASE t.regs[2] = ExitCode
    <2>1. o = End(t, "exit")
        BY <1>1, CodesAssumption DEF ss_syscall
    <2> QED BY <2>1, CallEnds
<1>2. CASE t.regs[2] # ExitCode /\ t.regs[2] # ReadCode
    <2>1. o = End(t, "fatal")
        BY <1>2 DEF ss_syscall
    <2> QED BY <2>1, CallEnds
<1>3. CASE t.regs[2] # ExitCode /\ t.regs[2] = ReadCode
    <2>1. o = IF served.fatal THEN End(t, "fatal") ELSE Go(SetReg(served, 2, 1))
        BY <1>3, CodesAssumption DEF ss_syscall
    <2> HIDE DEF served
    <2>2. CASE served.fatal
        <3>1. o = End(t, "fatal")
            BY <2>1, <2>2
        <3> QED BY <3>1, CallEnds
    <2>3. CASE ~served.fatal
        <3> DEFINE m == t.mem
                   a == t.regs[4]
                   n == WriteBytes(m, a, <<h>>)
        <3>1. served = SetMem(t, n)
            BY <2>3, ServedIs DEF served
        <3>2. /\ t.regs \in RegisterSets /\ m \in Tables /\ a \in Nat
              /\ (a < TEXT_BASE \/ a >= DATA_BASE) /\ 2 \in Regs
            BY RegistersOf DEF Regs
        <3>3. ByteStored(m, n)
            <4> HIDE DEF m, a
            <4> QED BY <3>2, ByteStoredIs
        <3> HIDE DEF n
        <3>4. Changed(t, served, t.regs, n)
            BY <3>1, <3>3, MemorySet DEF ByteStored
        <3>5. served \in Running /\ served.regs \in RegisterSets
            BY <3>2, <3>4 DEF Changed
        <3>6. [served.regs EXCEPT ![2] = 1] \in RegisterSets
            BY <3>5, ResultSet
        <3> DEFINE u == SetReg(served, 2, 1)
        <3>7. Changed(served, u, [served.regs EXCEPT ![2] = 1], served.mem)
            BY <3>2, <3>5, <3>6, RegisterSet
        <3> HIDE DEF u
        <3>8. o.t = u /\ o.end = "on"
            <4>1. o = Go(u)
                BY <2>1, <2>3 DEF u
            <4> QED BY <4>1 DEF Go
        <3>9. Executed(t, u) /\ u.mem = n
            BY <3>4, <3>7 DEF Changed, Executed, Kin, TextKept
        <3>10. \A q \in Regs \ TrapRegs : u.regs[q] = t.regs[q]
            <4>1. served.regs = t.regs /\ u.regs = [served.regs EXCEPT ![2] = 1]
                BY <3>4, <3>7 DEF Changed
            <4>2. t.regs \in [Regs -> Nat] /\ 2 \in TrapRegs
                BY <3>2 DEF RegisterSets, TrapRegs
            <4> QED BY <4>1, <4>2
        <3>11. CalledWith(t, u, "on")
            BY <3>3, <3>9, <3>10 DEF CalledWith, ByteStored
        <3> QED BY <3>8, <3>11 DEF Called
    <2> QED BY <2>2, <2>3
<1> QED BY <1>1, <1>2, <1>3

-----------------------------------------------------------------------------
(* Differences of two memories                                             *)

Changes == {d \in MemAddrs \X ByteValues : d[1] < TEXT_BASE \/ d[1] >= DATA_BASE}

\* The difference of two memories lists the bytes that are new.
LEMMA DifferenceIs ==
    ASSUME NEW old \in Tables, NEW new \in Tables
    PROVE  \A d : d \in Difference(old, new) <=>
              \E a \in MemAddrs : /\ Present(new, a) /\ ByteAt(new, a) # ByteAt(old, a)
                                  /\ d = <<a, ByteAt(new, a)>>
<1>1. \A a \in MemAddrs : ReadBytes(new, a, 1) = <<ByteAt(new, a)>> /\ ReadBytes(old, a, 1) = <<ByteAt(old, a)>>
    BY ReadOne
<1> HIDE DEF ByteAt
<1>2. \A a \in MemAddrs : /\ ReadBytes(new, a, 1)[1] = ByteAt(new, a)
                          /\ ReadBytes(new, a, 1) # ReadBytes(old, a, 1) <=> ByteAt(new, a) # ByteAt(old, a)
    BY <1>1
<1> QED BY <1>2 DEF Difference

\* A call that keeps the text leaves no change of the text to record.
LEMMA DifferenceIsOutside ==
    ASSUME NEW old \in Tables, NEW new \in Tables, TextKept(old, new)
    PROVE  Difference(old, new) \subseteq Changes
<1> SUFFICES ASSUME NEW d \in Difference(old, new)
             PROVE  d \in Changes
    OBVIOUS
<1>1. PICK a \in MemAddrs : ByteAt(new, a) # ByteAt(old, a) /\ d = <<a, ByteAt(new, a)>>
    BY DifferenceIs
<1>2. ~(a >= TEXT_BASE /\ a < DATA_BASE)
    BY <1>1 DEF TextKept
<1>3. a \in Nat /\ TEXT_BASE \in Nat /\ DATA_BASE \in Nat
    BY AddressesAreNumbers, Segments
<1> DEFINE v == ByteAt(new, a)
<1>4. v \in ByteValues
    BY BytesAreTyped
<1> HIDE DEF v
<1>5. a < TEXT_BASE \/ a >= DATA_BASE
    BY <1>2, <1>3
<1>6. d = <<a, v>>
    BY <1>1 DEF v
<1>7. d \in MemAddrs \X ByteValues /\ d[1] = a
    BY <1>4, <1>6
<1> QED BY <1>5, <1>7 DEF Changes

PatchedByte(m, diffs, x) ==
    IF Present(m, x) /\ \E d \in diffs : d[1] = x
    THEN (CHOOSE d \in diffs : d[1] = x)[2] ELSE ByteAt(m, x)
IsPatched(m, n, diffs) ==
    /\ n \in Tables
    /\ \A x \in MemAddrs : ByteAt(n, x) = PatchedByte(m, diffs, x)
    /\ \A b \in Blocks : m[b] = Absent <=> n[b] = Absent

\* Patching changes the listed bytes and no other.
LEMMA PatchIs ==
    ASSUME NEW m \in Tables, NEW diffs, diffs \subseteq Changes, NEW n, n = Patch(m, diffs)
    PROVE  IsPatched(m, n, diffs)
<1> DEFINE pick(x) == CHOOSE d \in diffs : d[1] = x
           byte(b, o) == IF \E d \in diffs : d[1] = b * BLOCK_SIZE + o
                         THEN pick(b * BLOCK_SIZE + o)[2] ELSE m[b][o]
           block(b) == [o \in 0 .. BLOCK_SIZE - 1 |-> byte(b, o)]
<1>1. n = [b \in Blocks |-> IF m[b] = Absent THEN Absent ELSE block(b)]
    BY DEF Patch
<1>2. ASSUME NEW x, \E d \in diffs : d[1] = x
      PROVE  pick(x)[2] \in ByteValues
    <2>1. pick(x) \in diffs
        BY <1>2
    <2> QED BY <2>1 DEF Changes
<1> HIDE DEF pick
<1>3. ASSUME NEW b \in Blocks, m[b] # Absent
      PROVE  block(b) \in BlockValues /\ block(b) # Absent
    <2>1. \A o \in 0 .. BLOCK_SIZE - 1 : m[b][o] \in ByteValues
        BY <1>3 DEF Tables
    <2>2. \A o \in 0 .. BLOCK_SIZE - 1 : byte(b, o) \in ByteValues
        BY <1>2, <2>1
    <2>3. block(b) \in BlockValues
        <3> HIDE DEF byte
        <3> QED BY <2>2 DEF BlockValues
    <2> HIDE DEF block
    <2> QED BY <2>3, BlockIsThere
<1>4. n \in Tables
    <2>1. \A b \in Blocks : (IF m[b] = Absent THEN Absent ELSE block(b)) \in {Absent} \cup BlockValues
        <3> HIDE DEF block
        <3> QED BY <1>3
    <2> HIDE DEF block
    <2> QED BY <1>1, <2>1 DEF Tables, BlockValues
<1>5. \A b \in Blocks : m[b] = Absent <=> n[b] = Absent
    <2> HIDE DEF block
    <2> QED BY <1>1, <1>3
<1>6. ASSUME NEW x \in MemAddrs
      PROVE  ByteAt(n, x) = PatchedByte(m, diffs, x)
    <2> DEFINE b == MEM_BLOCK(x)
               o == MEM_OFFSET(x)
    <2>1. b \in Blocks /\ o \in 0 .. BLOCK_SIZE - 1 /\ x = b * BLOCK_SIZE + o
        BY AddressSplit
    <2>2. CASE m[b] = Absent
        <3>1. n[b] = Absent
            BY <1>5, <2>1, <2>2
        <3>2. ByteAt(n, x) = ByteAt(m, x) /\ ~Present(m, x)
            BY <2>2, <3>1 DEF ByteAt, BlockOf, Present
        <3> QED BY <3>2 DEF PatchedByte
    <2>3. CASE m[b] # Absent
        <3>1. n[b] = block(b) /\ n[b] # Absent
            BY <1>1, <1>5, <2>1, <2>3
        <3>2. n[b][o] = byte(b, o)
            BY <2>1, <3>1
        <3>3. ByteAt(n, x) = byte(b, o) /\ ByteAt(m, x) = m[b][o] /\ Present(m, x)
            BY <2>3, <3>1, <3>2 DEF ByteAt, BlockOf, Present
        <3>4. byte(b, o) = IF \E d \in diffs : d[1] = x THEN pick(x)[2] ELSE m[b][o]
            BY <2>1
        <3>5. pick(x) = CHOOSE d \in diffs : d[1] = x
            BY DEF pick
        <3> HIDE DEF pick, byte, b, o
        <3> QED BY <3>3, <3>4, <3>5 DEF PatchedByte
    <2> QED BY <2>2, <2>3
<1> QED BY <1>4, <1>5, <1>6 DEF IsPatched

\* Patching recorded changes keeps the text.
LEMMA PatchKeepsText ==
    ASSUME NEW m, NEW n, NEW diffs, diffs \subseteq Changes, IsPatched(m, n, diffs)
    PROVE  TextKept(m, n)
<1> SUFFICES ASSUME NEW x \in MemAddrs, x >= TEXT_BASE, x < DATA_BASE
             PROVE  ByteAt(n, x) = ByteAt(m, x)
    BY DEF TextKept
<1>1. x \in Nat /\ TEXT_BASE \in Nat /\ DATA_BASE \in Nat
    BY AddressesAreNumbers, Segments
<1>2. ~ \E d \in diffs : d[1] = x
    BY <1>1 DEF Changes
<1> QED BY <1>2 DEF IsPatched, PatchedByte

\* The differences restore what was there.
LEMMA PatchRestores ==
    ASSUME NEW old \in Tables, NEW new \in Tables, TextKept(old, new), ~NewBlock(old, new),
           \A b \in Blocks : old[b] # Absent => new[b] # Absent
    PROVE  Patch(old, Difference(old, new)) = new
<1> DEFINE diffs == Difference(old, new)
           n == Patch(old, diffs)
<1>1. diffs \subseteq Changes
    BY DifferenceIsOutside
<1>2. \A d : d \in diffs <=>
              \E a \in MemAddrs : /\ Present(new, a) /\ ByteAt(new, a) # ByteAt(old, a)
                                  /\ d = <<a, ByteAt(new, a)>>
    BY DifferenceIs
<1> HIDE DEF diffs
<1>3. IsPatched(old, n, diffs)
    BY <1>1, PatchIs
<1> HIDE DEF n
<1>4. \A b \in Blocks : old[b] = Absent <=> new[b] = Absent
    BY DEF NewBlock
<1>5. ASSUME NEW x \in MemAddrs
      PROVE  ByteAt(n, x) = ByteAt(new, x)
    <2>1. ByteAt(n, x) = PatchedByte(old, diffs, x)
        BY <1>3 DEF IsPatched
    <2>2. Present(old, x) <=> Present(new, x)
        BY <1>4, AddressSplit DEF Present
    <2>3. CASE \E d \in diffs : d[1] = x
        <3> DEFINE e == CHOOSE d \in diffs : d[1] = x
        <3>1. e \in diffs /\ e[1] = x
            BY <2>3
        <3> HIDE DEF e
        <3>2. PICK a \in MemAddrs : Present(new, a) /\ e = <<a, ByteAt(new, a)>>
            BY <1>2, <3>1
        <3>3. a = x /\ e[2] = ByteAt(new, a)
            BY <3>1, <3>2
        <3> QED BY <2>1, <2>2, <2>3, <3>2, <3>3 DEF PatchedByte, e
    <2>4. CASE ~ \E d \in diffs : d[1] = x
        <3>1. ByteAt(n, x) = ByteAt(old, x)
            BY <2>1, <2>4 DEF PatchedByte
        <3>2. CASE Present(new, x)
            <4>1. SUFFICES ASSUME ByteAt(new, x) # ByteAt(old, x) PROVE FALSE
                BY <3>1
            <4> DEFINE e == <<x, ByteAt(new, x)>>
            <4>2. e \in diffs
                BY <1>2, <3>2, <4>1
            <4>3. e[1] = x
                OBVIOUS
            <4> HIDE DEF e
            <4> QED BY <2>4, <4>2, <4>3
        <3>3. CASE ~Present(new, x)
            BY <2>2, <3>1, <3>3 DEF ByteAt, BlockOf
        <3> QED BY <3>2, <3>3
    <2> QED BY <2>3, <2>4
<1>6. n \in Tables /\ \A b \in Blocks : n[b] = Absent <=> new[b] = Absent
    BY <1>3, <1>4 DEF IsPatched
<1>7. n = new
    BY <1>5, <1>6, SameTable
<1> QED BY <1>7 DEF n, diffs

-----------------------------------------------------------------------------
(* The inductive invariant                                                 *)

Memories == [text : Tables, mem : Tables, base : Nat, size : Int]
Heads == [num_insn : Nat, inst : Seq(ByteValues), pre : [TrapRegs -> Nat]]
Passed == {r \in [TrapRegs -> Nat] : r[4] \in Pointers}
TrapRecords == [head : Heads, post : {p \in Seq(Passed) : Len(p) <= 1}, diffs : SUBSET Changes]
Files == [saved : BOOLEAN, head : Threads, traps : Seq(TrapRecords), pos : Nat]
PortNames == {"none", "copy", "read", "write", "fetch"}
Requests == [n : Nat, port : PortNames, addr : Nat, size : Nat, signed : BOOLEAN, data : Seq(ByteValues)]

Typed ==
    /\ input \in Inputs /\ role \in {"record", "sim"}
    /\ options.SKIP_AMT \in 0 .. MaxInsn
    /\ th \in Threads /\ th.num_insn \in 0 .. MaxInsn
    /\ vmem \in Memories
    /\ file \in Files /\ file.pos \in 1 .. Len(file.traps) + 1
    /\ value \in [1 .. 4 -> ByteValues]
    /\ request \in Requests /\ request.n \in 0 .. MaxOps

RecArgs == input.recording[1].argv
RecImage == Images[ProgramOf(RecArgs)]
IsRecorded == input.recording # <<>>

\* Which process does what.
Roles ==
    /\ role = "record" => IsRecorded /\ argv = RecArgs /\ options.CHECKPOINT = NoFile
    /\ stage \in {"config", "copying", "core"} => role = "sim"
    /\ stage = "recording" => role = "record" /\ file.saved
    /\ options.CHECKPOINT # NoFile => file.saved

Active == {"copying", "decoding", "decoded", "skipping", "core", "recording"}
Mode == CASE stage = "recording" -> "save"
          [] stage \in {"skipping", "core"} /\ options.CHECKPOINT # NoFile -> "restore"
          [] OTHER -> "none"

\* A process with a program.
Working ==
    /\ stage = "loading" => Arguments(argv)
    /\ stage \in Active => /\ Arguments(argv) /\ ProgramOf(argv) \in DOMAIN Images
                           /\ th \in Running /\ th.fp = Mode
    /\ th.blocked => stage \in {"core", "exit", "fatal", "panic", "crash"}

\* Before the core starts.
Early ==
    role = "record" \/ stage \in {"config", "loading", "copying", "decoding", "decoded", "skipping"} =>
        request.n = 0 /\ fetched.pc = -1 /\ vmem.mem = EmptyTable

\* The program as it was loaded, and the testbench's copy of its text.
LoadedText == stage \in {"copying", "decoding"} => Fresh(th, Image, argv) /\ ~th.fatal
Copied(v, image) ==
    /\ v.base = TEXT_BASE /\ v.size = TextSize(image)
    /\ \A x \in MemAddrs : x < DATA_BASE => ByteAt(v.text, x) = ImageByte(image, x)
CopiedText ==
    role = "sim" /\ stage \in {"decoding", "decoded", "skipping", "core"} => Copied(vmem, Image)

\* The text of the functional simulator is that of the program it runs, decoded.
TextImage == IF options.CHECKPOINT = NoFile THEN Image ELSE RecImage
ReadyThread(t, image, args) ==
    Decoded(t, image) /\ InPlace(t.mem, args) /\ t.regs[29] = ArgcAddr
DecodedText ==
    /\ stage = "decoded" => ReadyThread(th, Image, argv)
    /\ stage \in {"skipping", "core", "recording"} => Decoded(th, TextImage)

\* What the core fetched last, if it was an instruction of the text.
ImageInst(image, a) == [k \in 1 .. INST_SIZE |-> ImageByte(image, a + k - 1)]
FetchedText ==
    fetched.pc # -1 /\ fetched.pc \in TEXT_BASE .. TEXT_BASE + TextSize(Image) - 1 =>
        fetched.bytes = HalfOf(fetched.part, ImageInst(Image, fetched.pc - (fetched.pc % INST_SIZE)))

\* The state in the file.
SavedHead(head, image) ==
    /\ head \in Running /\ head.num_insn \in 0 .. MaxInsn
    /\ head.blocked = FALSE /\ Decoded(head, image)
HeadInv ==
    file.saved => IsRecorded /\ ProgramOf(RecArgs) \in DOMAIN Images /\ SavedHead(file.head, RecImage)

\* A step that was recorded: of an instruction, or of a trap with its record.
Archs == [regs : RegisterSets, mem : Tables, regs_PC : Nat]
HeadOf(s, n) == [num_insn |-> n, inst |-> Inst(s), pre |-> PassedRegs(s)]
Restored(s, trap) == Advance(Patched(s, trap))
Step(traps, s, u, n) ==
    /\ Inst(s) # NullFetch
    /\ Inst(s)[1] # TRAP => u = Advance(Execute(s, Inst(s)))
    /\ Inst(s)[1] = TRAP =>
          \E j \in 1 .. Len(traps) : /\ traps[j].head = HeadOf(s, n + 1) /\ traps[j].post # <<>>
                                     /\ u = Restored(s, traps[j])
Apart(traps) ==
    \A i, j \in 1 .. Len(traps) : traps[i].head.num_insn = traps[j].head.num_insn => i = j
History(f, states, last) ==
    /\ last \in Nat /\ last >= f.head.num_insn
    /\ DOMAIN states = f.head.num_insn .. last
    /\ states[f.head.num_insn] = Arch(f.head)
    /\ \A n \in f.head.num_insn .. last - 1 : Step(f.traps, states[n], states[n + 1], n)
    /\ Apart(f.traps)

RecordedInv == file.saved => \E last \in Nat : History(file, recorded, last)

\* The recording process is at the last state.
RecordingInv ==
    stage = "recording" =>
        /\ History(file, recorded, th.num_insn)
        /\ recorded[th.num_insn] = Arch(th)
        /\ \A j \in 1 .. Len(file.traps) : file.traps[j].head.num_insn <= th.num_insn

\* A process that restored is at the recorded state, or at a trap of it.
Follows(t, f, states) ==
    /\ f.saved /\ t.num_insn >= f.head.num_insn
    /\ ~t.blocked /\ t.num_insn \in DOMAIN states => Arch(t) = states[t.num_insn]
    /\ t.blocked =>
          /\ t.num_insn > f.head.num_insn
          /\ t.num_insn \in DOMAIN states =>
                Arch(t) = states[t.num_insn - 1] /\ Inst(t) # NullFetch /\ Inst(t)[1] = TRAP
ReplayInv == th.fp = "restore" => role = "sim" /\ Follows(th, file, recorded)

IInv == /\ Typed /\ Roles /\ Working /\ Early
        /\ LoadedText /\ CopiedText /\ DecodedText /\ FetchedText
        /\ HeadInv /\ RecordedInv /\ RecordingInv /\ ReplayInv

-----------------------------------------------------------------------------
(* Traps                                                                   *)

\* What a checkpoint file is.
LEMMA FilesAre ==
    ASSUME NEW f \in Files
    PROVE  /\ f.traps \in Seq(TrapRecords) /\ Len(f.traps) \in Nat
           /\ f.pos \in Nat /\ f.saved \in BOOLEAN /\ f.head \in Threads
           /\ \A j \in 1 .. Len(f.traps) : f.traps[j] \in TrapRecords
BY DEF Files

\* What a record of a trap is.
LEMMA RecordsAre ==
    ASSUME NEW r \in TrapRecords
    PROVE  /\ r.head.num_insn \in Nat /\ r.diffs \subseteq Changes
           /\ r.post # <<>> => r.post[1] \in Passed
<1>1. r.head \in Heads /\ r.post \in Seq(Passed) /\ Len(r.post) <= 1 /\ r.diffs \subseteq Changes
    BY DEF TrapRecords
<1>2. r.head.num_insn \in Nat
    BY <1>1 DEF Heads
<1>3. r.post # <<>> => r.post[1] \in Passed
    <2> DEFINE p == r.post
    <2>1. p \in Seq(Passed)
        BY <1>1
    <2> HIDE DEF p
    <2>2. p # <<>> => p[1] \in Passed
        BY <2>1
    <2> QED BY <2>2 DEF p
<1> QED BY <1>1, <1>2, <1>3

SameFile(f, g) ==
    /\ g \in Files /\ g.saved = f.saved /\ g.head = f.head
    /\ g.pos \in 1 .. Len(g.traps) + 1
Appended(f, g, r) == SameFile(f, g) /\ r \in TrapRecords /\ g.traps = Append(f.traps, r)
Moved(f, g) == SameFile(f, g) /\ g.traps = f.traps

\* A record goes behind the others, and those behind the position stay.
LEMMA AppendedIs ==
    ASSUME NEW f \in Files, f.pos \in 1 .. Len(f.traps) + 1, NEW r \in TrapRecords,
           NEW g, g = [f EXCEPT !.traps = Append(@, r)]
    PROVE  Appended(f, g, r)
<1> DEFINE n == f.traps
           m == Append(n, r)
<1>1. n \in Seq(TrapRecords)
    BY FilesAre
<1>2. m \in Seq(TrapRecords) /\ Len(m) = Len(n) + 1 /\ Len(n) \in Nat
    <2> HIDE DEF n
    <2> QED BY <1>1
<1> HIDE DEF m
<1>3. g = [f EXCEPT !.traps = m]
    BY DEF m
<1>4. g \in Files /\ g.traps = m /\ g.head = f.head /\ g.pos = f.pos
    BY <1>2, <1>3 DEF Files
<1>5. g.saved = f.saved
    BY <1>3 DEF Files
<1>6. g.pos \in 1 .. Len(g.traps) + 1
    <2> DEFINE p == f.pos
               k == Len(n)
    <2>1. p \in 1 .. k + 1 /\ Len(g.traps) = k + 1 /\ g.pos = p /\ k \in Nat
        BY <1>2, <1>4
    <2> HIDE DEF p, k
    <2> QED BY <2>1
<1> QED BY <1>4, <1>5, <1>6 DEF Appended, SameFile, m

\* The position moves past one record; the records stay.
LEMMA MovedIs ==
    ASSUME NEW f \in Files, f.pos \in 1 .. Len(f.traps),
           NEW g, g = [f EXCEPT !.pos = @ + 1]
    PROVE  Moved(f, g)
<1> DEFINE p == f.pos
           k == Len(f.traps)
           q == p + 1
<1>1. p \in 1 .. k /\ k \in Nat
    BY FilesAre
<1>2. q \in Nat /\ q \in 1 .. k + 1
    <2> HIDE DEF p, k
    <2> QED BY <1>1
<1>3. g = [f EXCEPT !.pos = q]
    OBVIOUS
<1> HIDE DEF q
<1>4. g \in Files /\ g.traps = f.traps /\ g.head = f.head /\ g.pos = q
    BY <1>2, <1>3 DEF Files
<1>5. g.saved = f.saved
    BY <1>3 DEF Files
<1> QED BY <1>2, <1>4, <1>5 DEF Moved, SameFile

\* The head of the record of a trap depends on the count and the program's state.
LEMMA TrapHeadIs ==
    ASSUME NEW t \in Running
    PROVE  TrapHead(t) \in Heads /\ TrapHead(t) = HeadOf(Arch(t), t.num_insn)
           /\ TrapHead(t).num_insn = t.num_insn
<1>1. Inst(t) \in Seq(ByteValues) /\ t.regs \in [Regs -> Nat] /\ t.num_insn \in Nat
    BY InstIs, RegistersOf DEF Threads
<1>2. TrapHead(t) \in Heads
    <2>1. PassedRegs(t) \in [TrapRegs -> Nat]
        BY <1>1 DEF PassedRegs, TrapRegs
    <2> QED BY <1>1, <2>1 DEF TrapHead, Heads
<1>3. TrapHead(t) = HeadOf(Arch(t), t.num_insn)
    BY ArchIs DEF TrapHead, HeadOf, PassedRegs
<1> QED BY <1>2, <1>3 DEF TrapHead

\* A thread that differs in registers and memory alone has the architected state so changed.
LEMMA WithIs ==
    ASSUME NEW t, NEW u, u.regs_PC = t.regs_PC
    PROVE  Arch(u) = With(Arch(t), u.regs, u.mem)
<1> DEFINE x == u.regs
           y == u.mem
           a == t.regs
           b == t.mem
           c == t.regs_PC
           s == [regs |-> a, mem |-> b, regs_PC |-> c]
           v == [regs |-> x, mem |-> b, regs_PC |-> c]
<1>1. Arch(t) = s /\ Arch(u) = [regs |-> x, mem |-> y, regs_PC |-> c]
    BY DEF Arch
<1>2. With(s, x, y) = [[s EXCEPT !.regs = x] EXCEPT !.mem = y]
    BY Zenon DEF With
<1> HIDE DEF x, y, a, b, c
<1>3. [s EXCEPT !.regs = x] = v
    OBVIOUS
<1>4. [v EXCEPT !.mem = y] = [regs |-> x, mem |-> y, regs_PC |-> c]
    OBVIOUS
<1> HIDE DEF s, v
<1>5. With(s, x, y) = [regs |-> x, mem |-> y, regs_PC |-> c]
    BY <1>2, <1>3, <1>4
<1> QED BY <1>1, <1>5 DEF x, y

\* Of the registers that a record restores, all may be passed to a call.
LEMMA RestoredRegsIs ==
    ASSUME NEW t \in Running, NEW r, r.post[1] \in Passed
    PROVE  RestoredRegs(t, r) \in RegisterSets /\ RestoredRegs(t, r) = RestoredRegs(Arch(t), r)
<1>1. t.regs \in [Regs -> Nat] /\ 4 \in TrapRegs /\ 4 \in Regs
    BY RegistersOf DEF RegisterSets, Regs, TrapRegs
<1>2. RestoredRegs(t, r) \in [Regs -> Nat]
    BY <1>1 DEF RestoredRegs, Passed
<1>3. RestoredRegs(t, r)[4] = r.post[1][4]
    BY <1>1 DEF RestoredRegs
<1>4. RestoredRegs(t, r) = RestoredRegs(Arch(t), r)
    BY ArchIs DEF RestoredRegs
<1> QED BY <1>2, <1>3, <1>4 DEF RegisterSets, Passed

\* A record applied to a thread.
LEMMA PatchedIs ==
    ASSUME NEW t \in Running, NEW r \in TrapRecords, r.post # <<>>, NEW u, u = Patched(t, r)
    PROVE  Executed(t, u) /\ Arch(u) = Patched(Arch(t), r)
<1> DEFINE regs == RestoredRegs(t, r)
           diffs == r.diffs
           m == t.mem
           n == Patch(m, diffs)
<1>1. diffs \subseteq Changes /\ regs \in RegisterSets /\ m \in Tables /\ t \in Threads
    BY RecordsAre, RegistersOf, RestoredRegsIs
<1>2. IsPatched(m, n, diffs)
    <2> HIDE DEF m, diffs
    <2> QED BY <1>1, PatchIs
<1>3. TextKept(m, n)
    <2> HIDE DEF m, n, diffs
    <2> QED BY <1>1, <1>2, PatchKeepsText
<1>4. n \in Tables
    BY <1>2 DEF IsPatched
<1>5. u = With(t, regs, n)
    BY DEF Patched, With
<1>6. Patched(Arch(t), r) = With(Arch(t), regs, n)
    <2>1. RestoredRegs(Arch(t), r) = regs
        BY RecordsAre, RestoredRegsIs
    <2> HIDE DEF regs
    <2> QED BY <2>1, ArchIs DEF Patched, With
<1> HIDE DEF regs, n
<1>7. Changed(t, u, regs, n)
    BY <1>1, <1>3, <1>4, <1>5, KinFrom DEF m
<1>8. Arch(u) = With(Arch(t), regs, n)
    BY <1>7, WithIs DEF Changed
<1> QED BY <1>6, <1>7, <1>8 DEF Changed, Executed

\* What a trap does to the checkpoint file.
FileAfter(t, f, g) == Moved(f, g) \/ (t.fp = "save" /\ \E r : Appended(f, g, r) /\ r.head = TrapHead(t))

\* The program goes on: as it would, and is recorded, or as it was recorded.
Saving(t, v, f, g) ==
    t.fp = "save" => \E r : /\ Appended(f, g, r) /\ r.head = TrapHead(t) /\ r.post # <<>>
                            /\ Arch(v) = Restored(Arch(t), r)
Replaying(t, v, f) ==
    t.fp = "restore" => \E j \in 1 .. Len(f.traps) :
                            /\ f.traps[j].head = TrapHead(t)
                            /\ f.traps[j].post # <<>> => Arch(v) = Restored(Arch(t), f.traps[j])
TrapOn(t, v, f, g) == Stepped(t, v) /\ FileAfter(t, f, g) /\ Saving(t, v, f, g) /\ Replaying(t, v, f)

\* The process ends.
Stopped == {"exit", "fatal", "assert", "panic", "crash"}
TrapEnds(s, t, u, v, f, g) ==
    /\ s \in Stopped /\ (s = "assert" => t.fp = "save") /\ (v = u \/ (v = t /\ t.fp # "restore"))
    /\ FileAfter(t, f, g)
TrapOutcome(t) ==
    \/ stage' = stage /\ TrapOn(t, th', file, file')
    \/ TrapEnds(stage', t, th, th', file, file')

\* An instruction that does nothing is an execution.
LEMMA ExecutedNothing ==
    ASSUME NEW t \in Running
    PROVE  Executed(t, t)
<1>1. t = t
    OBVIOUS
<1> QED BY DEF Executed, Kin, TextKept

\* While a job is recorded, a trap ends it or adds the record that reproduces its effect.
LEMMA SaveTrapIs ==
    ASSUME file \in Files, file.pos \in 1 .. Len(file.traps) + 1,
           NEW t \in Running, t.fp = "save", NEW h \in ByteValues, save_trap(t, h)
    PROVE  TrapOutcome(t)
<1> DEFINE o == ss_syscall(t, h)
           saved == TrapRecord(t, <<>>, {})
<1>1. Called(t, o)
    BY CallIs
<1>2. TrapHead(t) \in Heads
    BY TrapHeadIs
<1>3. saved \in TrapRecords /\ saved.head = TrapHead(t)
    <2>1. <<>> \in Seq(Passed) /\ Len(<<>>) <= 1 /\ {} \subseteq Changes
        OBVIOUS
    <2> QED BY <1>2, <2>1 DEF TrapRecords, TrapRecord
<1>4. CASE o.end # "on"
    <2>1. file' = [file EXCEPT !.traps = Append(@, saved)] /\ th' = o.t /\ stage' = o.end
        BY <1>4 DEF save_trap
    <2>2. o.t = t /\ o.end \in {"exit", "fatal"}
        BY <1>1, <1>4 DEF Called, CalledWith
    <2> HIDE DEF saved, o
    <2>3. Appended(file, file', saved)
        BY <1>3, <2>1, AppendedIs
    <2>4. FileAfter(t, file, file')
        BY <1>3, <2>3 DEF FileAfter
    <2>5. stage' \in Stopped /\ th' = t
        BY <2>1, <2>2 DEF Stopped
    <2> QED BY <2>4, <2>5 DEF TrapOutcome, TrapEnds
<1>5. CASE o.end = "on" /\ NewBlock(t.mem, o.t.mem)
    <2>1. stage' = "assert" /\ th' = th /\ file' = file
        BY <1>5 DEF save_trap
    <2>2. Moved(file, file')
        BY <2>1 DEF Moved, SameFile
    <2> QED BY <2>1, <2>2 DEF TrapOutcome, TrapEnds, FileAfter, Stopped
<1>6. CASE o.end = "on" /\ ~NewBlock(t.mem, o.t.mem)
    <2> DEFINE u == o.t
               regs == PassedRegs(u)
               diffs == Difference(t.mem, u.mem)
               r == TrapRecord(t, <<regs>>, diffs)
    <2>1. file' = [file EXCEPT !.traps = Append(@, r)] /\ th' = Advance(u) /\ stage' = stage
        BY <1>6 DEF save_trap
    <2>2. /\ Executed(t, u) /\ \A b \in Blocks : t.mem[b] # Absent => u.mem[b] # Absent
          /\ \A q \in Regs \ TrapRegs : u.regs[q] = t.regs[q]
        BY <1>1 DEF Called, CalledWith
    <2> HIDE DEF o, u
    <2>3. u \in Running /\ TextKept(t.mem, u.mem)
        BY <2>2 DEF Executed, Kin
    <2>4. /\ u.regs \in RegisterSets /\ t.regs \in RegisterSets /\ regs \in Passed
          /\ u.mem \in Tables /\ t.mem \in Tables
        <3>1. u.regs \in RegisterSets /\ t.regs \in RegisterSets /\ u.mem \in Tables /\ t.mem \in Tables
            BY <2>3, RegistersOf
        <3>2. 4 \in TrapRegs
            BY DEF Regs, TrapRegs
        <3>3. regs \in Passed
            BY <3>1, <3>2 DEF RegisterSets, TrapRegs, PassedRegs, Passed
        <3> QED BY <3>1, <3>3
    <2>5. diffs \subseteq Changes
        BY <2>3, <2>4, DifferenceIsOutside
    <2>6. Patch(t.mem, diffs) = u.mem
        BY <1>6, <2>2, <2>3, <2>4, PatchRestores DEF u
    <2>7. r = [head |-> TrapHead(t), post |-> <<regs>>, diffs |-> diffs]
        BY DEF TrapRecord
    <2>8. Arch(u) = Patched(Arch(t), r)
        <3>1. r.post[1] = regs /\ r.diffs = diffs
            BY <2>7
        <3> HIDE DEF r, diffs
        <3>2. RestoredRegs(Arch(t), r) = u.regs
            <4>1. u.regs \in [Regs -> Nat] /\ t.regs \in [Regs -> Nat]
                BY <2>4 DEF RegisterSets
            <4>2. \A q \in Regs : u.regs[q] = IF q \in TrapRegs THEN regs[q] ELSE t.regs[q]
                BY <2>2 DEF PassedRegs
            <4>3. RestoredRegs(Arch(t), r) = [q \in Regs |-> IF q \in TrapRegs THEN regs[q] ELSE t.regs[q]]
                BY <3>1, ArchIs DEF RestoredRegs
            <4> HIDE DEF regs
            <4> QED BY <4>1, <4>2, <4>3
        <3>3. Patched(Arch(t), r) = With(Arch(t), u.regs, u.mem)
            BY <2>6, <3>1, <3>2, ArchIs DEF Patched, With
        <3>4. Arch(u) = With(Arch(t), u.regs, u.mem)
            BY <2>2, WithIs DEF Executed
        <3> QED BY <3>3, <3>4
    <2> HIDE DEF regs, diffs, saved, r
    <2>9. r \in TrapRecords /\ r.head = TrapHead(t) /\ r.post # <<>>
        <3>1. <<regs>> \in Seq(Passed) /\ Len(<<regs>>) <= 1 /\ <<regs>> # <<>>
            BY <2>4
        <3> QED BY <1>2, <2>5, <2>7, <3>1 DEF TrapRecords
    <2>10. Appended(file, file', r)
        BY <2>1, <2>9, AppendedIs
    <2>11. Stepped(t, th') /\ Arch(th') = Advance(Arch(u))
        BY <2>1, <2>2, SteppedIs
    <2>12. Arch(th') = Restored(Arch(t), r)
        BY <2>8, <2>11 DEF Restored
    <2>13. FileAfter(t, file, file') /\ Saving(t, th', file, file') /\ Replaying(t, th', file)
        BY <2>9, <2>10, <2>12 DEF FileAfter, Saving, Replaying
    <2> QED BY <2>1, <2>11, <2>13 DEF TrapOutcome, TrapOn
<1> QED BY <1>4, <1>5, <1>6

\* While a job is replayed, a trap has the effect of the record at the position.
LEMMA RestoreTrapIs ==
    ASSUME file \in Files, file.pos \in 1 .. Len(file.traps) + 1,
           NEW t \in Running, t.fp = "restore", restore_trap(t)
    PROVE  TrapOutcome(t)
<1> DEFINE trap == file.traps[file.pos]
           same == file.pos <= Len(file.traps) /\ trap.head = TrapHead(t)
<1>1. file.pos \in Nat /\ Len(file.traps) \in Nat
    BY FilesAre
<1>2. CASE stage' = "panic" /\ th' = th /\ file' = file
    <2>1. Moved(file, file')
        BY <1>2 DEF Moved, SameFile
    <2> QED BY <1>2, <2>1 DEF TrapOutcome, TrapEnds, FileAfter, Stopped
<1>3. CASE ~same
    <2>1. stage' = "panic" /\ th' = th /\ file' = file
        BY <1>1, <1>3 DEF restore_trap
    <2> QED BY <1>2, <2>1
<1>4. CASE same
    <2>1. /\ file' = [file EXCEPT !.pos = @ + 1]
          /\ IF trap.post = <<>>
             THEN \/ th' = Advance(t) /\ stage' = stage
                  \/ stage' = "crash" /\ th' = th
             ELSE th' = Advance(Patched(t, trap)) /\ stage' = stage
        BY <1>1, <1>4 DEF restore_trap
    <2>2. file.pos \in 1 .. Len(file.traps)
        BY <1>1, <1>4
    <2>3. Moved(file, file')
        BY <2>1, <2>2, MovedIs
    <2>4. trap \in TrapRecords
        BY <2>2, FilesAre
    <2>5. FileAfter(t, file, file') /\ Saving(t, th', file, file')
        BY <2>3 DEF FileAfter, Saving
    <2>6. CASE trap.post = <<>> /\ stage' = "crash" /\ th' = th
        BY <2>5, <2>6 DEF TrapOutcome, TrapEnds, Stopped
    <2>7. CASE trap.post = <<>> /\ th' = Advance(t) /\ stage' = stage
        <3>1. Stepped(t, th')
            BY <2>7, ExecutedNothing, SteppedIs
        <3>2. Replaying(t, th', file)
            BY <1>4, <2>2, <2>7 DEF Replaying
        <3> QED BY <2>5, <2>7, <3>1, <3>2 DEF TrapOutcome, TrapOn
    <2>8. CASE trap.post # <<>>
        <3> DEFINE u == Patched(t, trap)
        <3>1. Executed(t, u) /\ Arch(u) = Patched(Arch(t), trap)
            <4> HIDE DEF trap
            <4> QED BY <2>4, <2>8, PatchedIs
        <3>2. th' = Advance(u) /\ stage' = stage
            BY <2>1, <2>8
        <3> HIDE DEF u
        <3>3. Stepped(t, th') /\ Arch(th') = Advance(Arch(u))
            BY <3>1, <3>2, SteppedIs
        <3>4. Arch(th') = Restored(Arch(t), trap)
            BY <3>1, <3>3 DEF Restored
        <3>5. Replaying(t, th', file)
            BY <1>4, <2>2, <3>4 DEF Replaying
        <3> QED BY <2>5, <3>2, <3>3, <3>5 DEF TrapOutcome, TrapOn
    <2> QED BY <2>1, <2>6, <2>7, <2>8
<1> QED BY <1>3, <1>4

\* So in whichever mode the trap is taken.
LEMMA TrapNowIs ==
    ASSUME file \in Files, file.pos \in 1 .. Len(file.traps) + 1,
           NEW t \in Running, NEW h \in HostBytes, TrapNow(t, h)
    PROVE  TrapOutcome(t)
<1>1. h \in ByteValues
    BY PortsAssumption
<1>2. CASE t.fp = "save" /\ save_trap(t, h)
    BY <1>1, <1>2, SaveTrapIs
<1>3. CASE t.fp = "restore" /\ restore_trap(t)
    BY <1>3, RestoreTrapIs
<1>4. CASE /\ t.fp = "none"
           /\ LET o == ss_syscall(t, h) IN
              IF o.end = "on" THEN th' = Advance(o.t) /\ stage' = stage
                              ELSE th' = o.t /\ stage' = o.end
           /\ file' = file
    <2> DEFINE o == ss_syscall(t, h)
               u == o.t
    <2>1. Called(t, o)
        BY <1>1, CallIs
    <2>2. IF o.end = "on" THEN th' = Advance(u) /\ stage' = stage ELSE th' = u /\ stage' = o.end
        BY <1>4
    <2>3. o.end \in {"on", "exit", "fatal"} /\ (o.end # "on" => u = t) /\ Executed(t, u)
        BY <2>1 DEF Called, CalledWith
    <2>4. Moved(file, file')
        BY <1>4 DEF Moved, SameFile
    <2>5. FileAfter(t, file, file') /\ Saving(t, th', file, file') /\ Replaying(t, th', file)
        BY <1>4, <2>4 DEF FileAfter, Saving, Replaying
    <2> HIDE DEF o, u
    <2>6. CASE o.end = "on"
        <3>1. Stepped(t, th')
            BY <2>2, <2>3, <2>6, SteppedIs
        <3> QED BY <2>2, <2>5, <2>6, <3>1 DEF TrapOutcome, TrapOn
    <2>7. CASE o.end # "on"
        <3>1. stage' \in Stopped \ {"assert"} /\ th' = t
            BY <2>2, <2>3, <2>7 DEF Stopped
        <3> QED BY <1>4, <2>5, <3>1 DEF TrapOutcome, TrapEnds
    <2> QED BY <2>6, <2>7
<1> QED BY <1>2, <1>3, <1>4 DEF TrapNow

-----------------------------------------------------------------------------
(* Threads that differ in their bookkeeping                                *)

Alike(t, u) ==
    /\ u \in Running /\ Arch(u) = Arch(t)
    /\ u.ld_text_base = t.ld_text_base /\ u.ld_text_size = t.ld_text_size
    /\ u.ld_prog_entry = t.ld_prog_entry

\* Threads that are alike execute alike.
LEMMA AlikeIs ==
    ASSUME NEW t, NEW u, Alike(t, u)
    PROVE  /\ Inst(u) = Inst(t) /\ u.mem = t.mem /\ u.regs = t.regs /\ u.regs_PC = t.regs_PC
           /\ \A image : Decoded(t, image) => Decoded(u, image)
<1>1. u.mem = t.mem /\ u.regs = t.regs /\ u.regs_PC = t.regs_PC
    BY DEF Alike, Arch
<1>2. Inst(u) = Inst(t)
    BY <1>1 DEF Inst
<1>3. \A image : Decoded(t, image) => Decoded(u, image)
    BY <1>1 DEF Alike, Decoded, IsThreadOf
<1> QED BY <1>1, <1>2, <1>3

\* Threads with the same registers, memory and segments are alike.
LEMMA AlikeFrom ==
    ASSUME NEW t \in Running, NEW u \in Threads, u.regs = t.regs, u.mem = t.mem,
           u.regs_PC = t.regs_PC, u.ld_data_base = t.ld_data_base,
           u.ld_text_base = t.ld_text_base, u.ld_text_size = t.ld_text_size,
           u.ld_prog_entry = t.ld_prog_entry
    PROVE  Alike(t, u)
<1>1. u \in Running
    BY RunningIs
<1>2. Arch(u) = Arch(t)
    BY DEF Arch
<1> QED BY <1>1, <1>2 DEF Alike

Counted(t) == [t EXCEPT !.num_insn = @ + 1]

\* Counting an instruction changes the counter alone.
LEMMA CountedIs ==
    ASSUME NEW t \in Running, NEW u, u = Counted(t)
    PROVE  /\ Alike(t, u) /\ u.num_insn = t.num_insn + 1 /\ u.fp = t.fp
           /\ u.blocked = t.blocked
<1> DEFINE n == t.num_insn + 1
<1>1. t \in Threads /\ n \in Nat
    BY RunningIs DEF Threads
<1>2. u = [t EXCEPT !.num_insn = n]
    BY DEF Counted
<1> HIDE DEF n
<1>3. u \in Threads /\ u.num_insn = n
    BY <1>1, <1>2 DEF Threads
<1>4. /\ u.regs = t.regs /\ u.mem = t.mem /\ u.regs_PC = t.regs_PC /\ u.fp = t.fp
      /\ u.ld_data_base = t.ld_data_base /\ u.ld_text_base = t.ld_text_base
      /\ u.ld_text_size = t.ld_text_size /\ u.ld_prog_entry = t.ld_prog_entry
    BY <1>1, <1>2 DEF Threads
<1>5. u.blocked = t.blocked
    BY <1>1, <1>2 DEF Threads
<1>6. Alike(t, u)
    BY <1>3, <1>4, AlikeFrom
<1> QED BY <1>3, <1>4, <1>5, <1>6 DEF n

AtPC(t) == [t EXCEPT !.arch_PC = t.regs_PC]

\* Taking the core's program counter leaves the counters.
LEMMA AtPCIs ==
    ASSUME NEW t \in Running, NEW u, u = AtPC(t)
    PROVE  /\ Alike(t, u) /\ u.num_insn = t.num_insn /\ u.fp = t.fp
           /\ u.blocked = t.blocked
<1> DEFINE n == t.regs_PC
<1>1. t \in Threads /\ n \in Nat
    BY RunningIs DEF Threads
<1>2. u = [t EXCEPT !.arch_PC = n]
    BY DEF AtPC
<1>3. u \in Threads /\ u.num_insn = t.num_insn
    <2> HIDE DEF n
    <2> QED BY <1>1, <1>2 DEF Threads
<1>4. /\ u.regs = t.regs /\ u.mem = t.mem /\ u.regs_PC = t.regs_PC /\ u.fp = t.fp
      /\ u.ld_data_base = t.ld_data_base /\ u.ld_text_base = t.ld_text_base
      /\ u.ld_text_size = t.ld_text_size /\ u.ld_prog_entry = t.ld_prog_entry
    BY <1>1, <1>2 DEF Threads
<1>5. u.blocked = t.blocked
    BY <1>1, <1>2 DEF Threads
<1>6. Alike(t, u)
    BY <1>3, <1>4, AlikeFrom
<1> QED BY <1>3, <1>4, <1>5, <1>6

InMode(t, mode) == [t EXCEPT !.fp = mode]

\* Changing the mode changes nothing else.
LEMMA InModeIs ==
    ASSUME NEW t \in Running, NEW mode \in Modes, NEW u, u = InMode(t, mode)
    PROVE  /\ Alike(t, u) /\ u.num_insn = t.num_insn /\ u.fp = mode
           /\ u.blocked = t.blocked
<1>1. t \in Threads
    BY RunningIs
<1>2. u = [t EXCEPT !.fp = mode]
    BY DEF InMode
<1>3. u \in Threads /\ u.fp = mode
    BY <1>1, <1>2 DEF Threads
<1>4. /\ u.regs = t.regs /\ u.mem = t.mem /\ u.regs_PC = t.regs_PC /\ u.num_insn = t.num_insn
      /\ u.ld_data_base = t.ld_data_base /\ u.ld_text_base = t.ld_text_base
      /\ u.ld_text_size = t.ld_text_size /\ u.ld_prog_entry = t.ld_prog_entry
    BY <1>1, <1>2 DEF Threads
<1>5. u.blocked = t.blocked
    BY <1>1, <1>2 DEF Threads
<1>6. Alike(t, u)
    BY <1>3, <1>4, AlikeFrom
<1> QED BY <1>3, <1>4, <1>5, <1>6

Blocking(t, b) == [t EXCEPT !.blocked = b]

\* Blocking a thread changes nothing else.
LEMMA BlockingIs ==
    ASSUME NEW t \in Running, NEW b \in BOOLEAN, NEW u, u = Blocking(t, b)
    PROVE  /\ Alike(t, u) /\ u.num_insn = t.num_insn /\ u.fp = t.fp
           /\ u.blocked = b
<1>1. t \in Threads
    BY RunningIs
<1>2. u = [t EXCEPT !.blocked = b]
    BY DEF Blocking
<1>3. u \in Threads
    BY <1>1, <1>2 DEF Threads
<1>4. /\ u.regs = t.regs /\ u.mem = t.mem /\ u.regs_PC = t.regs_PC /\ u.num_insn = t.num_insn
      /\ u.ld_data_base = t.ld_data_base /\ u.ld_text_base = t.ld_text_base
      /\ u.ld_text_size = t.ld_text_size /\ u.ld_prog_entry = t.ld_prog_entry /\ u.fp = t.fp
    BY <1>1, <1>2 DEF Threads
<1>5. u.blocked = b
    BY <1>1, <1>2 DEF Threads
<1>6. Alike(t, u)
    BY <1>3, <1>4, AlikeFrom
<1> QED BY <1>4, <1>5, <1>6

-----------------------------------------------------------------------------
(* The first states                                                        *)

\* What the inputs of a job are.
LEMMA InputsAre ==
    ASSUME input \in Inputs
    PROVE  /\ \A job \in DOMAIN input.jobs : Arguments(input.jobs[job])
           /\ IsRecorded => /\ Arguments(RecArgs)
                            /\ input.recording[1].skip \in 0 .. MaxInsn
           /\ Options(input, DOMAIN input.jobs).CHECKPOINT = NoFile
           /\ \A exists \in {DOMAIN input.jobs, DOMAIN input.jobs \cup {CkptFile}} :
                 Options(input, exists).SKIP_AMT \in 0 .. MaxInsn
BY InputsAssumption DEF IsRecorded, RecArgs

\* The bounds of the run are numbers.
LEMMA BoundsAre == MaxInsn \in Nat /\ MaxOps \in Nat /\ MaxOps >= 1
BY PortsAssumption

\* A new thread has executed nothing and is in no mode.
LEMMA NewStateIs ==
    /\ NewState \in Threads /\ NewState.num_insn = 0 /\ NewState.fp = "none"
    /\ NewState.blocked = FALSE
<1>1. NewState \in Threads
    BY NewStateIsTyped
<1> QED BY <1>1 DEF NewState

\* What a request of a port is.
LEMMA RequestIs ==
    ASSUME NEW n \in Nat, NEW port \in PortNames, NEW addr \in Nat, NEW size \in Nat,
           NEW signed \in BOOLEAN, NEW data \in Seq(ByteValues)
    PROVE  [n |-> n, port |-> port, addr |-> addr, size |-> size, signed |-> signed, data |-> data]
               \in Requests
BY DEF Requests

\* The invariant holds before any job is started.
LEMMA InitInv ==
    ASSUME Init
    PROVE  IInv
<1> USE DEF Init
<1>1. input \in Inputs /\ role \in {"record", "sim"} /\ (role = "record" <=> IsRecorded)
    BY DEF IsRecorded
<1>2. /\ stage \in {"config", "loading"} /\ (stage = "loading" => role = "record")
      /\ th = NewState /\ file = NoCheckpoint /\ vmem = NoVMEM /\ request.n = 0 /\ fetched.pc = -1
    OBVIOUS
<1>3. ASSUME role = "record"
      PROVE  /\ argv = RecArgs /\ Arguments(argv) /\ options.CHECKPOINT = NoFile
             /\ options.SKIP_AMT \in 0 .. MaxInsn /\ stage = "loading"
    <2>1. Arguments(RecArgs) /\ input.recording[1].skip \in 0 .. MaxInsn
        BY <1>1, <1>3, InputsAre
    <2>2. argv = RecArgs /\ stage = "loading"
        BY <1>3 DEF RecArgs
    <2> DEFINE n == input.recording[1].skip
    <2>3. options = [NoOptions EXCEPT !.SKIP_AMT = n]
        BY <1>3
    <2> HIDE DEF n
    <2>4. options.SKIP_AMT = n /\ options.CHECKPOINT = NoFile
        BY <2>3 DEF NoOptions
    <2> QED BY <2>1, <2>2, <2>4 DEF n
<1>4. ASSUME role = "sim"
      PROVE  options.CHECKPOINT = NoFile /\ options.SKIP_AMT \in 0 .. MaxInsn /\ stage = "config"
    <2>1. options = NoOptions /\ stage = "config"
        BY <1>4
    <2> QED BY <2>1, BoundsAre DEF NoOptions
<1>5. options.CHECKPOINT = NoFile /\ options.SKIP_AMT \in 0 .. MaxInsn
    BY <1>1, <1>3, <1>4
<1>6. vmem \in Memories /\ vmem.mem = EmptyTable
    BY EmptyTableIsZero DEF NoVMEM, Memories
<1>7. file.saved = FALSE
    BY DEF NoCheckpoint
<1>8. file \in Files /\ file.pos \in 1 .. Len(file.traps) + 1
    <2>1. <<>> \in Seq(TrapRecords) /\ Len(<<>>) = 0
        OBVIOUS
    <2> QED BY <2>1, NewStateIs DEF NoCheckpoint, Files
<1>9. request \in Requests /\ request.n \in 0 .. MaxOps
    <2> DEFINE e == <<>>
               r == [n |-> 0, port |-> "none", addr |-> 0, size |-> 0, signed |-> FALSE, data |-> e]
    <2>1. e \in Seq(ByteValues) /\ request = r /\ request.n = 0
        OBVIOUS
    <2>2. "none" \in PortNames /\ FALSE \in BOOLEAN /\ 0 \in Nat
        BY DEF PortNames
    <2> HIDE DEF e, Init
    <2>3. r \in Requests
        BY <2>1, <2>2, RequestIs
    <2> HIDE DEF r
    <2> QED BY <2>1, <2>3, BoundsAre
<1>10. value \in [1 .. 4 -> ByteValues]
    BY ZeroIsAByte
<1>11. Typed
    BY <1>1, <1>5, <1>6, <1>8, <1>9, <1>10, NewStateIs, BoundsAre DEF Typed
<1>12. Roles
    BY <1>1, <1>2, <1>3, <1>4, <1>5 DEF Roles
<1>13. Working
    <2>1. stage = "loading" => Arguments(argv)
        BY <1>2, <1>3
    <2>2. th.blocked = FALSE
        BY <1>2, NewStateIs
    <2> QED BY <1>2, <2>1, <2>2 DEF Working, Active
<1>14. Early
    BY <1>2, <1>6 DEF Early
<1>15. LoadedText /\ CopiedText /\ DecodedText /\ RecordingInv
    BY <1>2 DEF LoadedText, CopiedText, DecodedText, RecordingInv
<1>16. FetchedText
    BY <1>2 DEF FetchedText
<1>17. HeadInv /\ RecordedInv
    BY <1>7 DEF HeadInv, RecordedInv
<1>18. ReplayInv
    BY <1>2, NewStateIs DEF ReplayInv
<1> QED BY <1>11, <1>12, <1>13, <1>14, <1>15, <1>16, <1>17, <1>18 DEF IInv

-----------------------------------------------------------------------------
(* Start-up                                                                *)

\* Reading the options keeps the invariant.
LEMMA ReadConfigInv ==
    ASSUME IInv, read_config_from_file
    PROVE  IInv'
<1> USE DEF read_config_from_file
<1>1. /\ stage = "config" /\ role = "sim" /\ fetched.pc = -1 /\ ~th.blocked
      /\ stage' \in {"exit", "fatal", "loading"}
    BY DEF IInv, Roles, Early, Working
<1>2. UNCHANGED <<input, role, th, file, recorded, vmem, request, value, fetched>>
    BY DEF threadVars, portVars
<1>3. options'.SKIP_AMT \in 0 .. MaxInsn /\ (options'.CHECKPOINT # NoFile => file.saved)
    <2>1. input \in Inputs
        BY DEF IInv, Typed
    <2>2. Exists = DOMAIN input.jobs \/ (file.saved /\ Exists = DOMAIN input.jobs \cup {CkptFile})
        BY DEF Exists
    <2>3. options' = Options(input, Exists)
        OBVIOUS
    <2> QED BY <2>1, <2>2, <2>3, InputsAre
<1>4. stage' = "loading" => Arguments(argv')
    <2>1. input \in Inputs
        BY DEF IInv, Typed
    <2>2. stage' = "loading" => JobFile(input) \in DOMAIN input.jobs /\ argv' = input.jobs[JobFile(input)]
        OBVIOUS
    <2> QED BY <2>1, <2>2, InputsAre
<1> USE DEF IInv
<1>5. Typed'
    BY <1>2, <1>3 DEF Typed
<1>6. Roles'
    BY <1>1, <1>2, <1>3 DEF Roles
<1>7. Working'
    BY <1>1, <1>2, <1>4 DEF Working, Active
<1>8. Early'
    BY <1>1, <1>2 DEF Early
<1>9. LoadedText' /\ CopiedText' /\ DecodedText' /\ RecordingInv'
    BY <1>1 DEF LoadedText, CopiedText, DecodedText, RecordingInv
<1>10. FetchedText'
    BY <1>1, <1>2 DEF FetchedText
<1>11. HeadInv'
    BY <1>2 DEF HeadInv, IsRecorded, RecArgs, RecImage
<1>12. RecordedInv' /\ ReplayInv'
    BY <1>2 DEF RecordedInv, ReplayInv
<1> QED BY <1>5, <1>6, <1>7, <1>8, <1>9, <1>10, <1>11, <1>12

\* Constructing a thread keeps the invariant.
LEMMA LoadInv ==
    ASSUME IInv, Load
    PROVE  IInv'
<1>1. /\ stage = "loading" /\ Arguments(argv) /\ ~th.blocked
    BY DEF Load, IInv, Working
<1>2. UNCHANGED <<input, role, options, argv, file, recorded, vmem, request, value, fetched>>
    BY DEF Load, portVars
<1>3. request.n = 0 /\ fetched.pc = -1 /\ vmem.mem = EmptyTable
    BY <1>1 DEF IInv, Early
<1>4. HeadInv' /\ RecordedInv' /\ FetchedText' /\ Early'
    BY <1>2, <1>3 DEF IInv, HeadInv, IsRecorded, RecArgs, RecImage, RecordedInv, FetchedText, Early
<1>5. CASE stage' = "fatal" /\ th' = th
    <2> USE DEF IInv
    <2>1. Typed'
        BY <1>2, <1>5 DEF Typed
    <2>2. Roles' /\ Working'
        BY <1>1, <1>2, <1>5 DEF Roles, IsRecorded, RecArgs, Working, Active
    <2>3. LoadedText' /\ CopiedText' /\ DecodedText' /\ RecordingInv'
        BY <1>5 DEF LoadedText, CopiedText, DecodedText, RecordingInv
    <2>4. ReplayInv'
        BY <1>2, <1>5 DEF ReplayInv
    <2> QED BY <1>4, <2>1, <2>2, <2>3, <2>4
<1>6. CASE /\ ProgramOf(argv) \in DOMAIN Images /\ th' = NewThreadOf(argv)
           /\ stage' = IF th'.fatal THEN "fatal" ELSE IF role = "record" THEN "decoding" ELSE "copying"
    <2>1. Fresh(th', Image, argv)
        BY <1>1, <1>6, NewThreadOfIsFresh DEF Image
    <2>2. th' \in Running /\ th'.num_insn = 0 /\ th'.blocked = FALSE /\ th'.fp = "none"
        BY <2>1 DEF Fresh
    <2>3. th' \in Threads
        BY <2>2, RunningIs
    <2>4. stage' \in {"fatal", "decoding", "copying"} /\ (stage' = "copying" => role # "record")
        BY <1>6
    <2>5. stage' # "fatal" => ~th'.fatal
        BY <1>6
    <2> USE DEF IInv
    <2>6. Typed'
        BY <1>2, <2>2, <2>3, BoundsAre DEF Typed
    <2>7. Roles'
        BY <1>2, <2>4 DEF Roles, IsRecorded, RecArgs, Typed
    <2>8. Working'
        BY <1>1, <1>2, <1>6, <2>2, <2>4 DEF Working, Active, Mode
    <2>9. LoadedText'
        BY <1>2, <2>1, <2>5 DEF LoadedText, Image
    <2>10. CopiedText'
        <3>1. ~(role' = "sim" /\ stage' \in {"decoding", "decoded", "skipping", "core"})
            BY <1>2, <1>6
        <3> QED BY <3>1 DEF CopiedText
    <2>11. DecodedText' /\ RecordingInv'
        BY <2>4 DEF DecodedText, RecordingInv
    <2>12. ReplayInv'
        BY <2>2 DEF ReplayInv
    <2> QED BY <1>4, <2>6, <2>7, <2>8, <2>9, <2>10, <2>11, <2>12
<1> QED BY <1>5, <1>6 DEF Load

\* Copying memory and text segment to the ports keeps the invariant.
LEMMA CopyTextInv ==
    ASSUME IInv, CopyText
    PROVE  IInv'
<1>1. /\ stage = "copying" /\ role = "sim" /\ Fresh(th, Image, argv) /\ ~th.fatal
      /\ ~th.blocked /\ th.fp = "none"
    BY DEF CopyText, IInv, Roles, LoadedText, Fresh
<1>2. UNCHANGED <<input, role, options, argv, th, file, recorded, request, value, fetched>>
    BY DEF CopyText, threadVars, portVars
<1>3. request.n = 0 /\ fetched.pc = -1 /\ vmem.mem = EmptyTable
    BY <1>1 DEF IInv, Early
<1>4. HeadInv' /\ RecordedInv' /\ FetchedText' /\ ReplayInv'
    BY <1>2, <1>3 DEF IInv, HeadInv, IsRecorded, RecArgs, RecImage, RecordedInv, FetchedText, ReplayInv
<1>5. CASE stage' = "crash" /\ vmem' = vmem
    <2> USE DEF IInv
    <2>1. Typed'
        BY <1>2, <1>5 DEF Typed
    <2>2. Roles' /\ Working'
        BY <1>1, <1>2, <1>5 DEF Roles, IsRecorded, RecArgs, Working, Active
    <2>3. LoadedText' /\ CopiedText' /\ DecodedText' /\ RecordingInv'
        BY <1>5 DEF LoadedText, CopiedText, DecodedText, RecordingInv
    <2>4. Early'
        BY <1>2, <1>3, <1>5 DEF Early
    <2> QED BY <1>4, <2>1, <2>2, <2>3, <2>4
<1>6. CASE /\ stage' = "decoding"
           /\ vmem' = [text |-> copy_mem(EmptyTable, th.mem), mem |-> EmptyTable,
                       base |-> th.ld_text_base, size |-> th.ld_text_size]
    <2>1. /\ th \in Running /\ IsThreadOf(th, Image)
          /\ \A x \in MemAddrs : x < DATA_BASE => ByteAt(th.mem, x) = ImageByte(Image, x)
        BY <1>1 DEF Fresh
    <2>2. th \in Threads /\ th.mem \in Tables
        BY <2>1, RegistersOf
    <2>3. copy_mem(EmptyTable, th.mem) = th.mem
        BY <2>2, EmptyTableIsZero, CopyIsMaster
    <2>4. /\ vmem'.text = th.mem /\ vmem'.mem = EmptyTable
          /\ vmem'.base = th.ld_text_base /\ vmem'.size = th.ld_text_size
        BY <1>6, <2>3
    <2>5. vmem' \in Memories
        BY <1>6, <2>2, <2>3, EmptyTableIsZero DEF Memories, Threads
    <2>6. Copied(vmem', Image)
        BY <2>1, <2>4 DEF Copied, IsThreadOf
    <2> USE DEF IInv
    <2>7. Typed'
        BY <1>2, <2>5 DEF Typed
    <2>8. Roles'
        BY <1>1, <1>2, <1>6 DEF Roles
    <2>9. Working'
        BY <1>1, <1>2, <1>6, <2>1 DEF Working, Active, Mode
    <2>10. Early'
        BY <1>2, <1>3, <2>4 DEF Early
    <2>11. LoadedText' /\ CopiedText'
        BY <1>1, <1>2, <2>6 DEF LoadedText, CopiedText, Image
    <2>12. DecodedText' /\ RecordingInv'
        BY <1>6 DEF DecodedText, RecordingInv
    <2> QED BY <1>4, <2>7, <2>8, <2>9, <2>10, <2>11, <2>12
<1> QED BY <1>5, <1>6 DEF CopyText

\* The arguments are above the text.
LEMMA InPlaceKept ==
    ASSUME NEW m, NEW n, NEW args, InPlace(m, args),
           \A x \in MemAddrs : x >= DATA_BASE => ByteAt(n, x) = ByteAt(m, x)
    PROVE  InPlace(n, args)
<1>1. ASSUME NEW a, NEW w, Holds(m, a, w)
      PROVE  Holds(n, a, w)
    <2> SUFFICES ASSUME NEW k \in 1 .. Len(w)
                 PROVE  /\ a + k - 1 \in DATA_BASE .. STACK_BASE - 1
                        /\ a + k - 1 \in MemAddrs
                        /\ ByteAt(n, a + k - 1) = w[k]
        BY DEF Holds
    <2> DEFINE x == a + k - 1
    <2>1. x \in DATA_BASE .. STACK_BASE - 1 /\ x \in MemAddrs /\ ByteAt(m, x) = w[k]
        BY <1>1 DEF Holds
    <2> HIDE DEF x
    <2>2. x >= DATA_BASE
        BY <2>1
    <2>3. ByteAt(n, x) = w[k]
        BY <2>1, <2>2
    <2> QED BY <2>1, <2>3 DEF x
<1> HIDE DEF Holds
<1>2. \A a, w : Holds(m, a, w) => Holds(n, a, w)
    BY <1>1
<1>3. \A i \in 1 .. Len(args) :
          \E p \in Nat : /\ Holds(n, ArgcAddr + 4 * i, WordOf(p))
                         /\ Holds(n, p, Terminated(args[i]))
    <2> TAKE i \in 1 .. Len(args)
    <2>1. PICK p \in Nat : /\ Holds(m, ArgcAddr + 4 * i, WordOf(p))
                           /\ Holds(m, p, Terminated(args[i]))
        BY DEF InPlace
    <2> QED BY <1>2, <2>1
<1> QED BY <1>2, <1>3 DEF InPlace

DecodedFresh(u, image, args) ==
    /\ u \in Running /\ ReadyThread(u, image, args)
    /\ u.num_insn = 0 /\ u.fp = "none" /\ u.blocked = FALSE

\* A decoded thread is a fresh one with its table.
LEMMA DecodeFresh ==
    ASSUME NEW image, WellFormed(image), NEW args, NEW t, Fresh(t, image, args), ~t.fatal, CanDecode(t),
           NEW u, u = decode(t)
    PROVE  DecodedFresh(u, image, args)
<1>1. /\ t \in Running /\ t \in Segmented /\ t \in Threads /\ IsThreadOf(t, image)
      /\ t.regs[29] = ArgcAddr /\ t.blocked = FALSE /\ t.fp = "none"
      /\ \A x \in MemAddrs : x < DATA_BASE => ByteAt(t.mem, x) = ImageByte(image, x)
      /\ InPlace(t.mem, args)
    BY DEF Fresh, Running, Segmented
<1>2. DecodedFrom(t, u, image)
    BY <1>1, DecodeIs
<1>3. /\ u \in Segmented
      /\ \A x \in MemAddrs : ByteAt(u.mem, x) = IF x \in PCsOf(image) THEN mask2op[ByteAt(t.mem, x)]
                                                                     ELSE ByteAt(t.mem, x)
    BY <1>2 DEF DecodedFrom
<1> DEFINE e == t.ld_prog_entry
<1>4. u = [t EXCEPT !.mem = u.mem, !.num_insn = 0, !.regs_PC = e, !.arch_PC = e]
    BY <1>2 DEF DecodedFrom
<1>5. e \in Nat /\ e = image.entry
    BY <1>1 DEF IsThreadOf, Threads
<1> HIDE DEF e
<1>6. /\ u.regs = t.regs /\ u.regs_PC = e /\ u.num_insn = 0 /\ u.fp = t.fp
      /\ u.ld_text_base = t.ld_text_base /\ u.ld_text_size = t.ld_text_size
      /\ u.ld_prog_entry = t.ld_prog_entry
    BY <1>1, <1>4 DEF Threads
<1>7. u.blocked = t.blocked
    BY <1>1, <1>4 DEF Threads
<1>8. u \in Running
    <2>1. e % INST_SIZE = 0
        BY <1>5, EntryOf
    <2>2. u \in Threads /\ u.ld_data_base = DATA_BASE
        BY <1>3 DEF Segmented
    <2>3. t.regs[4] \in Pointers
        BY <1>1, RunningIs
    <2> QED BY <1>6, <2>1, <2>2, <2>3, RunningIs
<1>9. ASSUME NEW x \in MemAddrs, x >= TEXT_BASE, x < DATA_BASE
      PROVE  ByteAt(u.mem, x) = DecodedByte(image, x)
    BY <1>1, <1>3, <1>9 DEF DecodedByte
<1>10. Decoded(u, image)
    BY <1>1, <1>6, <1>9 DEF Decoded, IsThreadOf
<1>11. ASSUME NEW x \in MemAddrs, x >= DATA_BASE
       PROVE  ByteAt(u.mem, x) = ByteAt(t.mem, x)
    <2>1. x \notin PCsOf(image)
        BY <1>11, PCsAreInText, Segments
    <2> QED BY <1>3, <2>1
<1>12. InPlace(u.mem, args)
    BY <1>1, <1>11, InPlaceKept
<1> QED BY <1>1, <1>6, <1>7, <1>8, <1>10, <1>12 DEF DecodedFresh, ReadyThread

\* Decoding keeps the invariant.
LEMMA DecodeInv ==
    ASSUME IInv, Decode
    PROVE  IInv'
<1>1. /\ stage = "decoding" /\ Fresh(th, Image, argv) /\ ~th.fatal
      /\ ~th.blocked /\ th.fp = "none" /\ ProgramOf(argv) \in DOMAIN Images /\ Arguments(argv)
    BY DEF Decode, IInv, LoadedText, Fresh, Working, Active
<1>2. UNCHANGED <<input, role, options, argv, file, recorded, vmem, request, value, fetched>>
    BY DEF Decode, portVars
<1>3. request.n = 0 /\ fetched.pc = -1 /\ vmem.mem = EmptyTable
    BY <1>1 DEF IInv, Early
<1>4. HeadInv' /\ RecordedInv' /\ FetchedText' /\ Early'
    BY <1>2, <1>3 DEF IInv, HeadInv, IsRecorded, RecArgs, RecImage, RecordedInv, FetchedText, Early
<1>5. CASE stage' \in {"fatal", "crash"} /\ th' = th
    <2> USE DEF IInv
    <2>1. Typed'
        BY <1>2, <1>5 DEF Typed
    <2>2. Roles' /\ Working'
        BY <1>1, <1>2, <1>5 DEF Roles, IsRecorded, RecArgs, Working, Active
    <2>3. LoadedText' /\ CopiedText' /\ DecodedText' /\ RecordingInv'
        BY <1>5 DEF LoadedText, CopiedText, DecodedText, RecordingInv
    <2>4. ReplayInv'
        BY <1>2, <1>5 DEF ReplayInv
    <2> QED BY <1>4, <2>1, <2>2, <2>3, <2>4
<1>6. CASE CanDecode(th) /\ th' = decode(th) /\ stage' = "decoded"
    <2>1. WellFormed(Image)
        BY <1>1, ImagesAssumption DEF Image
    <2>2. DecodedFresh(th', Image, argv)
        BY <1>1, <1>6, <2>1, DecodeFresh
    <2>3. /\ th' \in Running /\ ReadyThread(th', Image, argv)
          /\ th'.num_insn = 0 /\ th'.fp = "none" /\ th'.blocked = FALSE
        BY <2>2 DEF DecodedFresh
    <2>4. th' \in Threads
        BY <2>3, RunningIs
    <2> USE DEF IInv
    <2>5. Typed'
        BY <1>2, <2>3, <2>4, BoundsAre DEF Typed
    <2>6. Roles'
        BY <1>2, <1>6 DEF Roles, IsRecorded, RecArgs
    <2>7. Working'
        BY <1>1, <1>2, <1>6, <2>3 DEF Working, Active, Mode
    <2>8. LoadedText' /\ RecordingInv'
        BY <1>6 DEF LoadedText, RecordingInv
    <2>9. CopiedText'
        BY <1>1, <1>2 DEF CopiedText, Image
    <2>10. DecodedText'
        BY <1>2, <1>6, <2>3 DEF DecodedText, Image
    <2>11. ReplayInv'
        BY <2>3 DEF ReplayInv
    <2> QED BY <1>4, <2>5, <2>6, <2>7, <2>8, <2>9, <2>10, <2>11
<1> QED BY <1>5, <1>6 DEF Decode

RestoredFrom(head, table) == [head EXCEPT !.mem = copy_mem(table, @), !.fp = "restore"]

\* A thread restored from a checkpoint is the saved one, in the mode that replays.
LEMMA RestoredIs ==
    ASSUME NEW head \in Running, NEW table \in Tables, NEW u, u = RestoredFrom(head, table)
    PROVE  /\ Alike(head, u) /\ u.num_insn = head.num_insn /\ u.fp = "restore"
           /\ u.blocked = head.blocked
<1> DEFINE m == head.mem
<1>1. head \in Threads /\ m \in Tables
    BY RegistersOf
<1>2. copy_mem(table, m) = m
    <2> HIDE DEF m
    <2> QED BY <1>1, CopyIsMaster
<1>3. u = [head EXCEPT !.mem = m, !.fp = "restore"]
    BY <1>2 DEF RestoredFrom
<1>4. u = InMode(head, "restore")
    BY <1>1, <1>3 DEF InMode, Threads
<1> QED BY <1>4, InModeIs DEF Modes

\* Restoring a checkpoint keeps the invariant.
LEMMA RestoreInv ==
    ASSUME IInv, Restore
    PROVE  IInv'
<1>1. /\ stage = "decoded" /\ ReadyThread(th, Image, argv) /\ th \in Running /\ th \in Threads
      /\ ~th.blocked /\ th.fp = "none" /\ ProgramOf(argv) \in DOMAIN Images /\ Arguments(argv)
    BY RunningIs DEF Restore, IInv, DecodedText, Working, Active, Mode
<1>2. /\ UNCHANGED <<input, role, options, argv, file, recorded, vmem, request, value, fetched>>
      /\ stage' \in {"assert", "skipping"}
    BY DEF Restore, portVars
<1>3. request.n = 0 /\ fetched.pc = -1 /\ vmem.mem = EmptyTable
    BY <1>1 DEF IInv, Early
<1>4. HeadInv' /\ RecordedInv' /\ FetchedText' /\ Early'
    BY <1>1, <1>2, <1>3 DEF IInv, HeadInv, IsRecorded, RecArgs, RecImage, RecordedInv, FetchedText, Early
<1>5. LoadedText' /\ RecordingInv' /\ CopiedText'
    BY <1>1, <1>2 DEF IInv, LoadedText, RecordingInv, CopiedText, Image
<1>6. Roles'
    BY <1>2 DEF IInv, Roles, IsRecorded, RecArgs
<1>7. CASE options.CHECKPOINT = NoFile
    <2>1. th' = th
        BY <1>7 DEF Restore
    <2> USE DEF IInv
    <2>2. Typed'
        BY <1>2, <2>1 DEF Typed
    <2>3. Working'
        BY <1>1, <1>2, <1>7, <2>1 DEF Working, Active, Mode
    <2>4. DecodedText'
        BY <1>1, <1>2, <1>7, <2>1 DEF DecodedText, ReadyThread, TextImage, Image
    <2>5. ReplayInv'
        BY <1>1, <2>1 DEF ReplayInv
    <2> QED BY <1>4, <1>5, <1>6, <2>2, <2>3, <2>4, <2>5
<1>8. CASE options.CHECKPOINT # NoFile
    <2>1. file.saved /\ role = "sim"
        BY <1>8 DEF IInv, Roles, Typed
    <2>2. SavedHead(file.head, RecImage) /\ IsRecorded
        BY <2>1 DEF IInv, HeadInv
    <2> DEFINE head == file.head
    <2>3. /\ head \in Running /\ head.num_insn \in 0 .. MaxInsn
          /\ head.blocked = FALSE /\ Decoded(head, RecImage)
        BY <2>2 DEF SavedHead
    <2>4. th' = RestoredFrom(head, th.mem)
        BY <1>8 DEF Restore, restore_checkpoint, RestoredFrom
    <2>5. th.mem \in Tables
        BY <1>1, RegistersOf
    <2> HIDE DEF head
    <2>6. /\ Alike(head, th') /\ th'.num_insn = head.num_insn /\ th'.fp = "restore"
          /\ th'.blocked = FALSE
        BY <2>3, <2>4, <2>5, RestoredIs
    <2>7. th' \in Running /\ th' \in Threads /\ Decoded(th', RecImage) /\ Arch(th') = Arch(head)
        BY <2>3, <2>6, AlikeIs, RunningIs DEF Alike
    <2>8. PICK last \in Nat : History(file, recorded, last)
        BY <2>1 DEF IInv, RecordedInv
    <2>9. recorded[head.num_insn] = Arch(head) /\ head.num_insn \in Nat
        BY <2>3, <2>8, BoundsAre DEF History, head
    <2>10. Follows(th', file, recorded)
        BY <2>1, <2>6, <2>7, <2>9 DEF Follows, head
    <2> USE DEF IInv
    <2>11. Typed'
        BY <1>2, <2>3, <2>6, <2>7 DEF Typed
    <2>12. Working'
        BY <1>1, <1>2, <1>8, <2>6, <2>7 DEF Working, Active, Mode
    <2>13. DecodedText'
        BY <1>2, <1>8, <2>7 DEF DecodedText, TextImage, RecImage, RecArgs
    <2>14. ReplayInv'
        BY <1>2, <2>1, <2>10 DEF ReplayInv
    <2> QED BY <1>4, <1>5, <1>6, <2>11, <2>12, <2>13, <2>14
<1> QED BY <1>7, <1>8

\* The skip leaves the thread as it is but for the committed pc.
LEMMA SkippedIs ==
    ASSUME th \in Running, NEW u, u = Skipped
    PROVE  /\ Alike(th, u) /\ u.num_insn = th.num_insn /\ u.fp = th.fp
           /\ u.blocked = th.blocked
<1>1. CASE u = th
    BY <1>1 DEF Alike
<1>2. CASE u = AtPC(th)
    BY <1>2, AtPCIs
<1> QED BY <1>1, <1>2 DEF Skipped, AtPC

\* The set-up routine is below the end of the first block.
SetUp(m, n) ==
    /\ n \in Tables
    /\ \A x \in MemAddrs : x >= BLOCK_SIZE => ByteAt(n, x) = ByteAt(m, x)

Joined(a, b) == a \o b
WordOfLength(s, n) == s \in Seq(ByteValues) /\ Len(s) = n

\* Words join to one as long as both.
LEMMA Concatenated ==
    ASSUME NEW n \in Nat, NEW k \in Nat, NEW a, NEW b, WordOfLength(a, n), WordOfLength(b, k),
           NEW s, s = Joined(a, b)
    PROVE  WordOfLength(s, n + k)
<1>1. a \in Seq(ByteValues) /\ b \in Seq(ByteValues) /\ Len(a) = n /\ Len(b) = k
    BY DEF WordOfLength
<1>2. a \o b \in Seq(ByteValues)
    BY <1>1
<1>3. Len(a \o b) = Len(a) + Len(b)
    BY <1>1
<1> QED BY <1>1, <1>2, <1>3 DEF Joined, WordOfLength

\* The routine that is run first lies before the text.
LEMMA SetUpIs ==
    ASSUME NEW t \in Running, NEW m \in Tables, NEW n, n = SetUpRoutine(t, m)
    PROVE  SetUp(m, n)
<1> DEFINE v == WordOf(t.regs[2])
           w == WordOf(t.regs[4])
           x == WordOf(t.regs[29])
           y == WordOf(t.arch_PC)
           s == v \o w \o x \o y
<1>1. t.regs[2] \in Nat /\ t.regs[4] \in Nat /\ t.regs[29] \in Nat /\ t.arch_PC \in Nat
    BY RegistersOf DEF Threads, Regs
<1>2. /\ v \in Seq(ByteValues) /\ w \in Seq(ByteValues) /\ x \in Seq(ByteValues) /\ y \in Seq(ByteValues)
      /\ Len(v) = 4 /\ Len(w) = 4 /\ Len(x) = 4 /\ Len(y) = 4
    BY <1>1, WordIsTyped
<1>3. n = WriteBytes(m, 0, s)
    BY DEF SetUpRoutine, getArchRegValue, getArchPC
<1> HIDE DEF v, w, x, y
<1>4. s \in Seq(ByteValues) /\ Len(s) = 16
    <2> DEFINE a == Joined(v, w)
               b == Joined(a, x)
               c == Joined(b, y)
    <2>1. WordOfLength(v, 4) /\ WordOfLength(w, 4) /\ WordOfLength(x, 4) /\ WordOfLength(y, 4)
        BY <1>2 DEF WordOfLength
    <2>2. s = c
        BY DEF Joined
    <2> HIDE DEF a, b, c
    <2>3. WordOfLength(a, 4 + 4)
        BY <2>1, Concatenated DEF a
    <2>4. WordOfLength(b, 4 + 4 + 4)
        BY <2>1, <2>3, Concatenated DEF b
    <2>5. WordOfLength(c, 4 + 4 + 4 + 4)
        BY <2>1, <2>4, Concatenated DEF c
    <2> HIDE DEF s
    <2> QED BY <2>2, <2>5 DEF WordOfLength
<1> HIDE DEF s
<1>5. Written(m, n, 0, s)
    BY <1>3, <1>4, WriteBytesWrites
<1>6. ASSUME NEW z \in MemAddrs, z >= BLOCK_SIZE
      PROVE  z \notin 0 .. 0 + Len(s) - 1
    BY <1>4, <1>6, AddressesAreNumbers, Sizes
<1> QED BY <1>5, <1>6 DEF Written, SetUp

CopiedFrom(t, v, u, r, q) ==
    /\ u \in Memories /\ u.text = v.text /\ u.base = v.base /\ u.size = v.size
    /\ \A x \in MemAddrs : x >= BLOCK_SIZE => ByteAt(u.mem, x) = ByteAt(t.mem, x)
    /\ q \in Requests /\ q.n = r.n + 1 /\ q.port = "copy"

\* The ports' memory becomes that of the thread.
LEMMA CopyFromIs ==
    ASSUME Typed, NEW t \in Running, CopyFrom(t)
    PROVE  CopiedFrom(t, vmem, vmem', request, request') /\ value' = value /\ fetched' = fetched
<1> DEFINE m == vmem.mem
           n == copy_mem(m, t.mem)
           s == SetUpRoutine(t, n)
<1>1. vmem \in Memories /\ m \in Tables /\ t.mem \in Tables /\ request \in Requests
    BY RegistersOf DEF Typed, Memories
<1>2. n = t.mem
    <2> HIDE DEF m
    <2> QED BY <1>1, CopyIsMaster
<1>3. vmem' = [vmem EXCEPT !.mem = s]
    BY DEF CopyFrom
<1> HIDE DEF n
<1>4. SetUp(n, s)
    <2> HIDE DEF s
    <2>1. s = SetUpRoutine(t, n)
        BY DEF s
    <2> QED BY <1>1, <1>2, <2>1, SetUpIs
<1> HIDE DEF s
<1>5. /\ vmem' \in Memories /\ vmem'.text = vmem.text /\ vmem'.base = vmem.base
      /\ vmem'.size = vmem.size /\ vmem'.mem = s
    BY <1>1, <1>3, <1>4 DEF Memories, SetUp
<1>6. \A x \in MemAddrs : x >= BLOCK_SIZE => ByteAt(vmem'.mem, x) = ByteAt(t.mem, x)
    BY <1>2, <1>4, <1>5 DEF SetUp
<1> DEFINE k == request.n + 1
<1>7. request' = [request EXCEPT !.n = k, !.port = "copy"]
    BY DEF CopyFrom
<1>8. k \in Nat /\ "copy" \in PortNames
    BY <1>1 DEF Requests, PortNames
<1> HIDE DEF k
<1>9. request' \in Requests
    BY <1>1, <1>7, <1>8 DEF Requests
<1>10. request'.n = k /\ request'.port = "copy"
    BY <1>1, <1>7 DEF Requests
<1> QED BY <1>5, <1>6, <1>9, <1>10 DEF CopiedFrom, CopyFrom, k

\* Handing the thread to the core keeps the invariant.
LEMMA StartCoreInv ==
    ASSUME IInv, StartCore
    PROVE  IInv'
<1>1. /\ stage = "skipping" /\ role = "sim" /\ th \in Running /\ th.fp = Mode
      /\ ~th.blocked /\ ProgramOf(argv) \in DOMAIN Images /\ Arguments(argv)
      /\ th.num_insn \in 0 .. MaxInsn /\ Decoded(th, TextImage) /\ Copied(vmem, Image)
    BY DEF StartCore, IInv, Working, Active, Typed, DecodedText, CopiedText
<1>2. /\ UNCHANGED <<input, role, options, argv, file, recorded>>
      /\ stage' = "core" /\ th' = Skipped /\ CopyFrom(Skipped)
    BY DEF StartCore
<1>3. request.n = 0 /\ fetched.pc = -1
    BY <1>1 DEF IInv, Early
<1> DEFINE u == Skipped
<1>4. /\ Alike(th, u) /\ u.num_insn = th.num_insn /\ u.fp = th.fp
      /\ u.blocked = th.blocked
    <2> HIDE DEF u
    <2>1. u = Skipped
        BY DEF u
    <2> QED BY <1>1, <2>1, SkippedIs
<1>5. u \in Running /\ u \in Threads /\ Arch(u) = Arch(th) /\ Decoded(u, TextImage)
    BY <1>1, <1>4, AlikeIs, RunningIs DEF Alike
<1>6. CopiedFrom(u, vmem, vmem', request, request') /\ value' = value /\ fetched' = fetched
    BY <1>2, <1>5, CopyFromIs DEF IInv
<1> HIDE DEF u
<1>7. th' = u
    BY <1>2 DEF u
<1> USE DEF IInv
<1>8. Typed'
    <2>1. vmem' \in Memories /\ request' \in Requests /\ request'.n = 1
        BY <1>3, <1>6 DEF CopiedFrom
    <2> QED BY <1>1, <1>2, <1>4, <1>5, <1>6, <1>7, <2>1, BoundsAre DEF Typed
<1>9. Roles'
    BY <1>1, <1>2 DEF Roles
<1>10. Working'
    BY <1>1, <1>2, <1>4, <1>5, <1>7 DEF Working, Active, Mode
<1>11. Early' /\ LoadedText' /\ RecordingInv'
    BY <1>1, <1>2 DEF Early, LoadedText, RecordingInv
<1>12. CopiedText'
    BY <1>1, <1>2, <1>6 DEF CopiedText, CopiedFrom, Copied, Image
<1>13. DecodedText'
    BY <1>2, <1>5, <1>7 DEF DecodedText, TextImage, Image, RecImage, RecArgs
<1>14. FetchedText'
    BY <1>3, <1>6 DEF FetchedText
<1>15. HeadInv' /\ RecordedInv'
    BY <1>2 DEF HeadInv, IsRecorded, RecArgs, RecImage, RecordedInv
<1>16. ReplayInv'
    BY <1>1, <1>2, <1>4, <1>5, <1>7 DEF ReplayInv, Follows
<1> QED BY <1>8, <1>9, <1>10, <1>11, <1>12, <1>13, <1>14, <1>15, <1>16

-----------------------------------------------------------------------------
(* The recording process                                                   *)

\* A recording starts at the state that is saved.
LEMMA HistoryStarts ==
    ASSUME NEW head \in Running, NEW f, f = [saved |-> TRUE, head |-> head, traps |-> <<>>, pos |-> 1],
           NEW states, states = [n \in {head.num_insn} |-> Arch(head)]
    PROVE  History(f, states, head.num_insn)
<1> DEFINE n == head.num_insn
<1>1. n \in Nat
    BY RunningIs DEF Threads
<1>2. f.head = head /\ f.traps = <<>> /\ Len(f.traps) = 0
    OBVIOUS
<1> HIDE DEF n
<1>3. DOMAIN states = n .. n /\ states[n] = Arch(head)
    BY <1>1 DEF n
<1>4. n .. n - 1 = {} /\ 1 .. 0 = {}
    BY <1>1
<1>5. Apart(f.traps)
    BY <1>2, <1>4 DEF Apart
<1> QED BY <1>1, <1>2, <1>3, <1>4, <1>5 DEF History, n

\* Saving a checkpoint keeps the invariant.
LEMMA SaveInv ==
    ASSUME IInv, save_checkpoint
    PROVE  IInv'
<1>1. /\ stage = "skipping" /\ role = "record" /\ th \in Running /\ th.fp = "none"
      /\ th.blocked = FALSE /\ ProgramOf(argv) \in DOMAIN Images /\ Arguments(argv)
      /\ th.num_insn \in 0 .. MaxInsn /\ Decoded(th, RecImage)
      /\ IsRecorded /\ argv = RecArgs /\ options.CHECKPOINT = NoFile
    <2>1. stage = "skipping" /\ role = "record"
        BY DEF save_checkpoint
    <2>2. IsRecorded /\ argv = RecArgs /\ options.CHECKPOINT = NoFile
        BY <2>1 DEF IInv, Roles
    <2>3. Decoded(th, RecImage)
        BY <2>1, <2>2 DEF IInv, DecodedText, TextImage, Image, RecImage
    <2>4. th \in Threads
        BY DEF IInv, Typed
    <2>5. th.blocked = FALSE
        BY <2>1, <2>4 DEF IInv, Working, Threads
    <2> QED BY <2>1, <2>2, <2>3, <2>5 DEF IInv, Working, Active, Mode, Typed
<1>2. /\ UNCHANGED <<input, role, options, argv, vmem, request, value, fetched>>
      /\ stage' = "recording" /\ th' = InMode(Skipped, "save")
      /\ file' = [saved |-> TRUE, head |-> Skipped, traps |-> <<>>, pos |-> 1]
      /\ recorded' = [n \in {th.num_insn} |-> Arch(th)]
    BY DEF save_checkpoint, InMode, portVars
<1>3. request.n = 0 /\ fetched.pc = -1 /\ vmem.mem = EmptyTable
    BY <1>1 DEF IInv, Early
<1> DEFINE u == Skipped
<1>4. /\ Alike(th, u) /\ u.num_insn = th.num_insn /\ u.fp = th.fp
      /\ u.blocked = th.blocked
    <2> HIDE DEF u
    <2>1. u = Skipped
        BY DEF u
    <2> QED BY <1>1, <2>1, SkippedIs
<1>5. u \in Running /\ u \in Threads /\ Arch(u) = Arch(th) /\ Decoded(u, RecImage)
    BY <1>1, <1>4, AlikeIs, RunningIs DEF Alike
<1> HIDE DEF u
<1>6. /\ th' = InMode(u, "save") /\ file' = [saved |-> TRUE, head |-> u, traps |-> <<>>, pos |-> 1]
      /\ recorded' = [n \in {u.num_insn} |-> Arch(u)]
    BY <1>2, <1>4, <1>5 DEF u
<1>7. /\ Alike(u, th') /\ th'.num_insn = u.num_insn /\ th'.fp = "save"
      /\ th'.blocked = u.blocked
    BY <1>5, <1>6, InModeIs DEF Modes
<1>8. th' \in Running /\ th' \in Threads /\ Arch(th') = Arch(u) /\ Decoded(th', RecImage)
    BY <1>5, <1>7, AlikeIs, RunningIs DEF Alike
<1>9. History(file', recorded', u.num_insn)
    BY <1>5, <1>6, HistoryStarts
<1>10. /\ file'.saved = TRUE /\ file'.head = u /\ file'.traps = <<>> /\ file'.pos = 1
       /\ u.num_insn \in Nat /\ recorded'[u.num_insn] = Arch(u)
    BY <1>5, <1>6 DEF Threads
<1>11. file' \in Files
    <2>1. <<>> \in Seq(TrapRecords) /\ TRUE \in BOOLEAN
        OBVIOUS
    <2> QED BY <1>5, <1>6, <2>1 DEF Files
<1> USE DEF IInv
<1>12. Typed'
    <2>1. Len(file'.traps) = 0
        BY <1>10
    <2> QED BY <1>1, <1>2, <1>4, <1>7, <1>8, <1>10, <1>11, <2>1 DEF Typed
<1>13. Roles'
    BY <1>1, <1>2, <1>10 DEF Roles, IsRecorded, RecArgs
<1>14. Working'
    BY <1>1, <1>2, <1>4, <1>7, <1>8 DEF Working, Active, Mode
<1>15. Early'
    BY <1>2, <1>3 DEF Early
<1>16. LoadedText' /\ CopiedText'
    BY <1>2 DEF LoadedText, CopiedText
<1>17. FetchedText'
    BY <1>2, <1>3 DEF FetchedText
<1>18. DecodedText'
    <2>1. TextImage' = RecImage
        BY <1>1, <1>2 DEF TextImage, Image, RecImage
    <2> QED BY <1>2, <1>8, <2>1 DEF DecodedText
<1>19. HeadInv'
    <2>1. SavedHead(u, RecImage)
        BY <1>1, <1>4, <1>5 DEF SavedHead
    <2>2. IsRecorded' /\ RecArgs' = RecArgs /\ RecImage' = RecImage
        BY <1>1, <1>2 DEF IsRecorded, RecArgs, RecImage
    <2>3. ProgramOf(RecArgs') \in DOMAIN Images
        BY <1>1, <2>2
    <2> QED BY <1>10, <2>1, <2>2, <2>3 DEF HeadInv
<1>20. RecordedInv'
    BY <1>9, <1>10 DEF RecordedInv
<1>21. RecordingInv'
    <2>1. 1 .. Len(file'.traps) = {}
        BY <1>10
    <2> QED BY <1>7, <1>8, <1>9, <1>10, <2>1 DEF RecordingInv
<1>22. ReplayInv'
    BY <1>7 DEF ReplayInv
<1> QED BY <1>12, <1>13, <1>14, <1>15, <1>16, <1>17, <1>18, <1>19, <1>20, <1>21, <1>22

\* Ending a recording keeps the invariant.
LEMMA RecordStopInv ==
    ASSUME IInv, RecordStop
    PROVE  IInv'
<1>1. /\ role = "record" /\ role' = "sim" /\ stage' = "config" /\ th' = NewState
      /\ UNCHANGED <<input, options, argv, file, recorded, vmem, request, value, fetched>>
    BY DEF RecordStop, portVars
<1>2. request.n = 0 /\ fetched.pc = -1 /\ vmem.mem = EmptyTable /\ options.CHECKPOINT = NoFile
    BY <1>1 DEF IInv, Early, Roles
<1> USE DEF IInv
<1>3. Typed'
    BY <1>1, NewStateIs, BoundsAre DEF Typed
<1>4. Roles'
    BY <1>1, <1>2 DEF Roles
<1>5. Working'
    BY <1>1, NewStateIs DEF Working, Active
<1>6. Early'
    BY <1>1, <1>2 DEF Early
<1>7. LoadedText' /\ CopiedText' /\ DecodedText' /\ RecordingInv'
    BY <1>1 DEF LoadedText, CopiedText, DecodedText, RecordingInv
<1>8. FetchedText'
    BY <1>1, <1>2 DEF FetchedText
<1>9. HeadInv' /\ RecordedInv'
    BY <1>1 DEF HeadInv, IsRecorded, RecArgs, RecImage, RecordedInv
<1>10. ReplayInv'
    BY <1>1, NewStateIs DEF ReplayInv
<1> QED BY <1>3, <1>4, <1>5, <1>6, <1>7, <1>8, <1>9, <1>10

-----------------------------------------------------------------------------
(* Instructions                                                            *)

\* An instruction executed, or served as a trap; t has been counted.
InsnOn(t, v, f, g) ==
    /\ Stepped(t, v) /\ FileAfter(t, f, g) /\ Inst(t) # NullFetch
    /\ Inst(t)[1] # TRAP => Arch(v) = Advance(Execute(Arch(t), Inst(t)))
    /\ Inst(t)[1] = TRAP => Saving(t, v, f, g) /\ Replaying(t, v, f)
InsnOutcome(t) ==
    \/ stage' = stage /\ InsnOn(t, th', file, file')
    \/ TrapEnds(stage', t, th, th', file, file')

\* An instruction that is no trap is executed and passed.
LEMMA ExecutedOn ==
    ASSUME NEW t \in Running, Inst(t) # NullFetch, NEW v, v = Advance(Execute(t, Inst(t)))
    PROVE  Stepped(t, v) /\ Arch(v) = Advance(Execute(Arch(t), Inst(t)))
<1> DEFINE inst == Inst(t)
           u == Execute(t, inst)
<1>1. inst[2] \in ByteValues
    BY InstIs
<1> HIDE DEF inst
<1>2. Arch(u) = Execute(Arch(t), inst)
    BY ArchExecutes
<1>3. v = Advance(u)
    BY DEF inst
<1> HIDE DEF u
<1>4. Executed(t, u)
    BY <1>1, ExecuteIs DEF u
<1>5. Stepped(t, v) /\ Arch(v) = Advance(Arch(u))
    BY <1>3, <1>4, SteppedIs
<1> QED BY <1>2, <1>5 DEF inst

\* One instruction of the functional simulator passes, ends the job or is a trap.
LEMMA FastIs ==
    ASSUME file \in Files, file.pos \in 1 .. Len(file.traps) + 1, th \in Running,
           NEW h \in HostBytes, func_sim_fast(h), NEW t, t = Counted(th)
    PROVE  InsnOutcome(t)
<1> DEFINE inst == Inst(t)
<1>1. t \in Running
    BY CountedIs DEF Alike
<1>2. IF inst = NullFetch THEN stage' = "crash" /\ UNCHANGED <<th, file>>
      ELSE IF inst[1] = TRAP THEN TrapNow(t, h)
      ELSE th' = Advance(Execute(t, inst)) /\ UNCHANGED <<stage, file>>
    BY DEF func_sim_fast, Counted
<1>3. CASE inst = NullFetch
    <2>1. Moved(file, file') /\ th' = th /\ stage' = "crash"
        BY <1>2, <1>3 DEF Moved, SameFile
    <2> QED BY <2>1 DEF InsnOutcome, TrapEnds, FileAfter, Stopped
<1>4. CASE inst # NullFetch /\ inst[1] = TRAP
    <2>1. TrapOutcome(t)
        BY <1>1, <1>2, <1>4, TrapNowIs
    <2> QED BY <1>4, <2>1 DEF TrapOutcome, InsnOutcome, TrapOn, InsnOn
<1>5. CASE inst # NullFetch /\ inst[1] # TRAP
    <2>1. Moved(file, file') /\ stage' = stage /\ th' = Advance(Execute(t, inst))
        BY <1>2, <1>5 DEF Moved, SameFile
    <2>2. Stepped(t, th') /\ Arch(th') = Advance(Execute(Arch(t), inst))
        BY <1>1, <1>5, <2>1, ExecutedOn
    <2> QED BY <1>5, <2>1, <2>2 DEF InsnOutcome, InsnOn, FileAfter
<1> QED BY <1>3, <1>4, <1>5

\* A replayed step is the recorded one: no two records have the same count.
LEMMA ReplayIs ==
    ASSUME NEW f \in Files, NEW g, NEW states, NEW last, History(f, states, last),
           NEW t \in Running, t.fp = "restore", t.num_insn > f.head.num_insn,
           t.num_insn \in DOMAIN states => Arch(t) = states[t.num_insn - 1],
           NEW v, InsnOn(t, v, f, g), t.num_insn \in DOMAIN states
    PROVE  Arch(v) = states[t.num_insn]
<1> DEFINE k == f.head.num_insn
           n == t.num_insn - 1
           s == states[n]
<1>1. k \in Nat /\ t.num_insn \in Nat /\ last \in Nat /\ DOMAIN states = k .. last
    <2>1. f.head \in Threads /\ t \in Threads
        BY FilesAre, RunningIs
    <2> QED BY <2>1 DEF Threads, History
<1>2. n \in k .. last - 1 /\ n + 1 = t.num_insn
    <2> DEFINE q == t.num_insn
    <2>1. q \in k .. last /\ q \in Nat /\ q > k
        BY <1>1
    <2> HIDE DEF q, k
    <2>2. q - 1 \in k .. last - 1 /\ q - 1 + 1 = q
        BY <1>1, <2>1
    <2> QED BY <2>2 DEF q
<1>3. Step(f.traps, s, states[t.num_insn], n)
    BY <1>2 DEF History
<1>4. Arch(t) = s
    OBVIOUS
<1>5. Inst(s) = Inst(t)
    BY <1>4, ArchIs
<1>6. CASE Inst(t)[1] # TRAP
    BY <1>3, <1>4, <1>5, <1>6 DEF Step, InsnOn
<1>7. CASE Inst(t)[1] = TRAP
    <2>1. PICK j \in 1 .. Len(f.traps) :
              /\ f.traps[j].head = HeadOf(s, n + 1) /\ f.traps[j].post # <<>>
              /\ states[t.num_insn] = Restored(s, f.traps[j])
        BY <1>3, <1>5, <1>7 DEF Step
    <2>2. PICK i \in 1 .. Len(f.traps) :
              /\ f.traps[i].head = TrapHead(t)
              /\ f.traps[i].post # <<>> => Arch(v) = Restored(Arch(t), f.traps[i])
        BY <1>7 DEF InsnOn, Replaying
    <2>3. TrapHead(t) = HeadOf(s, n + 1)
        BY <1>2, <1>4, TrapHeadIs
    <2>4. i = j
        BY <2>1, <2>2, <2>3 DEF History, Apart
    <2> QED BY <1>4, <2>1, <2>2, <2>4
<1> QED BY <1>6, <1>7

-----------------------------------------------------------------------------
(* The file and the history                                                *)

\* Moving past a record leaves the history of the recording.
LEMMA HistoryKept ==
    ASSUME NEW f, NEW g, Moved(f, g), NEW states, NEW last, History(f, states, last)
    PROVE  History(g, states, last)
BY DEF Moved, SameFile, History

\* A sequence with one record more.
LEMMA AppendIs ==
    ASSUME NEW traps \in Seq(TrapRecords), NEW r \in TrapRecords, NEW more, more = Append(traps, r)
    PROVE  /\ Len(traps) \in Nat /\ Len(more) = Len(traps) + 1
           /\ \A j \in 1 .. Len(traps) : more[j] = traps[j]
           /\ more[Len(traps) + 1] = r
OBVIOUS

\* Of the records of a longer file, the steps that were recorded stay recorded.
LEMMA StepKept ==
    ASSUME NEW traps \in Seq(TrapRecords), NEW r \in TrapRecords, NEW more, more = Append(traps, r),
           NEW s, NEW u, NEW n, Step(traps, s, u, n)
    PROVE  Step(more, s, u, n)
<1>1. /\ Len(traps) \in Nat /\ Len(more) = Len(traps) + 1
      /\ \A j \in 1 .. Len(traps) : more[j] = traps[j]
    BY AppendIs
<1>2. \A j \in 1 .. Len(traps) : j \in 1 .. Len(more)
    BY <1>1
<1>3. ASSUME Inst(s)[1] = TRAP
      PROVE  \E j \in 1 .. Len(more) : /\ more[j].head = HeadOf(s, n + 1) /\ more[j].post # <<>>
                                       /\ u = Restored(s, more[j])
    <2>1. PICK j \in 1 .. Len(traps) : /\ traps[j].head = HeadOf(s, n + 1) /\ traps[j].post # <<>>
                                       /\ u = Restored(s, traps[j])
        BY <1>3 DEF Step
    <2>2. more[j] = traps[j] /\ j \in 1 .. Len(more)
        BY <1>1, <1>2
    <2> QED BY <2>1, <2>2
<1> QED BY <1>3 DEF Step

\* The record of a later instruction keeps the records apart.
LEMMA ApartKept ==
    ASSUME NEW traps \in Seq(TrapRecords), NEW r \in TrapRecords, NEW more, more = Append(traps, r),
           Apart(traps), NEW last \in Nat, r.head.num_insn = last + 1,
           \A j \in 1 .. Len(traps) : traps[j].head.num_insn <= last
    PROVE  /\ Apart(more)
           /\ \A j \in 1 .. Len(more) : more[j].head.num_insn <= last + 1
<1> DEFINE k == Len(traps)
           num(j) == traps[j].head.num_insn
           new(j) == more[j].head.num_insn
<1>1. /\ k \in Nat /\ Len(more) = k + 1
      /\ \A j \in 1 .. k : more[j] = traps[j]
      /\ more[k + 1] = r
    BY AppendIs
<1>2. \A j \in 1 .. k : new(j) = num(j) /\ num(j) <= last
    BY <1>1
<1>3. new(k + 1) = last + 1
    BY <1>1
<1>4. \A j \in 1 .. k : num(j) \in Nat
    <2>1. \A j \in 1 .. k : traps[j] \in TrapRecords
        OBVIOUS
    <2> QED BY <2>1, RecordsAre
<1>5. \A i, j \in 1 .. k : num(i) = num(j) => i = j
    BY DEF Apart
<1> HIDE DEF k, num, new
<1>6. \A i, j \in 1 .. k + 1 : new(i) = new(j) => i = j
    <2> SUFFICES ASSUME NEW i \in 1 .. k + 1, NEW j \in 1 .. k + 1, new(i) = new(j)
                 PROVE  i = j
        OBVIOUS
    <2>1. \A a \in 1 .. k : new(a) # new(k + 1)
        BY <1>2, <1>3, <1>4
    <2>2. CASE i \in 1 .. k /\ j \in 1 .. k
        BY <1>2, <1>5, <2>2
    <2>3. CASE i = k + 1
        BY <1>1, <2>1, <2>3
    <2>4. CASE j = k + 1
        BY <1>1, <2>1, <2>4
    <2> QED BY <1>1, <2>2, <2>3, <2>4
<1>7. \A j \in 1 .. k + 1 : new(j) <= last + 1
    BY <1>1, <1>2, <1>3, <1>4
<1> QED BY <1>1, <1>6, <1>7 DEF Apart, k, new

\* A record of the next instruction, which may have no state after it.
LEMMA HistoryAppended ==
    ASSUME NEW f \in Files, NEW g, NEW r, Appended(f, g, r),
           NEW states, NEW last \in Nat, History(f, states, last), r.head.num_insn = last + 1,
           \A j \in 1 .. Len(f.traps) : f.traps[j].head.num_insn <= last
    PROVE  /\ History(g, states, last)
           /\ \A j \in 1 .. Len(g.traps) : g.traps[j].head.num_insn <= last + 1
<1> DEFINE traps == f.traps
           more == g.traps
<1>1. traps \in Seq(TrapRecords) /\ r \in TrapRecords /\ more = Append(traps, r) /\ g.head = f.head
    BY FilesAre DEF Appended, SameFile
<1>2. Apart(traps)
    BY DEF History
<1>3. \A j \in 1 .. Len(traps) : traps[j].head.num_insn <= last
    OBVIOUS
<1>4. \A n \in f.head.num_insn .. last - 1 : Step(traps, states[n], states[n + 1], n)
    BY DEF History
<1> HIDE DEF traps, more
<1>5. Apart(more) /\ \A j \in 1 .. Len(more) : more[j].head.num_insn <= last + 1
    BY <1>1, <1>2, <1>3, ApartKept
<1>6. \A n \in f.head.num_insn .. last - 1 : Step(more, states[n], states[n + 1], n)
    BY <1>1, <1>4, StepKept
<1> QED BY <1>1, <1>5, <1>6 DEF History, more

\* A step is added to the history.
LEMMA ExtendedIs ==
    ASSUME NEW k \in Nat, NEW last \in Nat, last >= k, NEW states, DOMAIN states = k .. last,
           NEW s, NEW more, more = Extended(states, last + 1, s)
    PROVE  /\ DOMAIN more = k .. last + 1 /\ more[last + 1] = s
           /\ \A n \in k .. last : more[n] = states[n]
BY DEF Extended

\* The history of a recording grows by the step just taken.
LEMMA HistoryExtended ==
    ASSUME NEW f, f.head.num_insn \in Nat, NEW states, NEW last, History(f, states, last), NEW s,
           Step(f.traps, states[last], s, last), NEW more, more = Extended(states, last + 1, s)
    PROVE  History(f, more, last + 1) /\ more[last + 1] = s
<1> DEFINE k == f.head.num_insn
<1>1. k \in Nat /\ last \in Nat /\ last >= k /\ DOMAIN states = k .. last
    BY DEF History
<1>2. \A n \in k .. last - 1 : Step(f.traps, states[n], states[n + 1], n)
    BY DEF History
<1>3. states[k] = Arch(f.head) /\ Apart(f.traps)
    BY DEF History
<1> HIDE DEF k
<1>4. /\ DOMAIN more = k .. last + 1 /\ more[last + 1] = s
      /\ \A n \in k .. last : more[n] = states[n]
    BY <1>1, ExtendedIs
<1>5. ASSUME NEW n \in k .. last + 1 - 1
      PROVE  Step(f.traps, more[n], more[n + 1], n)
    <2>1. CASE n = last
        <3>1. more[n] = states[last] /\ more[n + 1] = s
            BY <1>1, <1>4, <2>1
        <3> QED BY <2>1, <3>1
    <2>2. CASE n # last
        <3>1. n \in k .. last - 1 /\ n \in k .. last /\ n + 1 \in k .. last
            BY <1>1, <2>2
        <3>2. more[n] = states[n] /\ more[n + 1] = states[n + 1]
            BY <1>4, <3>1
        <3> QED BY <1>2, <3>1, <3>2
    <2> QED BY <2>1, <2>2
<1>6. more[k] = Arch(f.head) /\ last + 1 \in Nat /\ last + 1 >= k
    BY <1>1, <1>3, <1>4
<1> QED BY <1>3, <1>4, <1>5, <1>6 DEF History, k

\* The step of a process that saves its traps.
LEMMA StepIsSaved ==
    ASSUME NEW f \in Files, NEW g, NEW t \in Running, t.fp = "save", NEW v, InsnOn(t, v, f, g),
           NEW n \in Nat, t.num_insn = n + 1, NEW s, Arch(t) = s
    PROVE  Step(g.traps, s, Arch(v), n)
<1>1. Inst(s) = Inst(t) /\ Inst(t) # NullFetch
    BY ArchIs DEF InsnOn
<1>2. Inst(t)[1] # TRAP => Arch(v) = Advance(Execute(s, Inst(t)))
    BY DEF InsnOn
<1>3. ASSUME Inst(t)[1] = TRAP
      PROVE  \E j \in 1 .. Len(g.traps) : /\ g.traps[j].head = HeadOf(s, n + 1) /\ g.traps[j].post # <<>>
                                           /\ Arch(v) = Restored(s, g.traps[j])
    <2>1. PICK r : /\ Appended(f, g, r) /\ r.head = TrapHead(t) /\ r.post # <<>>
                   /\ Arch(v) = Restored(s, r)
        BY <1>3 DEF InsnOn, Saving
    <2> DEFINE traps == f.traps
               more == g.traps
               k == Len(more)
    <2>2. traps \in Seq(TrapRecords) /\ r \in TrapRecords /\ more = Append(traps, r)
        BY <2>1, FilesAre DEF Appended
    <2>3. k \in 1 .. Len(more) /\ more[k] = r
        <3> HIDE DEF traps, more
        <3> QED BY <2>2, AppendIs
    <2>4. TrapHead(t) = HeadOf(s, n + 1)
        BY TrapHeadIs
    <2> HIDE DEF k
    <2> QED BY <2>1, <2>3, <2>4
<1> QED BY <1>1, <1>2, <1>3 DEF Step

-----------------------------------------------------------------------------
(* The steps that execute                                                  *)

\* A step of the replaying process keeps what the file says.
LEMMA FileKept ==
    ASSUME IInv, UNCHANGED <<input, recorded>>, Moved(file, file')
    PROVE  /\ file' \in Files /\ file'.pos \in 1 .. Len(file'.traps) + 1
           /\ file'.saved = file.saved /\ file'.head = file.head
           /\ HeadInv' /\ RecordedInv'
<1>1. /\ file' \in Files /\ file'.pos \in 1 .. Len(file'.traps) + 1
      /\ file'.saved = file.saved /\ file'.head = file.head
    BY DEF Moved, SameFile
<1>2. HeadInv'
    BY <1>1 DEF IInv, HeadInv, IsRecorded, RecArgs, RecImage
<1>3. RecordedInv'
    <2>1. ASSUME file.saved
          PROVE  \E last \in Nat : History(file', recorded', last)
        <3>1. PICK last \in Nat : History(file, recorded, last)
            BY <2>1 DEF IInv, RecordedInv
        <3>2. History(file', recorded, last)
            BY <3>1, HistoryKept
        <3> QED BY <3>2
    <2> QED BY <1>1, <2>1 DEF RecordedInv
<1> QED BY <1>1, <1>2, <1>3

\* Moving past a record does not change what a replay follows.
LEMMA FollowsKept ==
    ASSUME NEW t, NEW f, NEW g, Moved(f, g), NEW states, Follows(t, f, states)
    PROVE  Follows(t, g, states)
BY DEF Moved, SameFile, Follows

\* A replaying process after an instruction, with the head of its file.
LEMMA FollowsOn ==
    ASSUME IInv, NEW t \in Running, t.fp = "restore", t.blocked = FALSE,
           file.saved, t.num_insn > file.head.num_insn,
           t.num_insn \in DOMAIN recorded => Arch(t) = recorded[t.num_insn - 1],
           NEW v, InsnOn(t, v, file, file'), Moved(file, file')
    PROVE  Follows(v, file', recorded)
<1>1. PICK last \in Nat : History(file, recorded, last)
    BY DEF IInv, RecordedInv
<1>2. file \in Files
    BY DEF IInv, Typed
<1>3. t.num_insn \in DOMAIN recorded => Arch(v) = recorded[t.num_insn]
    BY <1>1, <1>2, ReplayIs
<1>4. v.num_insn = t.num_insn /\ v.blocked = FALSE
    BY DEF InsnOn, Stepped, Kin
<1>5. t.num_insn >= file.head.num_insn
    <2>1. t \in Threads /\ file.head \in Threads
        BY <1>2, FilesAre, RunningIs
    <2> QED BY <2>1 DEF Threads
<1>6. Follows(v, file, recorded)
    BY <1>3, <1>4, <1>5 DEF Follows
<1> QED BY <1>6, FollowsKept

\* Skipping an instruction keeps the invariant.
LEMMA SkipInv ==
    ASSUME IInv, Skip
    PROVE  IInv'
<1>1. /\ stage = "skipping" /\ th.num_insn < options.SKIP_AMT
      /\ UNCHANGED <<input, role, options, argv, recorded, vmem, request, value, fetched>>
    BY DEF Skip, portVars
<1>2. PICK h \in HostBytes : func_sim_fast(h)
    BY DEF Skip
<1>3. /\ th \in Running /\ th.fp = Mode /\ Arguments(argv) /\ ProgramOf(argv) \in DOMAIN Images
      /\ ~th.blocked /\ Decoded(th, TextImage)
    BY <1>1 DEF IInv, Working, Active, DecodedText
<1>4. /\ file \in Files /\ file.pos \in 1 .. Len(file.traps) + 1
      /\ th \in Threads /\ th.num_insn \in 0 .. MaxInsn /\ options.SKIP_AMT \in 0 .. MaxInsn
    BY DEF IInv, Typed
<1>5. th.blocked = FALSE
    BY <1>3, <1>4 DEF Threads
<1>6. th.fp # "save"
    BY <1>1, <1>3 DEF Mode
<1> DEFINE t == Counted(th)
           n == th.num_insn
<1>7. n + 1 \in 0 .. MaxInsn /\ n \in Nat
    BY <1>1, <1>4, BoundsAre
<1>8. Alike(th, t) /\ t.num_insn = n + 1 /\ t.fp = th.fp /\ t.blocked = FALSE
    BY <1>3, <1>5, CountedIs
<1>9. InsnOutcome(t)
    BY <1>2, <1>3, <1>4, FastIs
<1> HIDE DEF t
<1>10. t \in Running /\ Arch(t) = Arch(th) /\ Decoded(t, TextImage)
    BY <1>3, <1>8, AlikeIs DEF Alike
<1>11. Moved(file, file')
    BY <1>6, <1>8, <1>9 DEF InsnOutcome, InsnOn, TrapEnds, FileAfter
<1>12. /\ file' \in Files /\ file'.pos \in 1 .. Len(file'.traps) + 1
       /\ file'.saved = file.saved /\ file'.head = file.head
       /\ HeadInv' /\ RecordedInv'
    BY <1>1, <1>11, FileKept
<1>13. FetchedText' /\ LoadedText'
    <2>1. stage' # "copying" /\ stage' # "decoding"
        BY <1>1, <1>9 DEF InsnOutcome, TrapEnds, Stopped
    <2> QED BY <1>1, <2>1 DEF IInv, FetchedText, LoadedText, Image
<1>14. Early'
    BY <1>1 DEF IInv, Early
<1>15. Roles'
    <2>1. stage' \notin {"config", "copying", "core", "recording"}
        BY <1>1, <1>9 DEF InsnOutcome, TrapEnds, Stopped
    <2> QED BY <1>1, <1>12, <2>1 DEF IInv, Roles, IsRecorded, RecArgs
<1>16. RecordingInv'
    <2>1. stage' # "recording"
        BY <1>1, <1>9 DEF InsnOutcome, TrapEnds, Stopped
    <2> QED BY <2>1 DEF RecordingInv
<1>17. CopiedText'
    <2>1. stage' # "decoding"
        BY <1>1, <1>9 DEF InsnOutcome, TrapEnds, Stopped
    <2>2. role = "sim" => Copied(vmem, Image)
        BY <1>1 DEF IInv, CopiedText
    <2> QED BY <1>1, <2>2 DEF CopiedText, Image
<1>18. th.fp = "restore" => role = "sim" /\ Follows(th, file, recorded)
    BY DEF IInv, ReplayInv
<1>19. CASE stage' = stage /\ InsnOn(t, th', file, file')
    <2>1. /\ th' \in Running /\ Kin(t, th')
        BY <1>19 DEF InsnOn, Stepped
    <2>2. /\ th' \in Threads /\ th'.num_insn = n + 1 /\ th'.fp = th.fp /\ th'.blocked = FALSE
          /\ Decoded(th', TextImage)
        BY <1>8, <1>10, <2>1, RunningIs, KinKeepsText DEF Kin
    <2> USE DEF IInv
    <2>3. Typed'
        BY <1>1, <1>7, <1>12, <2>2 DEF Typed
    <2>4. Working'
        BY <1>1, <1>3, <1>19, <2>1, <2>2 DEF Working, Active, Mode
    <2>5. DecodedText'
        BY <1>1, <1>19, <2>2 DEF DecodedText, TextImage, Image, RecImage, RecArgs
    <2>6. ReplayInv'
        <3>1. ASSUME th'.fp = "restore"
              PROVE  role = "sim" /\ Follows(th', file', recorded)
            <4>1. role = "sim" /\ Follows(th, file, recorded) /\ t.fp = "restore"
                BY <1>8, <1>18, <2>2, <3>1
            <4>2. file.saved /\ n >= file.head.num_insn /\ (n \in DOMAIN recorded => Arch(t) = recorded[n])
                BY <1>5, <1>10, <4>1 DEF Follows
            <4>3. PICK last \in Nat : History(file, recorded, last)
                BY <4>2 DEF RecordedInv
            <4>4. file.head.num_insn \in Nat
                BY <1>4, FilesAre DEF Threads
            <4>5. /\ t.num_insn > file.head.num_insn
                  /\ t.num_insn - 1 = n
                  /\ t.num_insn \in DOMAIN recorded => n \in DOMAIN recorded
                BY <1>7, <1>8, <4>2, <4>3, <4>4 DEF History
            <4>6. Follows(th', file', recorded)
                BY <1>8, <1>10, <1>11, <1>19, <4>1, <4>2, <4>5, FollowsOn
            <4> QED BY <4>1, <4>6
        <3> QED BY <1>1, <3>1 DEF ReplayInv
    <2> QED BY <1>12, <1>13, <1>14, <1>15, <1>16, <1>17, <2>3, <2>4, <2>5, <2>6
<1>20. CASE TrapEnds(stage', t, th, th', file, file')
    <2>1. stage' \in Stopped /\ (th' = th \/ (th' = t /\ t.fp # "restore"))
        BY <1>20 DEF TrapEnds
    <2>2. th' \in Threads /\ th'.num_insn \in 0 .. MaxInsn /\ th'.blocked = FALSE
        BY <1>4, <1>5, <1>7, <1>8, <1>10, <2>1, RunningIs
    <2> USE DEF IInv
    <2>3. Typed'
        BY <1>1, <1>12, <2>2 DEF Typed
    <2>4. Working'
        BY <2>1, <2>2 DEF Working, Active, Stopped
    <2>5. DecodedText'
        BY <2>1 DEF DecodedText, Stopped
    <2>6. ReplayInv'
        <3>1. ASSUME th'.fp = "restore"
              PROVE  role = "sim" /\ Follows(th', file', recorded)
            BY <1>8, <1>11, <1>18, <2>1, <3>1, FollowsKept
        <3> QED BY <1>1, <3>1 DEF ReplayInv
    <2> QED BY <1>12, <1>13, <1>14, <1>15, <1>16, <1>17, <2>3, <2>4, <2>5, <2>6
<1> QED BY <1>9, <1>19, <1>20 DEF InsnOutcome

\* A record added to the file keeps the history of the instructions before it.
LEMMA HistoryAfter ==
    ASSUME NEW f \in Files, NEW g, NEW t \in Running, FileAfter(t, f, g),
           NEW states, NEW last \in Nat, History(f, states, last), t.num_insn = last + 1,
           \A j \in 1 .. Len(f.traps) : f.traps[j].head.num_insn <= last
    PROVE  /\ SameFile(f, g) /\ History(g, states, last)
           /\ \A j \in 1 .. Len(g.traps) : g.traps[j].head.num_insn <= last + 1
<1>1. CASE Moved(f, g)
    <2>1. \A j \in 1 .. Len(f.traps) : f.traps[j].head.num_insn \in Nat
        BY FilesAre, RecordsAre
    <2>2. \A j \in 1 .. Len(f.traps) : f.traps[j].head.num_insn <= last + 1
        BY <2>1
    <2>3. SameFile(f, g) /\ g.traps = f.traps
        BY <1>1 DEF Moved
    <2>4. History(g, states, last)
        BY <1>1, HistoryKept
    <2> QED BY <2>2, <2>3, <2>4
<1>2. CASE \E r : Appended(f, g, r) /\ r.head = TrapHead(t)
    <2>1. PICK r : Appended(f, g, r) /\ r.head = TrapHead(t)
        BY <1>2
    <2>2. r.head.num_insn = last + 1
        BY <2>1, TrapHeadIs
    <2>3. SameFile(f, g)
        BY <2>1 DEF Appended
    <2> QED BY <2>1, <2>2, <2>3, HistoryAppended
<1> QED BY <1>1, <1>2 DEF FileAfter

\* Recording an instruction keeps the invariant.
LEMMA RecordInv ==
    ASSUME IInv, Record
    PROVE  IInv'
<1>1. /\ stage = "recording" /\ th.num_insn < MaxInsn
      /\ recorded' = IF stage' = stage THEN Extended(recorded, th'.num_insn, Arch(th')) ELSE recorded
      /\ UNCHANGED <<input, role, options, argv, vmem, request, value, fetched>>
    BY DEF Record, portVars
<1>2. PICK h \in HostBytes : func_sim_fast(h)
    BY DEF Record
<1>3. /\ th \in Running /\ th.fp = "save" /\ Arguments(argv) /\ ProgramOf(argv) \in DOMAIN Images
      /\ ~th.blocked /\ Decoded(th, TextImage)
    BY <1>1 DEF IInv, Working, Active, Mode, DecodedText
<1>4. /\ file \in Files /\ file.pos \in 1 .. Len(file.traps) + 1
      /\ th \in Threads /\ th.num_insn \in 0 .. MaxInsn
    BY DEF IInv, Typed
<1>5. th.blocked = FALSE
    BY <1>3, <1>4 DEF Threads
<1>6. role = "record" /\ file.saved /\ IsRecorded /\ argv = RecArgs /\ options.CHECKPOINT = NoFile
    BY <1>1 DEF IInv, Roles
<1> DEFINE t == Counted(th)
           n == th.num_insn
<1>7. n + 1 \in 0 .. MaxInsn /\ n \in Nat
    BY <1>1, <1>4, BoundsAre
<1>8. Alike(th, t) /\ t.num_insn = n + 1 /\ t.fp = "save" /\ t.blocked = FALSE
    BY <1>3, <1>5, CountedIs
<1>9. InsnOutcome(t)
    BY <1>2, <1>3, <1>4, FastIs
<1> HIDE DEF t
<1>10. t \in Running /\ Arch(t) = Arch(th) /\ Decoded(t, TextImage)
    BY <1>3, <1>8, AlikeIs DEF Alike
<1>11. FileAfter(t, file, file')
    BY <1>9 DEF InsnOutcome, InsnOn, TrapEnds
<1>12. /\ History(file, recorded, n) /\ recorded[n] = Arch(th)
       /\ \A j \in 1 .. Len(file.traps) : file.traps[j].head.num_insn <= n
    BY <1>1 DEF IInv, RecordingInv
<1> HIDE DEF n
<1>13. /\ SameFile(file, file') /\ History(file', recorded, n)
       /\ \A j \in 1 .. Len(file'.traps) : file'.traps[j].head.num_insn <= n + 1
    BY <1>4, <1>7, <1>8, <1>10, <1>11, <1>12, HistoryAfter
<1>14. /\ file' \in Files /\ file'.pos \in 1 .. Len(file'.traps) + 1
       /\ file'.saved = file.saved /\ file'.head = file.head
    BY <1>13 DEF SameFile
<1>15. stage' = stage \/ stage' \in Stopped
    BY <1>9 DEF InsnOutcome, TrapEnds
<1>16. FetchedText' /\ LoadedText' /\ CopiedText'
    <2>1. stage' # "copying" /\ stage' # "decoding"
        BY <1>1, <1>15 DEF Stopped
    <2> QED BY <1>1, <1>6, <2>1 DEF IInv, FetchedText, LoadedText, CopiedText, Image
<1>17. Early'
    BY <1>1, <1>6 DEF IInv, Early
<1>18. Roles'
    <2>1. stage' \notin {"config", "copying", "core"}
        BY <1>1, <1>15 DEF Stopped
    <2>2. role' = "record" /\ file'.saved /\ IsRecorded' /\ argv' = RecArgs' /\ options'.CHECKPOINT = NoFile
        BY <1>1, <1>6, <1>14 DEF IsRecorded, RecArgs
    <2> QED BY <2>1, <2>2 DEF Roles
<1>19. HeadInv'
    BY <1>1, <1>14 DEF IInv, HeadInv, IsRecorded, RecArgs, RecImage
<1>20. CASE stage' = stage /\ InsnOn(t, th', file, file')
    <2>1. /\ th' \in Running /\ Kin(t, th')
        BY <1>20 DEF InsnOn, Stepped
    <2>2. /\ th' \in Threads /\ th'.num_insn = n + 1 /\ th'.fp = "save" /\ th'.blocked = FALSE
          /\ Decoded(th', TextImage)
        BY <1>8, <1>10, <2>1, RunningIs, KinKeepsText DEF Kin
    <2>3. Step(file'.traps, recorded[n], Arch(th'), n)
        BY <1>4, <1>7, <1>8, <1>10, <1>12, <1>20, StepIsSaved
    <2>4. recorded' = Extended(recorded, n + 1, Arch(th'))
        BY <1>1, <1>20, <2>2
    <2>5. file'.head.num_insn \in Nat
        BY <1>14, FilesAre DEF Threads
    <2>6. History(file', recorded', n + 1) /\ recorded'[n + 1] = Arch(th')
        BY <1>13, <2>3, <2>4, <2>5, HistoryExtended
    <2> USE DEF IInv
    <2>7. Typed'
        BY <1>1, <1>7, <1>14, <2>2 DEF Typed
    <2>8. Working'
        BY <1>1, <1>3, <1>20, <2>1, <2>2 DEF Working, Active, Mode
    <2>9. DecodedText'
        BY <1>1, <1>20, <2>2 DEF DecodedText, TextImage, Image, RecImage, RecArgs
    <2>10. RecordedInv'
        BY <1>7, <2>6 DEF RecordedInv
    <2>11. RecordingInv'
        BY <1>13, <2>2, <2>6 DEF RecordingInv
    <2>12. ReplayInv'
        BY <2>2 DEF ReplayInv
    <2> QED BY <1>16, <1>17, <1>18, <1>19, <2>7, <2>8, <2>9, <2>10, <2>11, <2>12
<1>21. CASE TrapEnds(stage', t, th, th', file, file')
    <2>1. stage' \in Stopped /\ (th' = th \/ th' = t)
        BY <1>21 DEF TrapEnds
    <2>2. /\ th' \in Threads /\ th'.num_insn \in 0 .. MaxInsn /\ th'.blocked = FALSE
          /\ th'.fp = "save"
        BY <1>3, <1>4, <1>5, <1>7, <1>8, <1>10, <2>1, RunningIs
    <2>3. recorded' = recorded
        BY <1>1, <2>1 DEF Stopped
    <2> USE DEF IInv
    <2>4. Typed'
        BY <1>1, <1>14, <2>2 DEF Typed
    <2>5. Working'
        BY <2>1, <2>2 DEF Working, Active, Stopped
    <2>6. DecodedText' /\ RecordingInv'
        BY <2>1 DEF DecodedText, RecordingInv, Stopped
    <2>7. RecordedInv'
        BY <1>7, <1>13, <2>3 DEF RecordedInv
    <2>8. ReplayInv'
        BY <2>2 DEF ReplayInv
    <2> QED BY <1>16, <1>17, <1>18, <1>19, <2>4, <2>5, <2>6, <2>7, <2>8
<1> QED BY <1>9, <1>20, <1>21 DEF InsnOutcome

-----------------------------------------------------------------------------
(* The core at work                                                        *)

\* Running ahead of the core keeps the invariant.
LEMMA RunAheadInv ==
    ASSUME IInv, RunAhead
    PROVE  IInv'
<1> DEFINE t == Counted(th)
           inst == Inst(t)
           n == th.num_insn
           u == Blocking(t, TRUE)
<1>1. /\ stage = "core" /\ ~th.blocked /\ n < MaxInsn
      /\ UNCHANGED <<input, role, options, argv, file, recorded, vmem, request, value, fetched>>
    BY DEF RunAhead, portVars, Core
<1>2. \/ stage' = "crash" /\ th' = th
      \/ stage' = stage /\ inst # NullFetch /\ inst[1] = TRAP /\ th' = u
      \/ stage' = stage /\ inst # NullFetch /\ inst[1] # TRAP /\ th' = Advance(Execute(t, inst))
    BY DEF RunAhead, Counted, Blocking
<1>3. /\ th \in Running /\ th.fp = Mode /\ Arguments(argv) /\ ProgramOf(argv) \in DOMAIN Images
      /\ Decoded(th, TextImage) /\ role = "sim" /\ Copied(vmem, Image)
    BY <1>1 DEF IInv, Working, Active, DecodedText, Roles, CopiedText
<1>4. /\ file \in Files /\ file.pos \in 1 .. Len(file.traps) + 1
      /\ th \in Threads /\ th.num_insn \in 0 .. MaxInsn
    BY DEF IInv, Typed
<1>5. th.blocked = FALSE
    BY <1>1, <1>4 DEF Threads
<1>6. th.fp # "save"
    BY <1>1, <1>3 DEF Mode
<1>7. n + 1 \in 0 .. MaxInsn /\ n \in Nat
    BY <1>1, <1>4, BoundsAre
<1>8. Alike(th, t) /\ t.num_insn = n + 1 /\ t.fp = th.fp /\ t.blocked = FALSE
    BY <1>3, <1>5, CountedIs
<1> HIDE DEF t
<1>9. t \in Running /\ Arch(t) = Arch(th) /\ Decoded(t, TextImage)
    BY <1>3, <1>8, AlikeIs DEF Alike
<1>10. Moved(file, file')
    BY <1>1, <1>4 DEF Moved, SameFile
<1>11. stage' # "copying" /\ stage' # "decoding" /\ stage' # "recording"
    BY <1>1, <1>2
<1>12. FetchedText' /\ LoadedText' /\ RecordingInv'
    BY <1>1, <1>11 DEF IInv, FetchedText, LoadedText, RecordingInv, Image
<1>13. Early' /\ Roles' /\ CopiedText'
    <2>1. stage' \in {"core", "crash"}
        BY <1>1, <1>2
    <2>2. Early'
        BY <1>1, <1>3, <2>1 DEF IInv, Early
    <2>3. Roles'
        BY <1>1, <1>3, <2>1 DEF IInv, Roles
    <2>4. CopiedText'
        BY <1>1, <1>3 DEF CopiedText, Image
    <2> QED BY <2>2, <2>3, <2>4
<1>14. HeadInv' /\ RecordedInv'
    BY <1>1, <1>10, FileKept
<1>15. ASSUME th.fp = "restore"
       PROVE  /\ file.saved /\ t.num_insn > file.head.num_insn
              /\ t.num_insn \in DOMAIN recorded => Arch(t) = recorded[t.num_insn - 1]
    <2>1. Follows(th, file, recorded)
        BY <1>15 DEF IInv, ReplayInv
    <2>2. file.saved /\ n >= file.head.num_insn /\ (n \in DOMAIN recorded => Arch(t) = recorded[n])
        BY <1>5, <1>9, <2>1 DEF Follows
    <2>3. PICK last \in Nat : History(file, recorded, last)
        BY <2>2 DEF IInv, RecordedInv
    <2>4. file.head.num_insn \in Nat
        BY <1>4, FilesAre DEF Threads
    <2> QED BY <1>7, <1>8, <2>2, <2>3, <2>4 DEF History
<1>16. CASE stage' = "crash" /\ th' = th
    <2> USE DEF IInv
    <2>1. Typed'
        BY <1>1, <1>16 DEF Typed
    <2>2. Working'
        BY <1>5, <1>16 DEF Working, Active
    <2>3. DecodedText'
        BY <1>16 DEF DecodedText
    <2>4. ReplayInv'
        BY <1>1, <1>16 DEF ReplayInv
    <2> QED BY <1>12, <1>13, <1>14, <2>1, <2>2, <2>3, <2>4
<1>17. ASSUME stage' = stage, th' \in Running, th' \in Threads, th'.num_insn = n + 1, th'.fp = th.fp,
              Decoded(th', TextImage),
              th.fp = "restore" => Follows(th', file', recorded)
       PROVE  IInv'
    <2> USE DEF IInv
    <2>1. Typed'
        BY <1>1, <1>7, <1>17 DEF Typed
    <2>2. Working'
        BY <1>1, <1>3, <1>17 DEF Working, Active, Mode
    <2>3. DecodedText'
        BY <1>1, <1>17 DEF DecodedText, TextImage, Image, RecImage, RecArgs
    <2>4. ReplayInv'
        BY <1>1, <1>3, <1>17 DEF ReplayInv
    <2> QED BY <1>12, <1>13, <1>14, <2>1, <2>2, <2>3, <2>4
<1>18. CASE stage' = stage /\ inst # NullFetch /\ inst[1] = TRAP /\ th' = u
    <2>1. Alike(t, u) /\ u.num_insn = t.num_insn /\ u.fp = t.fp /\ u.blocked = TRUE
        BY <1>9, BlockingIs
    <2> HIDE DEF u
    <2>2. u \in Running /\ u \in Threads /\ Arch(u) = Arch(t) /\ Decoded(u, TextImage) /\ Inst(u) = Inst(t)
        BY <1>9, <2>1, AlikeIs, RunningIs DEF Alike
    <2>3. ASSUME th.fp = "restore"
          PROVE  Follows(th', file', recorded)
        <3>1. /\ file.saved /\ t.num_insn > file.head.num_insn
              /\ t.num_insn \in DOMAIN recorded => Arch(t) = recorded[t.num_insn - 1]
            BY <1>15, <2>3
        <3>2. t.num_insn >= file.head.num_insn
            <4>1. t.num_insn \in Nat /\ file.head.num_insn \in Nat
                BY <1>4, <1>7, <1>8, FilesAre DEF Threads
            <4> QED BY <3>1, <4>1
        <3>3. Follows(u, file, recorded)
            BY <1>18, <2>1, <2>2, <3>1, <3>2 DEF Follows
        <3> QED BY <1>1, <1>18, <3>3
    <2> QED BY <1>8, <1>17, <1>18, <2>1, <2>2, <2>3
<1>19. CASE stage' = stage /\ inst # NullFetch /\ inst[1] # TRAP /\ th' = Advance(Execute(t, inst))
    <2>1. Stepped(t, th') /\ Arch(th') = Advance(Execute(Arch(t), inst))
        BY <1>9, <1>19, ExecutedOn
    <2>2. InsnOn(t, th', file, file')
        BY <1>10, <1>19, <2>1 DEF InsnOn, FileAfter
    <2>3. /\ th' \in Running /\ th' \in Threads /\ th'.num_insn = n + 1 /\ th'.fp = th.fp
          /\ Decoded(th', TextImage)
        BY <1>8, <1>9, <2>1, RunningIs, KinKeepsText DEF Stepped, Kin
    <2>4. th.fp = "restore" => Follows(th', file', recorded)
        BY <1>8, <1>9, <1>10, <1>15, <2>2, FollowsOn
    <2> QED BY <1>17, <1>19, <2>3, <2>4
<1> QED BY <1>2, <1>16, <1>18, <1>19

\* A thread that waits for its trap goes on as if it had not waited.
LEMMA WaitedIs ==
    ASSUME IInv, th \in Running, th.blocked = TRUE, th.fp = "restore",
           NEW t, t = Blocking(th, FALSE), TrapOn(t, th', file, file'), Moved(file, file')
    PROVE  Follows(th', file', recorded)
<1>1. Alike(th, t) /\ t.num_insn = th.num_insn /\ t.fp = "restore" /\ t.blocked = FALSE
    BY BlockingIs
<1>2. t \in Running /\ Arch(t) = Arch(th) /\ Inst(t) = Inst(th)
    BY <1>1, AlikeIs DEF Alike
<1>3. Follows(th, file, recorded)
    BY DEF IInv, ReplayInv
<1>4. /\ file.saved /\ t.num_insn > file.head.num_insn
      /\ t.num_insn \in DOMAIN recorded =>
            Arch(t) = recorded[t.num_insn - 1] /\ Inst(t) # NullFetch /\ Inst(t)[1] = TRAP
    BY <1>1, <1>2, <1>3 DEF Follows
<1>5. CASE t.num_insn \in DOMAIN recorded
    <2>1. InsnOn(t, th', file, file')
        BY <1>4, <1>5 DEF TrapOn, InsnOn
    <2> QED BY <1>1, <1>2, <1>4, <2>1, FollowsOn
<1>6. CASE t.num_insn \notin DOMAIN recorded
    <2>1. th'.num_insn = t.num_insn /\ th'.blocked = FALSE
        BY <1>1 DEF TrapOn, Stepped, Kin
    <2>2. th.num_insn >= file.head.num_insn
        BY <1>3 DEF Follows
    <2>3. Follows(th', file, recorded)
        BY <1>1, <1>4, <1>6, <2>1, <2>2 DEF Follows
    <2> QED BY <2>3, FollowsKept
<1> QED BY <1>5, <1>6

PortsCopied(v) ==
    /\ CopiedFrom(v, vmem, vmem', request, request') /\ value' = value /\ fetched' = fetched

\* Handling a trap of the core keeps the invariant.
LEMMA HandleTrapInv ==
    ASSUME IInv, HandleTrap
    PROVE  IInv'
<1>1. /\ stage = "core" /\ th.blocked /\ request.n < MaxOps
      /\ UNCHANGED <<input, role, options, argv, recorded>>
    BY DEF HandleTrap, Core
<1>2. /\ th \in Running /\ th.fp = Mode /\ Arguments(argv) /\ ProgramOf(argv) \in DOMAIN Images
      /\ Decoded(th, TextImage) /\ role = "sim" /\ Copied(vmem, Image)
    BY <1>1 DEF IInv, Working, Active, DecodedText, Roles, CopiedText
<1>3. /\ file \in Files /\ file.pos \in 1 .. Len(file.traps) + 1
      /\ th \in Threads /\ th.num_insn \in 0 .. MaxInsn
    BY DEF IInv, Typed
<1>4. th.blocked = TRUE
    BY <1>1, <1>3 DEF Threads
<1>5. th.fp # "save"
    BY <1>1, <1>2 DEF Mode
<1>6. ASSUME stage' \in Stopped, Moved(file, file'), th' = th,
             UNCHANGED <<vmem, request, value, fetched>>,
             stage' # "assert"
      PROVE  IInv'
    <2>1. /\ file' \in Files /\ file'.pos \in 1 .. Len(file'.traps) + 1
          /\ file'.saved = file.saved /\ file'.head = file.head
          /\ HeadInv' /\ RecordedInv'
        BY <1>1, <1>6, FileKept
    <2> USE DEF IInv
    <2>2. Typed'
        BY <1>1, <1>6, <2>1 DEF Typed
    <2>3. Roles'
        BY <1>1, <1>2, <1>6, <2>1 DEF Roles, Stopped
    <2>4. Working'
        BY <1>6 DEF Working, Active, Stopped
    <2>5. Early' /\ LoadedText' /\ CopiedText' /\ DecodedText' /\ RecordingInv'
        BY <1>1, <1>2, <1>6 DEF Early, LoadedText, CopiedText, DecodedText, RecordingInv, Stopped
    <2>6. FetchedText'
        BY <1>1, <1>6 DEF FetchedText, Image
    <2>7. ReplayInv'
        BY <1>1, <1>6, FollowsKept DEF ReplayInv
    <2> QED BY <2>1, <2>2, <2>3, <2>4, <2>5, <2>6, <2>7
<1>7. CASE stage' = "exit" /\ UNCHANGED <<th, file, vmem, request, value, fetched>>
    <2>1. Moved(file, file')
        BY <1>3, <1>7 DEF Moved, SameFile
    <2> QED BY <1>6, <1>7, <2>1 DEF Stopped
<1>8. ASSUME NEW h \in HostBytes, TrapNow([th EXCEPT !.blocked = FALSE], h),
             IF stage' = stage THEN CopyFrom([th' EXCEPT !.arch_PC = th'.regs_PC])
                               ELSE UNCHANGED <<vmem, portVars>>
      PROVE  IInv'
    <2> DEFINE t == Blocking(th, FALSE)
    <2>1. Alike(th, t) /\ t.num_insn = th.num_insn /\ t.fp = th.fp /\ t.blocked = FALSE
        BY <1>2, BlockingIs
    <2>2. TrapNow(t, h)
        BY <1>8 DEF Blocking
    <2>3. t = Blocking(th, FALSE)
        OBVIOUS
    <2> HIDE DEF t
    <2>4. t \in Running /\ Arch(t) = Arch(th) /\ Decoded(t, TextImage)
        BY <1>2, <2>1, AlikeIs DEF Alike
    <2>5. TrapOutcome(t)
        BY <1>3, <2>2, <2>4, TrapNowIs
    <2>6. Moved(file, file')
        BY <1>5, <2>1, <2>5 DEF TrapOutcome, TrapOn, TrapEnds, FileAfter
    <2>7. CASE TrapEnds(stage', t, th, th', file, file') /\ th' = th
        <3>1. stage' \in Stopped /\ stage' # "assert" /\ stage' # stage
            BY <1>1, <1>5, <2>1, <2>7 DEF TrapEnds, Stopped
        <3>2. UNCHANGED <<vmem, request, value, fetched>>
            BY <1>8, <3>1 DEF portVars
        <3> QED BY <1>6, <2>6, <2>7, <3>1, <3>2
    <2>8. CASE TrapEnds(stage', t, th, th', file, file') /\ th' = t /\ t.fp # "restore"
        <3>1. stage' \in Stopped /\ stage' # "assert" /\ stage' # stage
            BY <1>1, <1>5, <2>1, <2>8 DEF TrapEnds, Stopped
        <3>2. UNCHANGED <<vmem, request, value, fetched>>
            BY <1>8, <3>1 DEF portVars
        <3>3. /\ file' \in Files /\ file'.pos \in 1 .. Len(file'.traps) + 1
              /\ file'.saved = file.saved /\ file'.head = file.head
              /\ HeadInv' /\ RecordedInv'
            BY <1>1, <2>6, FileKept
        <3>4. th' \in Threads /\ th'.num_insn \in 0 .. MaxInsn /\ th'.blocked = FALSE /\ th'.fp # "restore"
            BY <1>3, <2>1, <2>4, <2>8, RunningIs
        <3> USE DEF IInv
        <3>5. Typed'
            BY <1>1, <3>2, <3>3, <3>4 DEF Typed
        <3>6. Roles'
            BY <1>1, <1>2, <3>1, <3>3 DEF Roles, Stopped
        <3>7. Working'
            BY <3>1, <3>4 DEF Working, Active, Stopped
        <3>8. Early' /\ LoadedText' /\ CopiedText' /\ DecodedText' /\ RecordingInv'
            BY <1>1, <1>2, <3>1 DEF Early, LoadedText, CopiedText, DecodedText, RecordingInv, Stopped
        <3>9. FetchedText'
            BY <1>1, <3>2 DEF FetchedText, Image
        <3>10. ReplayInv'
            BY <3>4 DEF ReplayInv
        <3> QED BY <3>3, <3>5, <3>6, <3>7, <3>8, <3>9, <3>10
    <2>9. CASE stage' = stage /\ TrapOn(t, th', file, file')
        <3>1. th' \in Running /\ Kin(t, th')
            BY <2>9 DEF TrapOn, Stepped
        <3>2. /\ th' \in Threads /\ th'.num_insn = th.num_insn /\ th'.fp = th.fp /\ th'.blocked = FALSE
              /\ Decoded(th', TextImage)
            BY <2>1, <2>4, <3>1, RunningIs, KinKeepsText DEF Kin
        <3> DEFINE v == AtPC(th')
        <3>3. CopyFrom(v)
            BY <1>8, <2>9 DEF AtPC
        <3>4. v \in Running
            BY <3>1, AtPCIs DEF Alike
        <3> HIDE DEF v
        <3>5. PortsCopied(v)
            BY <3>3, <3>4, CopyFromIs DEF IInv, PortsCopied
        <3>6. /\ file' \in Files /\ file'.pos \in 1 .. Len(file'.traps) + 1
              /\ file'.saved = file.saved /\ file'.head = file.head
              /\ HeadInv' /\ RecordedInv'
            BY <1>1, <2>6, FileKept
        <3> USE DEF IInv
        <3>7. Typed'
            <4>1. vmem' \in Memories /\ request' \in Requests /\ request'.n = request.n + 1
                  /\ value' = value
                BY <3>5 DEF PortsCopied, CopiedFrom
            <4>2. request.n \in 0 .. MaxOps /\ request'.n \in 0 .. MaxOps
                BY <1>1, <4>1, BoundsAre DEF Typed
            <4> QED BY <1>1, <1>3, <3>2, <3>6, <4>1, <4>2 DEF Typed
        <3>8. Roles'
            BY <1>1, <1>2, <2>9, <3>6 DEF Roles
        <3>9. Working'
            BY <1>1, <1>2, <2>9, <3>1, <3>2 DEF Working, Active, Mode
        <3>10. Early' /\ LoadedText' /\ RecordingInv'
            BY <1>1, <1>2, <2>9 DEF Early, LoadedText, RecordingInv
        <3>11. CopiedText'
            BY <1>1, <1>2, <3>5 DEF PortsCopied, CopiedText, CopiedFrom, Copied, Image
        <3>12. DecodedText'
            BY <1>1, <2>9, <3>2 DEF DecodedText, TextImage, Image, RecImage, RecArgs
        <3>13. FetchedText'
            BY <1>1, <3>5 DEF PortsCopied, FetchedText, Image
        <3>14. ReplayInv'
            BY <1>1, <1>2, <1>4, <2>3, <2>6, <2>9, <3>2, WaitedIs DEF ReplayInv
        <3> QED BY <3>6, <3>7, <3>8, <3>9, <3>10, <3>11, <3>12, <3>13, <3>14
    <2> QED BY <2>5, <2>7, <2>8, <2>9 DEF TrapOutcome, TrapEnds
<1> QED BY <1>7, <1>8 DEF HandleTrap, portVars

-----------------------------------------------------------------------------
(* The memory ports                                                        *)

\* What a port accesses is in one block.
PortRange(a, n) ==
    /\ a \in MemAddrs /\ n \in 1 .. 4
    /\ \A k \in 0 .. n - 1 : /\ a + k \in MemAddrs /\ MEM_BLOCK(a + k) = MEM_BLOCK(a)
                             /\ MEM_OFFSET(a + k) = MEM_OFFSET(a) + k

\* The ports are called for ranges inside one block, aligned as the core aligns them.
LEMMA PortRanges ==
    ASSUME NEW a \in PortAddrs
    PROVE  PortRange(a, 4) /\ PortRange(a + 2, 2) /\ PortRange(a + 3, 1)
<1>1. a \in MemAddrs /\ a % 4 = 0 /\ BLOCK_SIZE % 4 = 0
    BY PortsAssumption, Sizes
<1>2. a \in Nat
    BY <1>1, AddressesAreNumbers
<1>3. ASSUME NEW j \in 0 .. 3, NEW n \in 1 .. 4, j + n = 4
      PROVE  PortRange(a + j, n)
    <2>1. a + j \in MemAddrs
        BY <1>1, Aligned
    <2>2. ASSUME NEW k \in 0 .. n - 1
          PROVE  /\ (a + j) + k \in MemAddrs /\ MEM_BLOCK((a + j) + k) = MEM_BLOCK(a + j)
                 /\ MEM_OFFSET((a + j) + k) = MEM_OFFSET(a + j) + k
        <3>1. k \in 0 .. 4 - 1 - j /\ j \in 0 .. 4 - 1 /\ 4 \in Nat \ {0}
            BY <1>3
        <3> QED BY <1>1, <3>1, AlignedPart
    <2> QED BY <2>1, <2>2 DEF PortRange
<1>4. PortRange(a + 0, 4)
    BY <1>3
<1>5. PortRange(a + 2, 2) /\ PortRange(a + 3, 1)
    BY <1>3
<1>6. a + 0 = a
    BY <1>2
<1> QED BY <1>4, <1>5, <1>6

\* Data of a store of n bytes is n bytes.
LEMMA LowBytesAre ==
    ASSUME NEW b \in ByteValues, NEW n \in Nat
    PROVE  LowBytes(b, n) \in Seq(ByteValues) /\ Len(LowBytes(b, n)) = n
<1>1. \A k \in 1 .. n : (b + k - 1) % Byte \in ByteValues
    BY RemainderIsByte, Sizes DEF ByteValues
<1> DEFINE f(k) == (b + k - 1) % Byte
<1>2. \A k \in 1 .. n : f(k) \in ByteValues
    BY <1>1
<1>3. LowBytes(b, n) = [k \in 1 .. n |-> f(k)]
    BY DEF LowBytes
<1> HIDE DEF f
<1> QED BY <1>2, <1>3

PortRead == \E a, n : \E signed \in BOOLEAN : PortRange(a, n) /\ ReadPort(a, n, signed)
PortWrite == \E a : \E w \in Seq(ByteValues) : PortRange(a, Len(w)) /\ WritePort(a, w)
PortFetch == \E pc \in FetchPCs : \E part \in {"opcode", "operand"} : FetchPort(pc, part)

\* A step of the ports is a read, a write or a fetch.
LEMMA PortsAre ==
    ASSUME Ports
    PROVE  PortRead \/ PortWrite \/ PortFetch
<1>1. CASE \E pc \in FetchPCs : read_opcode(pc) \/ read_operand(pc)
    BY <1>1 DEF PortFetch, read_opcode, read_operand
<1>2. ASSUME NEW a \in PortAddrs,
             \/ readWord(a)
             \/ readUnsignedHalf(a + 2) \/ readSignedHalf(a + 2)
             \/ readUnsignedByte(a + 3) \/ readSignedByte(a + 3)
      PROVE  PortRead
    <2>1. PortRange(a, 4) /\ PortRange(a + 2, 2) /\ PortRange(a + 3, 1)
        BY PortRanges
    <2> QED BY <1>2, <2>1 DEF PortRead, readWord, readUnsignedHalf, readSignedHalf,
                              readUnsignedByte, readSignedByte
<1>3. ASSUME NEW a \in PortAddrs, NEW b \in PortBytes,
             writeWord(a, b) \/ writeHalf(a, b) \/ writeByte(a, b)
      PROVE  PortWrite
    <2>1. PortRange(a, 4) /\ PortRange(a + 2, 2) /\ PortRange(a + 3, 1)
        BY PortRanges
    <2>2. b \in ByteValues
        BY PortsAssumption
    <2>3. ASSUME NEW n \in 1 .. 4, WritePort(a, LowBytes(b, n))
          PROVE  PortWrite
        <3>1. LowBytes(b, n) \in Seq(ByteValues) /\ Len(LowBytes(b, n)) = n
            BY <2>2, LowBytesAre
        <3>2. PortRange(a, n)
            BY <2>1, <2>3 DEF PortRange
        <3> QED BY <2>3, <3>1, <3>2 DEF PortWrite
    <2> QED BY <1>3, <2>3 DEF writeWord, writeHalf, writeByte
<1> QED BY <1>1, <1>2, <1>3 DEF Ports

\* What a call does to the request.
PortCalled(port, a, n, signed, data) ==
    /\ request' \in Requests /\ request'.n = request.n + 1 /\ request'.port = port
    /\ request'.addr = a /\ request'.size = n /\ request'.signed = signed /\ request'.data = data
    /\ request'.n \in 0 .. MaxOps

\* A call of a port is one request more.
LEMMA PortCallIs ==
    ASSUME Typed, PortsOpen, NEW port \in PortNames, NEW a \in Nat, NEW n \in Nat,
           NEW signed \in BOOLEAN, NEW data \in Seq(ByteValues), Call(port, a, n, signed, data)
    PROVE  PortCalled(port, a, n, signed, data)
<1> DEFINE k == request.n + 1
<1>1. request.n \in 0 .. MaxOps /\ request.n < MaxOps /\ k \in Nat /\ k \in 0 .. MaxOps
    <2>1. request.n \in 0 .. MaxOps
        BY DEF Typed
    <2>2. request.n < MaxOps
        BY DEF PortsOpen
    <2> QED BY <2>1, <2>2, BoundsAre
<1>2. request' = [n |-> k, port |-> port, addr |-> a, size |-> n, signed |-> signed, data |-> data]
    BY DEF Call
<1> HIDE DEF k
<1>3. request' \in Requests
    BY <1>1, <1>2, RequestIs
<1>4. /\ request'.n = k /\ request'.port = port /\ request'.addr = a /\ request'.size = n
      /\ request'.data = data
    BY <1>2
<1>5. request'.signed = signed
    BY <1>2
<1> QED BY <1>1, <1>3, <1>4, <1>5 DEF PortCalled, k

\* A read returns the bytes, extended, and leaves memory as it reads.
ReadValue(m, a, n, signed) ==
    [k \in 1 .. 4 |-> IF k <= n THEN ByteAt(m, a + k - 1)
                      ELSE IF signed /\ ByteAt(m, a + n - 1) >= Byte \div 2 THEN Byte - 1
                      ELSE 0]
ReadFrom(v, u, a, n, signed) ==
    /\ u \in Memories /\ u.text = v.text /\ u.base = v.base /\ u.size = v.size
    /\ \A x \in MemAddrs : ByteAt(u.mem, x) = ByteAt(v.mem, x)
    /\ value' \in [1 .. 4 -> ByteValues] /\ value' = ReadValue(v.mem, a, n, signed)
    /\ PortCalled("read", a, n, signed, <<>>)

\* The four bytes of a load are the value the flat memory promises.
LEMMA ReadValueIs ==
    ASSUME NEW m \in Tables, NEW a, NEW n, PortRange(a, n), NEW signed \in BOOLEAN,
           NEW w, w = ReadBytes(m, a, n), NEW v, v = IF signed THEN Signed(w) ELSE Unsigned(w)
    PROVE  v \in [1 .. 4 -> ByteValues] /\ v = ReadValue(m, a, n, signed)
<1>1. a \in MemAddrs /\ n \in Nat /\ n \in 1 .. 4
    BY DEF PortRange
<1>2. /\ w \in Seq(ByteValues) /\ Len(w) = n
      /\ \A k \in 1 .. n : a + k - 1 \in MemAddrs /\ w[k] = ByteAt(m, a + k - 1)
    <2>1. \A k \in 0 .. n - 1 : /\ a + k \in MemAddrs /\ MEM_BLOCK(a + k) = MEM_BLOCK(a)
                                /\ MEM_OFFSET(a + k) = MEM_OFFSET(a) + k
        BY DEF PortRange
    <2> QED BY <1>1, <2>1, ReadMany
<1> DEFINE fill == IF signed /\ w[n] >= Byte \div 2 THEN Byte - 1 ELSE 0
<1>3. v = Extend(w, fill)
    BY <1>2 DEF Signed, Unsigned, Negative
<1>4. fill \in ByteValues
    BY ZeroIsAByte, Sizes DEF ByteValues
<1>5. fill = IF signed /\ ByteAt(m, a + n - 1) >= Byte \div 2 THEN Byte - 1 ELSE 0
    <2>1. w[n] = ByteAt(m, a + n - 1)
        BY <1>1, <1>2
    <2> QED BY <2>1
<1> HIDE DEF fill, ByteAt
<1>6. v \in [1 .. 4 -> ByteValues]
    BY <1>2, <1>3, <1>4, ExtendIsTyped
<1>7. v = [k \in 1 .. 4 |-> IF k <= n THEN w[k] ELSE fill]
    BY <1>2, <1>3 DEF Extend
<1>8. \A k \in 1 .. 4 : k <= n => w[k] = ByteAt(m, a + k - 1)
    BY <1>1, <1>2
<1>9. ReadValue(m, a, n, signed) = [k \in 1 .. 4 |-> IF k <= n THEN ByteAt(m, a + k - 1) ELSE fill]
    BY <1>5 DEF ReadValue
<1> QED BY <1>6, <1>7, <1>8, <1>9

\* A read returns what the memory holds and keeps every byte.
LEMMA ReadPortIs ==
    ASSUME Typed, NEW a, NEW n, NEW signed \in BOOLEAN, PortRange(a, n), ReadPort(a, n, signed)
    PROVE  ReadFrom(vmem, vmem', a, n, signed)
<1> DEFINE m == vmem.mem
           u == Touch(m, a)
           w == ReadBytes(m, a, n)
           v == IF signed THEN Signed(w) ELSE Unsigned(w)
<1>1. vmem \in Memories /\ m \in Tables /\ a \in MemAddrs /\ a \in Nat /\ n \in Nat
    BY AddressesAreNumbers DEF Typed, Memories, PortRange
<1>2. vmem' = [vmem EXCEPT !.mem = u] /\ value' = v /\ PortsOpen /\ Call("read", a, n, signed, <<>>)
    BY DEF ReadPort
<1>3. u \in Tables /\ \A x \in MemAddrs : ByteAt(u, x) = ByteAt(m, x)
    <2> HIDE DEF m
    <2> QED BY <1>1, TouchKeeps
<1>4. v \in [1 .. 4 -> ByteValues] /\ v = ReadValue(m, a, n, signed)
    <2> HIDE DEF m
    <2> QED BY <1>1, ReadValueIs
<1> HIDE DEF u, v
<1>5. /\ vmem' \in Memories /\ vmem'.text = vmem.text /\ vmem'.base = vmem.base
      /\ vmem'.size = vmem.size /\ vmem'.mem = u
    BY <1>1, <1>2, <1>3 DEF Memories
<1>6. PortCalled("read", a, n, signed, <<>>)
    <2>1. "read" \in PortNames /\ <<>> \in Seq(ByteValues)
        BY DEF PortNames
    <2> QED BY <1>1, <1>2, <2>1, PortCallIs
<1> QED BY <1>2, <1>3, <1>4, <1>5, <1>6 DEF ReadFrom

WrittenTo(v, u, a, w) ==
    /\ u \in Memories /\ u.text = v.text /\ u.base = v.base /\ u.size = v.size
    /\ Written(v.mem, u.mem, a, w)
    /\ PortCalled("write", a, Len(w), FALSE, w)

\* A write changes the bytes of its range and no other.
LEMMA WritePortIs ==
    ASSUME Typed, NEW a, NEW w \in Seq(ByteValues), PortRange(a, Len(w)), WritePort(a, w)
    PROVE  WrittenTo(vmem, vmem', a, w)
<1> DEFINE m == vmem.mem
           u == WriteBytes(m, a, w)
<1>1. vmem \in Memories /\ m \in Tables /\ a \in MemAddrs /\ a \in Nat /\ Len(w) \in Nat
    BY AddressesAreNumbers DEF Typed, Memories, PortRange
<1>2. vmem' = [vmem EXCEPT !.mem = u] /\ PortsOpen /\ Call("write", a, Len(w), FALSE, w)
    BY DEF WritePort
<1>3. Written(m, u, a, w)
    <2> HIDE DEF m
    <2> QED BY <1>1, WriteBytesWrites
<1> HIDE DEF u
<1>4. u \in Tables
    BY <1>3 DEF Written
<1>5. /\ vmem' \in Memories /\ vmem'.text = vmem.text /\ vmem'.base = vmem.base
      /\ vmem'.size = vmem.size /\ vmem'.mem = u
    BY <1>1, <1>2, <1>4 DEF Memories
<1>6. PortCalled("write", a, Len(w), FALSE, w)
    <2>1. "write" \in PortNames /\ FALSE \in BOOLEAN
        BY DEF PortNames
    <2> QED BY <1>1, <1>2, <2>1, PortCallIs
<1> QED BY <1>3, <1>5, <1>6 DEF WrittenTo

-----------------------------------------------------------------------------
(* Fetching                                                                *)

\* An instruction that starts before the end of a segment ends in it.
EndsBy(a, n, b) == a + n <= b

\* From an aligned address to a later aligned one there is room for an instruction.
LEMMA AlignedEnds ==
    ASSUME NEW n \in Nat \ {0}, NEW a \in Int, NEW b \in Int, a % n = 0, b % n = 0, a < b
    PROVE  EndsBy(a, n, b)
<1> DEFINE d == b - a
           q == a \div n
           p == b \div n
           e == p - q
<1>1. q \in Int /\ p \in Int /\ a = n * q + (a % n) /\ b = n * p + (b % n)
    BY Division
<1>2. d = n * e + 0
    BY <1>1
<1>3. e \in Int /\ d \in Int /\ d > 0
    BY <1>1
<1>4. d % n = 0
    <2> HIDE DEF d, e
    <2>1. 0 \in 0 .. n - 1
        OBVIOUS
    <2> QED BY <1>2, <1>3, <2>1, DivisionIsUnique
<1>5. ASSUME d < n PROVE FALSE
    <2> HIDE DEF d
    <2>1. d \in 0 .. n - 1 /\ d = n * 0 + d /\ 0 \in Int
        BY <1>3, <1>5
    <2>2. (n * 0 + d) % n = d
        BY <2>1, DivisionIsUnique
    <2>3. d % n = d
        BY <2>1, <2>2
    <2> QED BY <1>3, <1>4, <2>3
<1> QED BY <1>3, <1>5 DEF EndsBy

\* The instruction an address is in starts at or before it.
LEMMA InstStart ==
    ASSUME NEW pc \in MemAddrs, NEW p, p = pc - (pc % INST_SIZE)
    PROVE  p \in Nat /\ p % INST_SIZE = 0 /\ p <= pc
<1> DEFINE n == INST_SIZE
           q == pc \div n
           r == pc % n
<1>1. n \in Nat \ {0} /\ pc \in Nat
    BY Sizes, AddressesAreNumbers
<1>2. q \in Int /\ r \in 0 .. n - 1 /\ pc = n * q + r
    <2> HIDE DEF n
    <2> QED BY <1>1, Division
<1>3. r <= pc
    <2>1. q >= 0
        <3> HIDE DEF n
        <3>1. pc \div n \in Nat
            BY <1>1
        <3> QED BY <3>1
    <2>2. n * q >= 0
        <3> HIDE DEF q, n
        <3> QED BY <1>1, <1>2, <2>1
    <2> DEFINE y == n * q
    <2>3. y \in Int
        <3> HIDE DEF q, n
        <3> QED BY <1>1, <1>2
    <2> HIDE DEF y, r
    <2> QED BY <1>1, <1>2, <2>2, <2>3 DEF y
<1>4. p = n * q + 0
    <2> DEFINE y == n * q
    <2>1. y \in Int
        <3> HIDE DEF q, n
        <3> QED BY <1>1, <1>2
    <2>2. p = pc - r /\ pc = y + r
        BY <1>2
    <2> HIDE DEF y, r
    <2>3. p = y + 0
        BY <1>2, <2>1, <2>2
    <2> QED BY <2>3 DEF y
<1>5. p % n = 0
    <2> HIDE DEF q, n
    <2>1. 0 \in 0 .. n - 1
        BY <1>1
    <2> QED BY <1>1, <1>2, <1>4, <2>1, DivisionIsUnique
<1>6. p \in Nat /\ p <= pc
    <2>1. p = pc - r
        OBVIOUS
    <2> HIDE DEF r
    <2> QED BY <1>1, <1>2, <1>3, <2>1
<1> QED BY <1>5, <1>6

\* An instruction fetched inside the text is that of the image.
LEMMA FetchedIs ==
    ASSUME NEW v \in Memories, NEW image, WellFormed(image), Copied(v, image), NEW pc \in MemAddrs,
           pc \in TEXT_BASE .. TEXT_BASE + TextSize(image) - 1,
           NEW inst, inst = Fetched(v.text, v.mem, v.base, v.size, pc), inst # NullFetch
    PROVE  inst = ImageInst(image, pc - (pc % INST_SIZE))
<1> DEFINE p == pc - (pc % INST_SIZE)
           m == v.text
           size == TextSize(image)
<1>1. size \in Int /\ size + TEXT_BASE <= DATA_BASE /\ m \in Tables
    BY TextSizeIs DEF Memories
<1>2. p \in Nat /\ p % INST_SIZE = 0 /\ p <= pc
    BY InstStart
<1>3. INST_SIZE \in Nat \ {0} /\ INST_SIZE \in Nat /\ BLOCK_SIZE \in Nat
    BY Sizes
<1>4. pc \in Nat /\ pc >= TEXT_BASE /\ pc < DATA_BASE /\ TEXT_BASE >= BLOCK_SIZE /\ pc <= TEXT_BASE + size
    <2>1. pc \in TEXT_BASE .. TEXT_BASE + size - 1
        OBVIOUS
    <2> HIDE DEF size
    <2> QED BY <1>1, <2>1, Segments, AddressesAreNumbers
<1>5. v.base = TEXT_BASE /\ v.size = size
    BY DEF Copied
<1> HIDE DEF p, m, size
<1>6. inst = Unchecked(m, p)
    <2>1. ~(pc < BLOCK_SIZE) /\ ~(pc < TEXT_BASE) /\ ~(pc > TEXT_BASE + size)
        BY <1>1, <1>3, <1>4, Segments
    <2> QED BY <1>5, <2>1 DEF Fetched, p, m
<1>7. /\ inst \in Seq(ByteValues) /\ Len(inst) = INST_SIZE
      /\ \A k \in 1 .. INST_SIZE : p + k - 1 \in MemAddrs /\ inst[k] = ByteAt(m, p + k - 1)
    BY <1>1, <1>2, <1>6, FetchIs
<1>8. p < DATA_BASE /\ DATA_BASE \in Int /\ DATA_BASE % INST_SIZE = 0
    BY <1>2, <1>4, Segments
<1>9. p + INST_SIZE <= DATA_BASE
    <2>1. p \in Int
        BY <1>2
    <2>2. EndsBy(p, INST_SIZE, DATA_BASE)
        BY <1>2, <1>3, <1>8, <2>1, AlignedEnds
    <2> QED BY <2>2 DEF EndsBy
<1>10. \A k \in 1 .. INST_SIZE : inst[k] = ImageByte(image, p + k - 1)
    <2>1. \A k \in 1 .. INST_SIZE : p + k - 1 < DATA_BASE
        BY <1>2, <1>3, <1>8, <1>9
    <2> HIDE DEF ByteAt
    <2> QED BY <1>7, <2>1 DEF Copied, m
<1>11. inst = [k \in 1 .. INST_SIZE |-> inst[k]]
    BY <1>3, <1>7
<1>12. inst = [k \in 1 .. INST_SIZE |-> ImageByte(image, p + k - 1)]
    BY <1>10, <1>11
<1> QED BY <1>12 DEF ImageInst, p

\* A step of the ports that keeps text and segments keeps the invariant.
LEMMA PortInv ==
    ASSUME IInv, stage = "core", UNCHANGED <<input, role, stage, options, argv, th, file, recorded>>,
           vmem' \in Memories, vmem'.text = vmem.text, vmem'.base = vmem.base, vmem'.size = vmem.size,
           request' \in Requests, request'.n \in 0 .. MaxOps,
           value' \in [1 .. 4 -> ByteValues], FetchedText'
    PROVE  IInv'
<1>1. role = "sim"
    BY DEF IInv, Roles
<1> USE DEF IInv
<1>2. Typed'
    BY DEF Typed
<1>3. Roles'
    BY DEF Roles, IsRecorded, RecArgs
<1>4. Working'
    BY DEF Working, Active, Mode
<1>5. Early' /\ LoadedText' /\ RecordingInv'
    BY <1>1 DEF Early, LoadedText, RecordingInv
<1>6. CopiedText'
    BY <1>1 DEF CopiedText, Copied, Image
<1>7. DecodedText'
    BY DEF DecodedText, TextImage, Image, RecImage, RecArgs
<1>8. HeadInv' /\ RecordedInv'
    BY DEF HeadInv, IsRecorded, RecArgs, RecImage, RecordedInv
<1>9. ReplayInv'
    BY DEF ReplayInv
<1> QED BY <1>2, <1>3, <1>4, <1>5, <1>6, <1>7, <1>8, <1>9

\* A fetch is a request for one instruction.
LEMMA FetchPortIs ==
    ASSUME Typed, NEW pc \in FetchPCs, NEW part, FetchPort(pc, part)
    PROVE  PortCalled("fetch", pc, INST_SIZE, FALSE, <<>>)
<1>1. pc \in Nat /\ INST_SIZE \in Nat
    BY PortsAssumption, AddressesAreNumbers, Sizes
<1>2. PortsOpen /\ Call("fetch", pc, INST_SIZE, FALSE, <<>>)
    BY DEF FetchPort
<1>3. "fetch" \in PortNames /\ <<>> \in Seq(ByteValues) /\ FALSE \in BOOLEAN
    BY DEF PortNames
<1> QED BY <1>1, <1>2, <1>3, PortCallIs

\* Every step of the ports keeps the invariant.
LEMMA PortsInv ==
    ASSUME IInv, Ports
    PROVE  IInv'
<1>1. CASE PortRead
    <2>1. PICK a, n, signed : signed \in BOOLEAN /\ PortRange(a, n) /\ ReadPort(a, n, signed)
        BY <1>1 DEF PortRead
    <2>2. ReadFrom(vmem, vmem', a, n, signed)
        BY <2>1, ReadPortIs DEF IInv
    <2>3. stage = "core" /\ UNCHANGED <<input, role, stage, options, argv, th, file, recorded, fetched>>
        BY <2>1 DEF ReadPort, PortsOpen, Core, threadVars
    <2>4. FetchedText'
        BY <2>3 DEF IInv, FetchedText, Image
    <2> QED BY <2>2, <2>3, <2>4, PortInv DEF ReadFrom, PortCalled
<1>2. CASE PortWrite
    <2>1. PICK a, w : w \in Seq(ByteValues) /\ PortRange(a, Len(w)) /\ WritePort(a, w)
        BY <1>2 DEF PortWrite
    <2>2. WrittenTo(vmem, vmem', a, w)
        BY <2>1, WritePortIs DEF IInv
    <2>3. /\ stage = "core"
          /\ UNCHANGED <<input, role, stage, options, argv, th, file, recorded, value, fetched>>
        BY <2>1 DEF WritePort, PortsOpen, Core, threadVars
    <2>4. FetchedText' /\ value' \in [1 .. 4 -> ByteValues]
        BY <2>3 DEF IInv, FetchedText, Image, Typed
    <2> QED BY <2>2, <2>3, <2>4, PortInv DEF WrittenTo, PortCalled
<1>3. CASE PortFetch
    <2>1. PICK pc \in FetchPCs, part \in {"opcode", "operand"} : FetchPort(pc, part)
        BY <1>3 DEF PortFetch
    <2> DEFINE inst == Fetched(vmem.text, vmem.mem, vmem.base, vmem.size, pc)
    <2>2. PortCalled("fetch", pc, INST_SIZE, FALSE, <<>>)
        BY <2>1, FetchPortIs DEF IInv
    <2>3. /\ stage = "core"
          /\ UNCHANGED <<input, role, options, argv, th, file, recorded, vmem, value>>
          /\ IF inst = NullFetch THEN stage' = "crash" /\ fetched' = fetched
             ELSE fetched' = [pc |-> pc, part |-> part, bytes |-> HalfOf(part, inst)] /\ stage' = stage
        BY <2>1 DEF FetchPort, PortsOpen, Core, threadVars
    <2>4. /\ vmem \in Memories /\ value \in [1 .. 4 -> ByteValues]
          /\ request' \in Requests /\ request'.n \in 0 .. MaxOps
        BY <2>2 DEF IInv, Typed, PortCalled
    <2>5. role = "sim" /\ ProgramOf(argv) \in DOMAIN Images /\ Copied(vmem, Image)
        BY <2>3 DEF IInv, Roles, Working, Active, CopiedText
    <2>6. WellFormed(Image)
        BY <2>5, ImagesAssumption DEF Image
    <2>7. CASE inst # NullFetch
        <3>1. stage' = stage /\ fetched' = [pc |-> pc, part |-> part, bytes |-> HalfOf(part, inst)]
            BY <2>3, <2>7
        <3> HIDE DEF inst
        <3>2. fetched'.pc = pc /\ fetched'.part = part /\ fetched'.bytes = HalfOf(part, inst)
            BY <3>1
        <3>3. Image' = Image
            BY <2>3 DEF Image
        <3>4. pc \in TEXT_BASE .. TEXT_BASE + TextSize(Image) - 1 =>
                  inst = ImageInst(Image, pc - (pc % INST_SIZE))
            BY <2>4, <2>5, <2>6, <2>7, FetchedIs, PortsAssumption DEF inst
        <3>5. FetchedText'
            BY <3>2, <3>3, <3>4 DEF FetchedText
        <3> QED BY <2>3, <2>4, <3>1, <3>5, PortInv
    <2>8. CASE inst = NullFetch
        <3>1. stage' = "crash" /\ fetched' = fetched
            BY <2>3, <2>8
        <3> HIDE DEF inst
        <3> USE DEF IInv
        <3>2. Typed'
            BY <2>3, <2>4 DEF Typed
        <3>3. Roles'
            BY <2>3, <2>5, <3>1 DEF Roles
        <3>4. Working'
            BY <2>3, <3>1 DEF Working, Active
        <3>5. Early' /\ LoadedText' /\ CopiedText' /\ DecodedText' /\ RecordingInv'
            BY <2>3, <2>5, <3>1 DEF Early, LoadedText, CopiedText, DecodedText, RecordingInv
        <3>6. FetchedText'
            BY <2>3, <3>1 DEF FetchedText, Image
        <3>7. HeadInv' /\ RecordedInv'
            BY <2>3 DEF HeadInv, IsRecorded, RecArgs, RecImage, RecordedInv
        <3>8. ReplayInv'
            BY <2>3 DEF ReplayInv
        <3> QED BY <3>2, <3>3, <3>4, <3>5, <3>6, <3>7, <3>8
    <2> QED BY <2>7, <2>8
<1> QED BY <1>1, <1>2, <1>3, PortsAre

-----------------------------------------------------------------------------
(* The invariant and what follows from it                                  *)

\* Every step of both processes keeps the invariant.
LEMMA NextInv ==
    ASSUME IInv, [Next]_vars
    PROVE  IInv'
<1>1. CASE UNCHANGED vars
    <2>1. UNCHANGED <<input, role, stage, options, argv, th, file, recorded, vmem, request, value, fetched>>
        BY <1>1 DEF vars, threadVars, portVars
    <2> USE DEF IInv
    <2>2. Typed' /\ Roles' /\ Working' /\ Early'
        BY <2>1 DEF Typed, Roles, Working, Active, Mode, Early, IsRecorded, RecArgs
    <2>3. LoadedText' /\ CopiedText' /\ DecodedText' /\ FetchedText'
        BY <2>1 DEF LoadedText, CopiedText, DecodedText, FetchedText, TextImage, Image, RecImage, RecArgs
    <2>4. HeadInv' /\ RecordedInv' /\ RecordingInv' /\ ReplayInv'
        BY <2>1 DEF HeadInv, RecordedInv, RecordingInv, ReplayInv, IsRecorded, RecArgs, RecImage
    <2> QED BY <2>2, <2>3, <2>4
<1>2. CASE StartUp
    BY <1>2, ReadConfigInv, LoadInv, CopyTextInv, DecodeInv, RestoreInv, SkipInv, StartCoreInv,
       SaveInv, RecordInv, RecordStopInv DEF StartUp
<1>3. CASE RunAhead
    BY <1>3, RunAheadInv
<1>4. CASE HandleTrap
    BY <1>4, HandleTrapInv
<1>5. CASE Ports
    BY <1>5, PortsInv
<1>6. CASE Ended
    BY <1>1, <1>6 DEF Ended
<1> QED BY <1>1, <1>2, <1>3, <1>4, <1>5, <1>6 DEF Next

\* The invariant holds in every state of both processes.
THEOREM Inductive == Spec => []IInv
<1>1. Init => IInv
    BY InitInv
<1>2. IInv /\ [Next]_vars => IInv'
    BY NextInv
<1> QED BY <1>1, <1>2, PTL DEF Spec

\* The type invariant is part of the inductive one.
LEMMA TypesFollow == IInv => TypeOK
<1> SUFFICES ASSUME IInv PROVE TypeOK
    OBVIOUS
<1>1. /\ role \in {"record", "sim"} /\ options.SKIP_AMT \in 0 .. MaxInsn
      /\ th \in Threads /\ th.num_insn \in 0 .. MaxInsn /\ vmem \in Memories
      /\ file.pos \in 1 .. Len(file.traps) + 1
      /\ value \in [1 .. 4 -> ByteValues] /\ request.n \in 0 .. MaxOps
    BY DEF IInv, Typed
<1>2. options.SKIP_AMT \in Nat
    BY <1>1, BoundsAre
<1>3. th.mem \in Tables /\ th.regs \in [Regs -> Nat] /\ th.fp \in {"none", "save", "restore"}
    BY <1>1 DEF Threads, Modes
<1>4. vmem.mem \in Tables /\ vmem.text \in Tables
    BY <1>1 DEF Memories
<1>5. th.blocked => stage \in {"core", "exit", "fatal", "panic", "crash"}
    BY DEF IInv, Working
<1> QED BY <1>1, <1>2, <1>3, <1>4, <1>5 DEF TypeOK

\* Types: every process starts from, and leaves, a state of the right form.
THEOREM Typing == Spec => []TypeOK
BY Inductive, TypesFollow, PTL

\* The texts agree by what the invariant says of each stage.
LEMMA TextsFollow == IInv => TextsAgree
<1> SUFFICES ASSUME IInv, role = "sim", stage \in {"decoded", "skipping", "core"}, SameBinary
             PROVE  LET segment == th.ld_text_base .. th.ld_text_base + th.ld_text_size - 1
                    IN  /\ \A a \in segment :
                            LET byte == ImageByte(Image, a) IN
                            /\ ReadBytes(vmem.text, a, 1) = <<byte>>
                            /\ ReadBytes(th.mem, a, 1) =
                                  <<IF a \in TextPCs(th) THEN mask2op[byte] ELSE byte>>
                        /\ fetched.pc \in segment =>
                            LET a == fetched.pc - (fetched.pc % INST_SIZE)
                            IN  fetched.bytes = HalfOf(fetched.part,
                                         [k \in 1 .. INST_SIZE |-> ImageByte(Image, a + k - 1)])
    BY DEF TextsAgree
<1> DEFINE size == TextSize(Image)
           segment == TEXT_BASE .. TEXT_BASE + size - 1
<1>1. ProgramOf(argv) \in DOMAIN Images /\ Copied(vmem, Image) /\ vmem \in Memories /\ th \in Threads
    BY DEF IInv, Working, Active, CopiedText, Typed
<1>2. WellFormed(Image)
    BY <1>1, ImagesAssumption DEF Image
<1>3. Decoded(th, Image)
    <2>1. TextImage = Image
        BY DEF SameBinary, TextImage, RecImage, RecArgs, Image
    <2> QED BY <2>1 DEF IInv, DecodedText, ReadyThread
<1>4. IsThreadOf(th, Image) /\ TextPCs(th) = PCsOf(Image)
    BY <1>3, TextPCsAre DEF Decoded
<1>5. th.ld_text_base .. th.ld_text_base + th.ld_text_size - 1 = segment
    BY <1>4 DEF IsThreadOf
<1>6. size \in Int /\ size + TEXT_BASE <= DATA_BASE
    BY <1>2, TextSizeIs
<1>7. vmem.text \in Tables /\ th.mem \in Tables
    BY <1>1 DEF Memories, Threads
<1>8. ASSUME NEW a \in segment
      PROVE  /\ ReadBytes(vmem.text, a, 1) = <<ImageByte(Image, a)>>
             /\ ReadBytes(th.mem, a, 1) = <<IF a \in TextPCs(th) THEN mask2op[ImageByte(Image, a)]
                                                                  ELSE ImageByte(Image, a)>>
    <2>1. a \in Nat /\ a >= TEXT_BASE /\ a < DATA_BASE /\ a < STACK_BASE
        <3> HIDE DEF size
        <3> QED BY <1>6, Segments
    <2>2. a \in MemAddrs
        BY <2>1, StackIsInTable
    <2>3. ByteAt(vmem.text, a) = ImageByte(Image, a)
        BY <1>1, <2>1, <2>2 DEF Copied
    <2>4. ByteAt(th.mem, a) = DecodedByte(Image, a)
        BY <1>3, <2>1, <2>2 DEF Decoded
    <2>5. /\ ReadBytes(vmem.text, a, 1) = <<ByteAt(vmem.text, a)>>
          /\ ReadBytes(th.mem, a, 1) = <<ByteAt(th.mem, a)>>
        BY <1>7, <2>2, ReadOne
    <2> QED BY <1>4, <2>3, <2>4, <2>5 DEF DecodedByte
<1>9. ASSUME fetched.pc \in segment
      PROVE  fetched.bytes = HalfOf(fetched.part,
                                ImageInst(Image, fetched.pc - (fetched.pc % INST_SIZE)))
    <2>1. fetched.pc # -1
        <3> HIDE DEF size
        <3> QED BY <1>6, <1>9, Segments
    <2> QED BY <1>9, <2>1 DEF IInv, FetchedText
<1> HIDE DEF size, segment
<1> QED BY <1>5, <1>8, <1>9 DEF ImageInst

\* The two copies of the text stay those of one executable.
THEOREM TextsStay == Spec => []TextsAgree
BY Inductive, TextsFollow, PTL

\* A process that restored a checkpoint is always at the state that was recorded.
THEOREM Replays == Spec => []ReplayFollowsRecording
<1>1. IInv => ReplayFollowsRecording
    BY DEF IInv, ReplayInv, Follows, ReplayFollowsRecording
<1> QED BY Inductive, <1>1, PTL

\* A string in memory is read byte by byte.
LEMMA HeldString ==
    ASSUME NEW m \in Tables, NEW p \in Nat, NEW s, Holds(m, p, s), NEW k \in 1 .. Len(s)
    PROVE  ReadBytes(m, p + k - 1, 1) = <<s[k]>>
<1>1. p + k - 1 \in MemAddrs /\ ByteAt(m, p + k - 1) = s[k]
    BY DEF Holds
<1> QED BY <1>1, ReadOne

\* A number in a word of the stack is read back.
SlotHolds(k, n) == Holds(th.mem, ArgcAddr + 4 * k, WordOf(n))
SlotReads(k, n) == StackWord(ArgcAddr + 4 * k) = n

\* A slot of the stack that holds a word reads as that word.
LEMMA StackWordIs ==
    ASSUME th.mem \in Tables, NEW k \in Nat, NEW n \in Nat, n < STACK_BASE, SlotHolds(k, n)
    PROVE  SlotReads(k, n)
<1> DEFINE a == ArgcAddr + 4 * k
           m == th.mem
<1>1. a \in Int /\ a % 4 = 0 /\ m \in Tables
    BY ArgcAddrIs
<1>2. n < Byte * (Byte * (Byte * Byte))
    BY AddressFits
<1> HIDE DEF a
<1>3. Holds(m, a, WordOf(n))
    BY DEF a, SlotHolds
<1>4. NumOf(ReadBytes(m, a, 4)) = n
    <2> HIDE DEF m
    <2> QED BY <1>1, <1>2, <1>3, HeldWord
<1> QED BY <1>4 DEF SlotReads, StackWord, a

\* The arguments are where a fresh thread has them.
LEMMA ArgumentsFollow == IInv => ArgumentsInPlace
<1> SUFFICES ASSUME IInv, stage = "decoded"
             PROVE  LET sp == th.regs[29]
                        ptr(i) == StackWord(sp + 4 * i)
                    IN  /\ StackWord(sp) = Len(argv)
                        /\ \A i \in 1 .. Len(argv) :
                            /\ ptr(i) + Len(argv[i]) < STACK_BASE
                            /\ StringAt(ptr(i), Terminated(argv[i]))
                        /\ ptr(Len(argv) + 1) = 0 /\ ptr(Len(argv) + 2) = 0
    BY DEF ArgumentsInPlace
<1> DEFINE m == th.mem
           n == Len(argv)
<1>1. /\ InPlace(m, argv) /\ th.regs[29] = ArgcAddr /\ Arguments(argv) /\ th \in Threads
    BY DEF IInv, DecodedText, ReadyThread, Working, Active, Typed
<1>2. m \in Tables /\ n \in Nat /\ \A i \in 1 .. n : argv[i] \in Seq(ByteValues) /\ Len(argv[i]) \in Nat
    BY <1>1 DEF Threads, Arguments
<1>3. ArgcAddr \in Nat /\ STACK_BASE \in Nat /\ STACK_BASE > 0
    BY ArgcAddrIs, Segments
<1>4. StackWord(ArgcAddr + 4 * (n + 1)) = 0 /\ StackWord(ArgcAddr + 4 * (n + 2)) = 0
    <2>1. SlotHolds(n + 1, 0) /\ SlotHolds(n + 2, 0)
        BY <1>1 DEF InPlace, SlotHolds
    <2>2. n + 1 \in Nat /\ n + 2 \in Nat /\ 0 \in Nat /\ 0 < STACK_BASE
        BY <1>2, <1>3
    <2>3. SlotReads(n + 1, 0) /\ SlotReads(n + 2, 0)
        BY <1>2, <2>1, <2>2, StackWordIs
    <2> QED BY <2>3 DEF SlotReads
<1>5. n < STACK_BASE
    <2> DEFINE a == ArgcAddr + 4 * (n + 1)
               w == WordOf(0)
    <2>1. Holds(m, a, w)
        BY <1>1 DEF InPlace
    <2>2. Len(w) = 4
        BY WordIsTyped
    <2> HIDE DEF w
    <2>3. 1 \in 1 .. Len(w)
        BY <2>2
    <2>4. a + 1 - 1 \in DATA_BASE .. STACK_BASE - 1
        BY <2>1, <2>3 DEF Holds
    <2> QED BY <1>2, <1>3, <2>4, Segments
<1>6. StackWord(ArgcAddr) = n
    <2>1. ArgcAddr + 4 * 0 = ArgcAddr
        BY <1>3
    <2>2. SlotHolds(0, n)
        BY <1>1, <2>1 DEF InPlace, SlotHolds
    <2>3. SlotReads(0, n)
        BY <1>2, <1>5, <2>2, StackWordIs
    <2> QED BY <2>1, <2>3 DEF SlotReads
<1>7. ASSUME NEW i \in 1 .. n
      PROVE  /\ StackWord(ArgcAddr + 4 * i) + Len(argv[i]) < STACK_BASE
             /\ StringAt(StackWord(ArgcAddr + 4 * i), Terminated(argv[i]))
    <2> DEFINE s == argv[i]
               z == Terminated(s)
               l == Len(s)
    <2>1. PICK p \in Nat : Holds(m, ArgcAddr + 4 * i, WordOf(p)) /\ Holds(m, p, z)
        BY <1>1 DEF InPlace
    <2>2. s \in Seq(ByteValues) /\ Len(z) = l + 1 /\ l \in Nat
        <3>1. s \in Seq(ByteValues)
            BY <1>2
        <3> HIDE DEF s
        <3> QED BY <3>1, TerminatedIs
    <2> HIDE DEF z, l
    <2>3. p + (l + 1) - 1 \in DATA_BASE .. STACK_BASE - 1
        <3>1. l + 1 \in 1 .. Len(z)
            BY <2>2
        <3> QED BY <2>1, <3>1 DEF Holds
    <2>4. p < STACK_BASE /\ p + l < STACK_BASE
        BY <1>3, <2>2, <2>3, Segments
    <2>5. StackWord(ArgcAddr + 4 * i) = p
        <3>1. SlotHolds(i, p) /\ i \in Nat
            BY <1>2, <2>1 DEF SlotHolds
        <3>2. SlotReads(i, p)
            BY <1>2, <2>4, <3>1, StackWordIs
        <3> QED BY <3>2 DEF SlotReads
    <2>6. StringAt(p, z)
        BY <1>2, <2>1, HeldString DEF StringAt
    <2> QED BY <2>4, <2>5, <2>6 DEF z, l
<1> QED BY <1>1, <1>4, <1>6, <1>7

\* The program finds its arguments where its stack pointer points.
THEOREM ArgumentsAreThere == Spec => []ArgumentsInPlace
BY Inductive, ArgumentsFollow, PTL

-----------------------------------------------------------------------------
(* The ports as one flat memory                                            *)

\* The flat memory of the same bytes is the same.
LEMMA SameFlat ==
    ASSUME NEW m, NEW n, \A x \in MemAddrs : ByteAt(n, x) = ByteAt(m, x)
    PROVE  Flat(n) = Flat(m)
<1>1. Flat(m) = [x \in MemAddrs |-> ByteAt(m, x)] /\ Flat(n) = [x \in MemAddrs |-> ByteAt(n, x)]
    BY FlatIs
<1> HIDE DEF ByteAt
<1> QED BY <1>1

\* A step that keeps bytes, request and value is a step of the flat memory.
LEMMA RunIs ==
    ASSUME Flat(vmem'.mem) = Flat(vmem.mem), request' = request, value' = value
    PROVE  Memory!FlatNext
<1>1. Memory!Run
    BY DEF Memory!Run
<1> QED BY <1>1 DEF Memory!FlatNext

\* Copying the thread's memory is a step of the flat memory.
LEMMA CopyIs ==
    ASSUME NEW t, t.mem = th'.mem, CopiedFrom(t, vmem, vmem', request, request'), value' = value
    PROVE  Memory!FlatNext
<1>1. \A x \in MemAddrs : x >= BLOCK_SIZE => ByteAt(vmem'.mem, x) = ByteAt(th'.mem, x)
    BY DEF CopiedFrom
<1>2. /\ \A x \in MemAddrs : Flat(vmem'.mem)[x] = ByteAt(vmem'.mem, x)
      /\ \A x \in MemAddrs : Flat(th'.mem)[x] = ByteAt(th'.mem, x)
    BY FlatIs
<1> HIDE DEF ByteAt
<1>3. \A x \in MemAddrs : x >= BLOCK_SIZE => Flat(vmem'.mem)[x] = Flat(th'.mem)[x]
    BY <1>1, <1>2
<1>4. request'.n = request.n + 1 /\ request'.port = "copy"
    BY DEF CopiedFrom
<1>5. Memory!Copy
    BY <1>3, <1>4 DEF Memory!Copy, Memory!Calls
<1> QED BY <1>5 DEF Memory!FlatNext

\* A read is a step of the flat memory.
LEMMA ReadIs ==
    ASSUME NEW a, NEW n, NEW signed \in BOOLEAN, PortRange(a, n),
           ReadFrom(vmem, vmem', a, n, signed), th' = th
    PROVE  Memory!FlatNext
<1> DEFINE m == vmem.mem
           byte(k) == Flat(m)[request'.addr + k - 1]
           negative == byte(request'.size) >= Byte \div 2
<1>1. /\ request'.n = request.n + 1 /\ request'.port = "read" /\ request'.addr = a
      /\ request'.size = n
    BY DEF ReadFrom, PortCalled
<1>2. request'.signed = signed
    BY DEF ReadFrom, PortCalled
<1>3. a \in Nat /\ n \in 1 .. 4 /\ \A k \in 1 .. n : a + k - 1 \in MemAddrs
    <2>1. a \in MemAddrs /\ n \in 1 .. 4 /\ \A k \in 0 .. n - 1 : a + k \in MemAddrs
        BY DEF PortRange
    <2>2. a \in Nat
        BY <2>1, AddressesAreNumbers
    <2>3. ASSUME NEW k \in 1 .. n PROVE a + k - 1 \in MemAddrs
        <3>1. k - 1 \in 0 .. n - 1 /\ a + (k - 1) = a + k - 1
            BY <2>1, <2>2
        <3> QED BY <2>1, <3>1
    <2> QED BY <2>1, <2>2, <2>3
<1>4. \A k \in 1 .. n : byte(k) = ByteAt(m, a + k - 1)
    BY <1>1, <1>3, FlatIs
<1>5. byte(request'.size) = ByteAt(m, a + n - 1)
    BY <1>1, <1>3, <1>4
<1>6. negative <=> ByteAt(m, a + n - 1) >= Byte \div 2
    BY <1>5
<1>7. Flat(vmem'.mem) = Flat(m)
    BY SameFlat DEF ReadFrom
<1> HIDE DEF byte, negative, ByteAt, m
<1>8. value' = [k \in 1 .. 4 |-> IF k <= n THEN ByteAt(m, a + k - 1)
                                 ELSE IF signed /\ ByteAt(m, a + n - 1) >= Byte \div 2 THEN Byte - 1
                                 ELSE 0]
    BY DEF ReadFrom, ReadValue, m
<1>9. \A k \in 1 .. 4 : k <= n => k \in 1 .. n
    BY <1>3
<1>10. value' = [k \in 1 .. 4 |-> IF k <= request'.size THEN byte(k)
                                  ELSE IF request'.signed /\ negative THEN Byte - 1 ELSE 0]
    BY <1>1, <1>2, <1>4, <1>6, <1>8, <1>9
<1>11. Memory!Read
    BY <1>1, <1>7, <1>10 DEF Memory!Read, Memory!Calls, byte, negative, m
<1> QED BY <1>11 DEF Memory!FlatNext

\* A write is a step of the flat memory.
LEMMA WriteToIs ==
    ASSUME NEW a, NEW w \in Seq(ByteValues), PortRange(a, Len(w)),
           WrittenTo(vmem, vmem', a, w), th' = th, value' = value
    PROVE  Memory!FlatNext
<1> DEFINE m == vmem.mem
           n == vmem'.mem
<1>1. /\ request'.n = request.n + 1 /\ request'.port = "write" /\ request'.addr = a
      /\ request'.size = Len(w) /\ request'.data = w
    BY DEF WrittenTo, PortCalled
<1>2. a \in Nat /\ Len(w) \in Nat
    BY AddressesAreNumbers DEF PortRange
<1>3. \A x \in MemAddrs : ByteAt(n, x) = IF x \in a .. a + Len(w) - 1 THEN w[x - a + 1] ELSE ByteAt(m, x)
    BY DEF WrittenTo, Written
<1>4. Flat(n) = [x \in MemAddrs |-> ByteAt(n, x)] /\ \A x \in MemAddrs : Flat(m)[x] = ByteAt(m, x)
    BY FlatIs
<1>5. \A x \in MemAddrs : x \in Memory!Touched <=> x \in a .. a + Len(w) - 1
    <2>1. \A x \in MemAddrs : x \in Nat
        BY AddressesAreNumbers
    <2>2. \A x \in MemAddrs : x \in Memory!Touched <=> x >= a /\ x < a + Len(w)
        BY <1>1 DEF Memory!Touched
    <2> QED BY <1>2, <2>1, <2>2
<1> HIDE DEF ByteAt, m, n
<1>6. Flat(n) = [x \in MemAddrs |-> IF x \in Memory!Touched THEN request'.data[x - request'.addr + 1]
                                                            ELSE Flat(m)[x]]
    BY <1>1, <1>3, <1>4, <1>5
<1>7. Memory!Write
    BY <1>1, <1>6 DEF Memory!Write, Memory!Calls, m, n
<1> QED BY <1>7 DEF Memory!FlatNext

\* A fetch leaves the flat memory alone.
LEMMA FetchStepIs ==
    ASSUME PortCalled("fetch", request'.addr, INST_SIZE, FALSE, <<>>), UNCHANGED <<vmem, th, value>>
    PROVE  Memory!FlatNext
<1>1. request'.n = request.n + 1 /\ request'.port = "fetch"
    BY DEF PortCalled
<1>2. Memory!Fetch
    BY <1>1 DEF Memory!Fetch, Memory!Calls
<1> QED BY <1>2 DEF Memory!FlatNext

\* Every step of the ports is a step of the flat memory.
LEMMA PortsStep ==
    ASSUME IInv, Ports
    PROVE  Memory!FlatNext
<1>1. CASE PortRead
    <2>1. PICK a, n, signed : signed \in BOOLEAN /\ PortRange(a, n) /\ ReadPort(a, n, signed)
        BY <1>1 DEF PortRead
    <2>2. ReadFrom(vmem, vmem', a, n, signed) /\ th' = th
        BY <2>1, ReadPortIs DEF IInv, ReadPort, threadVars
    <2> QED BY <2>1, <2>2, ReadIs
<1>2. CASE PortWrite
    <2>1. PICK a, w : w \in Seq(ByteValues) /\ PortRange(a, Len(w)) /\ WritePort(a, w)
        BY <1>2 DEF PortWrite
    <2>2. WrittenTo(vmem, vmem', a, w) /\ th' = th /\ value' = value
        BY <2>1, WritePortIs DEF IInv, WritePort, threadVars
    <2> QED BY <2>1, <2>2, WriteToIs
<1>3. CASE PortFetch
    <2>1. PICK pc \in FetchPCs, part \in {"opcode", "operand"} : FetchPort(pc, part)
        BY <1>3 DEF PortFetch
    <2>2. PortCalled("fetch", pc, INST_SIZE, FALSE, <<>>)
        BY <2>1, FetchPortIs DEF IInv
    <2>3. UNCHANGED <<vmem, th, value>>
        BY <2>1 DEF FetchPort, threadVars
    <2>4. PortCalled("fetch", request'.addr, INST_SIZE, FALSE, <<>>)
        BY <2>2 DEF PortCalled
    <2> QED BY <2>3, <2>4, FetchStepIs
<1> QED BY <1>1, <1>2, <1>3, PortsAre

\* A step of the functional simulator or of the start-up leaves the ports alone.
LEMMA Unseen ==
    ASSUME vmem' = vmem, request' = request, value' = value
    PROVE  Memory!FlatNext
BY RunIs

\* Copying the segments is a step of the flat memory.
LEMMA CopyTextStep ==
    ASSUME IInv, CopyText
    PROVE  Memory!FlatNext
<1>1. stage = "copying" /\ request' = request /\ value' = value
    BY DEF CopyText, portVars
<1>2. vmem.mem = EmptyTable
    BY <1>1 DEF IInv, Early
<1>3. vmem'.mem = vmem.mem
    <2>1. vmem'.mem = EmptyTable \/ vmem' = vmem
        BY DEF CopyText
    <2> QED BY <1>2, <2>1
<1> QED BY <1>1, <1>3, RunIs

\* Handing the thread to the core is a step of the flat memory.
LEMMA StartCoreStep ==
    ASSUME IInv, StartCore
    PROVE  Memory!FlatNext
<1>1. stage = "skipping" /\ th' = Skipped /\ CopyFrom(Skipped)
    BY DEF StartCore
<1>2. th \in Running
    BY <1>1 DEF IInv, Working, Active
<1> DEFINE u == Skipped
<1>3. u \in Running
    <2> HIDE DEF u
    <2>1. u = Skipped
        BY DEF u
    <2> QED BY <1>2, <2>1, SkippedIs DEF Alike
<1> HIDE DEF u
<1>4. CopiedFrom(u, vmem, vmem', request, request') /\ value' = value
    BY <1>1, <1>3, CopyFromIs DEF IInv, u
<1>5. u.mem = th'.mem
    BY <1>1 DEF u
<1> QED BY <1>4, <1>5, CopyIs

\* Handling a trap is a step of the flat memory.
LEMMA HandleTrapStep ==
    ASSUME IInv, HandleTrap
    PROVE  Memory!FlatNext
<1>1. CASE UNCHANGED <<vmem, portVars>>
    BY <1>1, Unseen DEF portVars
<1>2. CASE ~UNCHANGED <<vmem, portVars>>
    <2>1. /\ stage = "core"
          /\ \E h \in HostBytes : TrapNow([th EXCEPT !.blocked = FALSE], h)
          /\ stage' = stage
          /\ CopyFrom([th' EXCEPT !.arch_PC = th'.regs_PC])
        BY <1>2 DEF HandleTrap, Core
    <2>2. PICK h \in HostBytes : TrapNow([th EXCEPT !.blocked = FALSE], h)
        BY <2>1
    <2>3. th \in Running /\ file \in Files /\ file.pos \in 1 .. Len(file.traps) + 1
        BY <2>1 DEF IInv, Typed, Working, Active
    <2> DEFINE t == Blocking(th, FALSE)
               v == AtPC(th')
    <2>4. t \in Running
        BY <2>3, BlockingIs DEF Alike
    <2>5. TrapNow(t, h)
        BY <2>2 DEF Blocking
    <2> HIDE DEF t
    <2>6. TrapOutcome(t)
        BY <2>3, <2>4, <2>5, TrapNowIs
    <2>7. th' \in Running
        <3>1. stage' \notin Stopped
            BY <2>1 DEF Stopped
        <3> QED BY <2>6, <3>1 DEF TrapOutcome, TrapEnds, TrapOn, Stepped
    <2>8. CopyFrom(v)
        BY <2>1 DEF AtPC
    <2>9. Alike(th', v)
        BY <2>7, AtPCIs
    <2> HIDE DEF v
    <2>10. v \in Running /\ v.mem = th'.mem
        BY <2>9, AlikeIs DEF Alike
    <2>11. CopiedFrom(v, vmem, vmem', request, request') /\ value' = value
        BY <2>8, <2>10, CopyFromIs DEF IInv
    <2> QED BY <2>10, <2>11, CopyIs
<1> QED BY <1>1, <1>2

\* Every step is a step of the flat memory or leaves it alone.
LEMMA FlatStep ==
    ASSUME IInv, [Next]_vars
    PROVE  [Memory!FlatNext]_(Memory!flatVars)
<1>1. CASE UNCHANGED vars
    BY <1>1, Unseen DEF vars, portVars
<1>2. CASE read_config_from_file \/ Load \/ Decode \/ Restore \/ Skip \/ save_checkpoint \/ Record
           \/ RecordStop \/ RunAhead
    <2>1. vmem' = vmem /\ request' = request /\ value' = value
        BY <1>2 DEF read_config_from_file, Load, Decode, Restore, Skip, save_checkpoint, Record,
                    RecordStop, RunAhead, portVars
    <2> QED BY <2>1, Unseen
<1>3. CASE Ended
    BY <1>1, <1>3 DEF Ended
<1> QED BY <1>1, <1>2, <1>3, CopyTextStep, StartCoreStep, HandleTrapStep, PortsStep DEF Next, StartUp

\* The flat memory starts empty.
LEMMA FlatStart ==
    ASSUME Init
    PROVE  Memory!FlatInit
<1>1. vmem.mem = EmptyTable
    BY DEF Init, NoVMEM
<1>2. Flat(EmptyTable) = [x \in MemAddrs |-> ByteAt(EmptyTable, x)]
    BY FlatIs
<1> HIDE DEF ByteAt
<1>3. Flat(EmptyTable) = [x \in MemAddrs |-> 0]
    BY <1>2, EmptyTableIsZero
<1> QED BY <1>1, <1>3 DEF Memory!FlatInit

\* The memory behind the ports, with its blocks, is one flat memory.
THEOREM FlatMemoryIsImplemented == Spec => PortsAreFlat
<1>1. Init => Memory!FlatInit
    BY FlatStart
<1>2. IInv /\ [Next]_vars => [Memory!FlatNext]_(Memory!flatVars)
    BY FlatStep
<1> QED BY <1>1, <1>2, Inductive, PTL DEF Spec, PortsAreFlat, Memory!FlatSpec

=============================================================================
