---------------------------- MODULE TargetMemory ----------------------------
(***************************************************************************)
(* Simulated memory (memory.h, memory.cc, veri_memory): a table of blocks  *)
(* that are allocated, cleared, when they are first accessed.  The thread  *)
(* of the functional simulator and the testbench's memory each have one.   *)
(*                                                                         *)
(* A byte has Byte values; a half is two bytes and a word four, lowest     *)
(* address first (the build is little endian).  An instruction takes       *)
(* INST_SIZE bytes, the opcode first.                                      *)
(***************************************************************************)
EXTENDS Integers, Sequences, SequencesExt

CONSTANTS Byte,         \* number of values of a byte
          BLOCK_SIZE,   \* MEM_BLOCK_SIZE
          TABLE_SIZE,   \* MEM_TABLE_SIZE
          INST_SIZE     \* SS_INST_SIZE

ASSUME TargetMemoryAssumption ==
    /\ Byte \in Nat /\ Byte % 2 = 0 /\ Byte > 0
    /\ BLOCK_SIZE \in Nat /\ BLOCK_SIZE >= 16 /\ BLOCK_SIZE % 4 = 0
    /\ INST_SIZE \in Nat /\ INST_SIZE >= 2 /\ BLOCK_SIZE % INST_SIZE = 0
    /\ TABLE_SIZE \in Nat \ {0}
    /\ TABLE_SIZE * BLOCK_SIZE <= Byte * (Byte * (Byte * Byte))

ByteValues == 0 .. Byte - 1
Blocks == 0 .. TABLE_SIZE - 1
MemAddrs == 0 .. (TABLE_SIZE * BLOCK_SIZE) - 1

Absent == <<>>                                          \* a NULL pointer
mem_newblock == [o \in 0 .. BLOCK_SIZE - 1 |-> 0]
EmptyTable == [b \in Blocks |-> Absent]
Tables == [Blocks -> {Absent} \cup [0 .. BLOCK_SIZE - 1 -> ByteValues]]

MEM_BLOCK(a) == a \div BLOCK_SIZE
MEM_OFFSET(a) == a % BLOCK_SIZE
Present(m, a) == m[MEM_BLOCK(a)] # Absent

\* __MEM_ACCESS: the block is there after the first access.
BlockOf(m, a) == IF Present(m, a) THEN m[MEM_BLOCK(a)] ELSE mem_newblock
Touch(m, a) == [m EXCEPT ![MEM_BLOCK(a)] = BlockOf(m, a)]

\* n bytes from a on; an aligned access stays in its block.
ReadBytes(m, a, n) ==
    LET block == BlockOf(m, a) IN [k \in 1 .. n |-> block[MEM_OFFSET(a) + k - 1]]

\* The bytes w from a on, in as many blocks as they take.
WriteBytes(m, a, w) ==
    LET there == a .. a + Len(w) - 1
        byte(x) == IF x \in there THEN w[x - a + 1] ELSE BlockOf(m, x)[MEM_OFFSET(x)]
    IN  [b \in Blocks |-> IF \A x \in there : MEM_BLOCK(x) # b THEN m[b]
                          ELSE [o \in 0 .. BLOCK_SIZE - 1 |-> byte(b * BLOCK_SIZE + o)]]

\* What a memory reads as, absent blocks included.
Flat(m) == [a \in MemAddrs |-> BlockOf(m, a)[MEM_OFFSET(a)]]

----------------------------------------------------------------------------
(* Words                                                                   *)

WordOf(n) ==
    LET m == n \div Byte
        k == m \div Byte
    IN  <<n % Byte, m % Byte, k % Byte, (k \div Byte) % Byte>>
NumOf(w) == w[1] + Byte * (w[2] + Byte * (w[3] + Byte * w[4]))

Extend(w, fill) == [k \in 1 .. 4 |-> IF k <= Len(w) THEN w[k] ELSE fill]
Negative(w) == w[Len(w)] >= Byte \div 2

\* MEM_READ_UNSIGNED_BYTE, _HALF and MEM_READ_SIGNED_BYTE, _HALF.
Unsigned(w) == Extend(w, 0)
\* Mutant of Signed: the extension of a negative value is -1, not a byte.
Signed_wide(w) == Extend(w, IF Negative(w) THEN -1 ELSE 0)

Signed(w) == Extend(w, IF Negative(w) THEN Byte - 1 ELSE 0)

----------------------------------------------------------------------------
(* Copies of a whole table, and instruction fetch                          *)

\* Mutant of copy_mem: a block that the master does not have is kept.
copy_mem_kept(table, master) ==
    [b \in DOMAIN table |-> IF master[b] = Absent THEN table[b] ELSE master[b]]

\* veri_memory::copy_mem and copy_text_mem: a block of the master is copied,
\* into a new block if need be; a block the master does not have is freed.
copy_mem(table, master) ==
    [b \in DOMAIN table |-> master[b]]

\* __UNCHK_MEM_ACCESS, __UNCHK_TEXT_MEMORY_ACCESS: no check for a NULL block,
\* nor for the end of the table.
NullFetch == <<>>
Unchecked(m, a) == IF a \in MemAddrs /\ Present(m, a) THEN ReadBytes(m, a, INST_SIZE) ELSE NullFetch

\* veri_memory::fetch.  Code in the first block is in the data table: it is the
\* routine that sets up the registers.
Fetched(text, mem, base, size, pc) ==
    LET p == pc - (pc % INST_SIZE) IN
    IF pc < BLOCK_SIZE THEN Unchecked(mem, p)
    ELSE IF pc < base \/ pc > base + size THEN [k \in 1 .. INST_SIZE |-> 0]
    ELSE Unchecked(text, p)
============================================================================
