------------------------------ MODULE MCCoSim ------------------------------
EXTENDS CoSim

Inst(op, rd, rs, imm, target) == [op |-> op, rd |-> rd, rs |-> rs, imm |-> imm, target |-> target]
Add(rd, rs, imm) == Inst("add", rd, rs, imm, 0)
Load(rd, a) == Inst("load", rd, 0, a, 0)
Dload(rd, a) == Inst("dload", rd, 0, a, 0)
Store(rs, a) == Inst("store", 0, rs, a, 0)
Bnez(rs, t) == Inst("bnez", 0, rs, 0, TextBase + t)
Syscall == Inst("trap", 0, 0, 0, 0)

MCPrograms ==
    << \* a counter loop with a store, then a call that fills a buffer of the program
       << Add(1, 0, 2), Store(1, 2), Add(1, 1, 3), Bnez(1, 1), Add(2, 0, 3), Store(2, 1),
          Load(3, 2), Syscall, Load(3, 1), Add(2, 0, 1), Syscall >>,
       \* stores to both words of one doubleword, read back as a pair; no call but exit
       << Add(1, 0, 1), Store(1, 2), Add(1, 1, 1), Store(1, 3), Dload(2, 2),
          Store(3, 2), Store(2, 3), Store(2, 2), Add(2, 0, 1), Syscall >>,
       \* two calls in a row, the first right after stores to its buffer and beside it
       << Add(2, 0, 2), Store(2, 0), Store(2, 1), Syscall, Syscall, Load(3, 1),
          Add(2, 0, 1), Syscall >> >>

\* A call in a loop: the core keeps committing after it.
MCLoopPrograms ==
    << << Add(2, 0, 2), Syscall, Add(1, 0, 1), Bnez(1, 2), Add(2, 0, 1), Syscall >> >>

MCInitMem == [a \in 0 .. NumWords - 1 |-> a % NumVals]
============================================================================
