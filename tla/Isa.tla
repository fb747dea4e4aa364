-------------------------------- MODULE Isa --------------------------------
(***************************************************************************)
(* What the debug buffer promises its reader: the program executed in      *)
(* order, one instruction after the other, a system call included.         *)
(***************************************************************************)
EXTENDS Integers, Sequences

CONSTANTS
    Programs,       \* programs: sequences of instructions
    TextBase,       \* pc of the first instruction
    NumRegs,        \* registers 1 .. NumRegs; SysReg is one of them
    NumVals,        \* register and memory values are 0 .. NumVals - 1
    NumWords,       \* words of data memory, even
    SysReg,         \* register of the system call code and result ($r2)
    ExitCode,       \* SS_SYS_exit
    CallBuf,        \* address a system call may store its answer to
    InitMem,        \* memory the loader leaves
    COMMIT_WIDTH    \* instructions that may leave in one step

Regs == 1 .. NumRegs
Vals == 0 .. NumVals - 1
Addrs == 0 .. NumWords - 1
ZeroRegs == [r \in Regs |-> 0]

VARIABLES program, pc, regs, mem

vars == <<program, pc, regs, mem>>

TextPCs(prog) == TextBase .. TextBase + Len(Programs[prog]) - 1
InstAt(prog, p) == Programs[prog][p - TextBase + 1]

Source(i, r) == IF i.rs = 0 THEN 0 ELSE r[i.rs]

\* Destinations of instruction i with registers r and memory m, in order.
Results(i, r, m) ==
    CASE i.op = "add" -> <<[n |-> i.rd, value |-> (Source(i, r) + i.imm) % NumVals]>>
      [] i.op = "load" -> <<[n |-> i.rd, value |-> m[i.imm]]>>
      [] i.op = "dload" -> <<[n |-> i.rd, value |-> m[i.imm]],
                             [n |-> i.rd + 1, value |-> m[i.imm + 1]]>>
      [] OTHER -> <<>>

WriteRegs(r, rdst) ==
    [n \in Regs |-> IF \E k \in DOMAIN rdst : rdst[k].n = n
                    THEN rdst[CHOOSE k \in DOMAIN rdst : rdst[k].n = n].value
                    ELSE r[n]]
WriteMem(i, r, m) == IF i.op = "store" THEN [m EXCEPT ![i.imm] = Source(i, r)] ELSE m
NextPC(i, r, p) == IF i.op = "bnez" /\ Source(i, r) # 0 THEN i.target ELSE p + 1

\* One instruction that is not a system call; s is [pc, regs, mem].
Exec(prog, s) ==
    LET i == InstAt(prog, s.pc) IN
    [pc |-> NextPC(i, s.regs, s.pc),
     regs |-> WriteRegs(s.regs, Results(i, s.regs, s.mem)),
     mem |-> WriteMem(i, s.regs, s.mem)]

\* n instructions, none of them a system call.
Steps(n) ==
    LET at[k \in 0 .. n] == IF k = 0 THEN [pc |-> pc, regs |-> regs, mem |-> mem]
                            ELSE Exec(program, at[k - 1])
    IN  /\ \A k \in 0 .. n - 1 :
              at[k].pc \in TextPCs(program) /\ InstAt(program, at[k].pc).op # "trap"
        /\ pc' = at[n].pc /\ regs' = at[n].regs /\ mem' = at[n].mem
        /\ UNCHANGED program

\* A system call puts its result in SysReg and may fill its buffer.
SystemCall ==
    /\ pc \in TextPCs(program) /\ InstAt(program, pc).op = "trap"
    /\ regs[SysReg] # ExitCode
    /\ \E v \in Vals : regs' = [regs EXCEPT ![SysReg] = v]
    /\ \E v \in Vals : mem' = [mem EXCEPT ![CallBuf] = v]
    /\ pc' = pc + 1
    /\ UNCHANGED program

Init ==
    /\ program \in DOMAIN Programs
    /\ pc = TextBase
    /\ regs = ZeroRegs
    /\ mem = InitMem

Next == (\E n \in 1 .. COMMIT_WIDTH : Steps(n)) \/ SystemCall

Spec == Init /\ [][Next]_vars
============================================================================
