------------------------------- MODULE CoSim -------------------------------
(***************************************************************************)
(* Co-simulation: the testbench (testbenches/simulate.sv) drives the core  *)
(* and the functional simulator (simulation/functional-sim) in one process *)
(* and compares every instruction the core commits with the next entry of  *)
(* the functional simulator's debug buffer.                                *)
(*                                                                         *)
(* Three memories and three register states have to agree without being    *)
(* equal: the functional simulator runs up to DEBUG_SIZE instructions      *)
(* ahead (fs), the core's committed stores reach the testbench's memory    *)
(* (vmem) later (stq), and a system call is executed by the functional     *)
(* simulator for both.                                                     *)
(*                                                                         *)
(* Words stand for bytes, a register value for its 32 bits; the core is    *)
(* what it commits: some instructions in program order, at most            *)
(* COMMIT_WIDTH lanes in a cycle.                                          *)
(*                                                                         *)
(* A system call other than exit parts the two sides: the checker is set   *)
(* to skip the register set-up routine once more, the core goes on behind  *)
(* the call with the registers it has.  What is promised ends there (see   *)
(* `resumed`); the model follows MaxBeyond steps more.                     *)
(***************************************************************************)
EXTENDS DebugBuffer, SequencesExt, FiniteSets

CONSTANTS
    Programs, TextBase, NumRegs, NumVals, NumWords, SysReg, ExitCode,
    CallBuf, InitMem, COMMIT_WIDTH,     \* see Isa
    MaxStq,             \* committed stores the store queue can hold
    StopAfterMismatch,  \* STOP_AFTER_MISMATCH
    NetSims,            \* the kinds of core to simulate: a set of values of netSim
    MaxBeyond           \* steps of the core to follow after an answered system call

VARIABLES
    program,            \* the binary of the job
    netSim,             \* the core is a netlist (simulate_power.sv)
    \* functional simulator
    fs,                 \* [pc, regs, mem, blocked, db, arch_PC]
    \* testbench
    vmem,               \* data memory of VMEM
    routine,            \* register set-up code at address 0: [image, target]
    LOGICAL_REG,
    skip_instructions,
    lastCommitPC,
    numMismatches,
    status,             \* "running", "finish" ($finish), "exit", "assert"
    \* core
    dpc, dregs,         \* committed pc and registers
    stq,                \* committed stores that vmem has not seen
    \* history
    aregs, amem,        \* registers and memory after the instructions taken from fs.db
    faulted,            \* the core has committed something wrong
    beyond,             \* steps of the core from the first answered call on, itself included
    overtaken           \* at the call a store to the buffer it fills was not written yet

given == <<program, netSim>>
coreVars == <<dpc, dregs, stq>>
checkVars == <<fs, lastCommitPC, numMismatches, status, aregs, amem>>
routineVars == <<routine, LOGICAL_REG>>
history == <<faulted, beyond, overtaken>>
vars == <<given, coreVars, checkVars, routineVars, vmem, skip_instructions, history>>

----------------------------------------------------------------------------
(* The program                                                             *)

ISA == INSTANCE Isa WITH pc <- fs.arch_PC, regs <- aregs, mem <- amem

Regs == ISA!Regs
Vals == ISA!Vals
Addrs == ISA!Addrs
InText(p) == p \in ISA!TextPCs(program)
IsTrap(p) == InText(p) /\ ISA!InstAt(program, p).op = "trap"

\* Instructions of the routine: two per register and a jump.
InitLen == 2 * NumRegs + 1

ASSUME CoSimAssumption ==
    /\ DEBUG_SIZE >= 2
    /\ NumRegs \in Nat /\ SysReg \in 1 .. NumRegs
    /\ NumVals \in Nat \ {0} /\ NumVals % 2 = 0 /\ ExitCode \in Vals
    /\ NumWords \in Nat /\ NumWords % 2 = 0 /\ CallBuf \in Addrs
    /\ InitMem \in [Addrs -> Vals]
    /\ TextBase \in Nat /\ TextBase >= InitLen
    /\ COMMIT_WIDTH \in Nat /\ COMMIT_WIDTH >= 2
    /\ MaxStq \in Nat /\ MaxStq >= COMMIT_WIDTH
    /\ StopAfterMismatch \in Nat
    /\ NetSims \subseteq BOOLEAN
    /\ MaxBeyond \in Nat \ {0}

Instructions == [op : {"add", "load", "dload", "store", "bnez", "trap"},
                 rd : 0 .. NumRegs, rs : 0 .. NumRegs, imm : Nat, target : Nat]
Executable(i) ==
    /\ i.op \in {"add", "load", "dload"} => i.rd \in Regs
    /\ i.op \in {"load", "dload", "store"} => i.imm \in Addrs
    /\ i.op = "dload" => i.rd + 1 \in Regs /\ i.imm + 1 \in Addrs

\* The call that ends a program.
ExitPC(prog) == TextBase + Len(Programs[prog]) - 1

\* A program ends with a call whose code is set right before it; no branch leads
\* there.  The last conjunct is what the checker needs: it takes an instruction
\* with the pc of the last one it saw for the second half of a split.
ASSUME ProgramsAssumption ==
    \A prog \in DOMAIN Programs :
        LET text == ISA!TextPCs(prog)
            Inst(p) == ISA!InstAt(prog, p)
            exit == ExitPC(prog)
        IN  /\ Programs[prog] \in Seq(Instructions)
            /\ \A p \in text : Executable(Inst(p))
            /\ Len(Programs[prog]) >= 2
            /\ Inst(exit).op = "trap"
            /\ LET i == Inst(exit - 1)
               IN  i.op = "add" /\ i.rd = SysReg /\ i.rs = 0 /\ i.imm = ExitCode
            /\ \A p \in text : Inst(p).op = "bnez" =>
                   /\ Inst(p).target \in text \ {exit}
                   /\ Inst(p).target # p

----------------------------------------------------------------------------
(* The functional simulator                                                *)

\* get_arch_mem_value: the doubleword around word a.
Doubleword(a) == 2 * (a \div 2)
\* Mutant of ArchMemValue: the words of the doubleword in the other order.
ArchMemValue_swapped(m, a) == <<m[2 * (a \div 2) + 1], m[2 * (a \div 2)]>>
ArchMemValue(m, a) == <<m[Doubleword(a)], m[Doubleword(a) + 1]>>

SetDoubleword(m, a, words) == [m EXCEPT ![Doubleword(a)] = words[1],
                                        ![Doubleword(a) + 1] = words[2]]

\* Memory before the instructions of the buffer that nobody has taken: the
\* before-image of the oldest store to a doubleword.
StoresTo(b, a) == {k \in 1 .. b.length : /\ Window(b)[k].a_inst.op = "store"
                                         /\ Doubleword(Window(b)[k].a_addr) = Doubleword(a)}
Undone(f) == [a \in Addrs |->
                 IF StoresTo(f.db, a) = {} THEN f.mem[a]
                 ELSE Window(f.db)[Min(StoresTo(f.db, a))].real[a - Doubleword(a) + 1]]

\* The stores of an entry that is taken.
Replayed(e, m) == IF e.a_inst.op # "store" THEN m ELSE SetDoubleword(m, e.a_addr, e.store_data)

\* The destinations of an instruction, at most two.
Destinations(b, rdst) ==
    CASE Len(rdst) = 0 -> b
      [] Len(rdst) = 1 -> push_operand_actual(b, rdst[1].n, rdst[1].value)
      [] OTHER -> push_operand_actual(push_operand_actual(b, rdst[1].n, rdst[1].value),
                                      rdst[2].n, rdst[2].value)

\* One instruction.  A system call only stops the simulator (trap_stop).
func_sim(f) ==
    LET i == ISA!InstAt(program, f.pc)
        next == ISA!Exec(program, [pc |-> f.pc, regs |-> f.regs, mem |-> f.mem])
        started == start(f.db)
        addressed == IF i.op \in {"load", "dload", "store"}
                     THEN push_address_actual(started, i.imm, ArchMemValue(f.mem, i.imm))
                     ELSE started
        operands == Destinations(addressed, ISA!Results(i, f.regs, f.mem))
    IN  [f EXCEPT !.db = push_instr_actual(operands, i, i.op = "store", f.pc, next.pc,
                                           IF i.op = "store" THEN ArchMemValue(next.mem, i.imm)
                                                             ELSE <<0, 0>>),
                  !.regs = next.regs, !.mem = next.mem, !.pc = next.pc,
                  !.blocked = f.blocked \/ i.op = "trap"]

\* At most DEBUG_SIZE rounds: each fills an entry.
run_ahead(f) ==
    LET ran[k \in 0 .. DEBUG_SIZE] ==
            IF k = 0 THEN f
            ELSE LET g == ran[k - 1]
                 IN  IF ~g.blocked /\ hungry(g.db) THEN func_sim(g) ELSE g
    IN  ran[DEBUG_SIZE]

CanGetInstr(f) == CanPop(f.db) /\ FirstHasPC(f.db, f.arch_PC)
Taken(f) == f.db.db[f.db.head]
\* Mutant of AfterGetInstr: the committed pc is advanced, not looked up.
AfterGetInstr_next(f) == [f EXCEPT !.db = pop(f.db), !.arch_PC = f.arch_PC + 1]
AfterGetInstr(f) == [f EXCEPT !.db = pop(f.db), !.arch_PC = Taken(f).a_next_pc]

\* ss_syscall: result v, and word w in the program's buffer (see Syscall).
trap_now(f, v, w) == [f EXCEPT !.regs[SysReg] = v, !.mem[CallBuf] = w]
trap_resume(f) == run_ahead([f EXCEPT !.blocked = FALSE])

----------------------------------------------------------------------------
(* The checker.  c is [fs, last, mismatches, status, aregs, amem]; a lane  *)
(* is [pc, dest, value, fission].                                          *)

Checker == [fs |-> fs, last |-> lastCommitPC, mismatches |-> numMismatches,
            status |-> status, aregs |-> aregs, amem |-> amem]
SetChecker(c) ==
    /\ fs' = c.fs /\ lastCommitPC' = c.last /\ numMismatches' = c.mismatches
    /\ status' = c.status /\ aregs' = c.aregs /\ amem' = c.amem

\* Mutant of Differs: only the pc is compared.
Differs_pc(lane, entry) == lane.pc # entry.a_pc
\* The messages of $getRetireInstPC; a second half of a split is not compared.
Differs(lane, entry) ==
    \/ lane.pc # entry.a_pc
    \/ /\ Len(entry.a_rdst) > 0 /\ ~lane.fission
       /\ \/ lane.dest # entry.a_rdst[1].n
          \/ lane.value # entry.a_rdst[1].value

\* What taking the entry of an instruction does to the checker; n: messages.
Take(c, ahead, n) ==
    [c EXCEPT !.fs = AfterGetInstr(ahead), !.mismatches = n,
              !.aregs = ISA!WriteRegs(c.aregs, Taken(ahead).a_rdst),
              !.amem = Replayed(Taken(ahead), c.amem)]

\* Mutant of getRetireInstPC: the simulator runs ahead at the start and at calls only.
getRetireInstPC_starved(c, lane) ==
    LET n == c.mismatches + (IF Differs(lane, Taken(c.fs)) THEN 1 ELSE 0)
    IN  IF ~CanGetInstr(c.fs) THEN [c EXCEPT !.status = "assert"]
        ELSE [Take(c, c.fs, n) EXCEPT !.status = IF n > StopAfterMismatch THEN "exit" ELSE c.status]

getRetireInstPC(c, lane) ==
    LET ahead == run_ahead(c.fs)
        n == c.mismatches + (IF Differs(lane, Taken(ahead)) THEN 1 ELSE 0)
    IN  IF ~CanGetInstr(ahead) THEN [c EXCEPT !.fs = ahead, !.status = "assert"]
        ELSE [Take(c, ahead, n) EXCEPT !.status = IF n > StopAfterMismatch THEN "exit" ELSE c.status]

\* Mutant of VerifyLane: the second half of a split is verified too.
VerifyLane_halves(c, lane) ==
    IF c.status # "running" THEN c ELSE getRetireInstPC([c EXCEPT !.last = lane.pc], lane)

\* A lane with the pc of the lane before it is taken for its second half.
VerifyLane(c, lane) ==
    IF c.status # "running" \/ c.last = lane.pc THEN c
    ELSE getRetireInstPC([c EXCEPT !.last = lane.pc], lane)

\* In a netlist only the pc of the first lane is known; that of another lane
\* equals nothing and is not reported.  A first half takes no entry, its second
\* half does, uncompared; messages are all there is.
UnknownPC == -2
NetSimLane(lanes, i) ==
    [pc |-> IF i = 1 THEN lanes[i].pc ELSE UnknownPC, dest |-> lanes[i].dest,
     value |-> lanes[i].value, fission |-> lanes[i].fission, later |-> i > 1,
     second |-> i > 1 /\ lanes[i - 1].fission]
NetSimDiffers(lane, entry) ==
    \/ lane.pc # entry.a_pc /\ ~lane.later
    \/ /\ Len(entry.a_rdst) > 0 /\ ~lane.second
       /\ \/ lane.dest # entry.a_rdst[1].n
          \/ lane.value # entry.a_rdst[1].value
getRetireInstPCNetSim(c, lane) ==
    LET ahead == run_ahead(c.fs)
        n == c.mismatches + (IF NetSimDiffers(lane, Taken(ahead)) THEN 1 ELSE 0)
    IN  IF lane.fission THEN c
        ELSE IF ~CanGetInstr(ahead) THEN [c EXCEPT !.fs = ahead, !.status = "assert"]
        ELSE Take(c, ahead, n)
VerifyNetSimLane(c, lane) ==
    IF c.status # "running" \/ (c.last = lane.pc /\ ~lane.later) THEN c
    ELSE getRetireInstPCNetSim([c EXCEPT !.last = lane.pc], lane)

\* The lanes of a cycle, in order.
Verified(lanes) ==
    LET after[i \in 0 .. Len(lanes)] ==
            IF i = 0 THEN Checker
            ELSE IF netSim THEN VerifyNetSimLane(after[i - 1], NetSimLane(lanes, i))
            ELSE VerifyLane(after[i - 1], lanes[i])
    IN  after[Len(lanes)]

VERIFY_INSTRUCTIONS(lanes) ==
    IF skip_instructions # 0
    THEN /\ skip_instructions' = skip_instructions - Len(lanes)
         /\ UNCHANGED checkVars
    ELSE /\ SetChecker(Verified(lanes))
         /\ UNCHANGED skip_instructions

----------------------------------------------------------------------------
(* The core                                                                *)

StoreIn(s, m) == [m EXCEPT ![s.addr] = s.value]

\* Memory m under the stores of queue q: the youngest store to an address counts.
PendingTo(q, a) == {k \in DOMAIN q : q[k].addr = a}
Overlaid(q, m) == [a \in Addrs |-> IF PendingTo(q, a) = {} THEN m[a]
                                   ELSE q[Max(PendingTo(q, a))].value]
\* Memory as a load of the core sees it: the store queue over VMEM.
CoreMemory == Overlaid(stq, vmem)

Lane(p, d, v, half) == [pc |-> p, dest |-> d, value |-> v, fission |-> half]

\* Lanes of an instruction with results rdst; two results are two lanes.
LanesOf(p, rdst) ==
    CASE Len(rdst) = 0 -> <<Lane(p, 0, 0, FALSE)>>
      [] Len(rdst) = 1 -> <<Lane(p, rdst[1].n, rdst[1].value, FALSE)>>
      [] OTHER -> <<Lane(p, rdst[1].n, rdst[1].value, TRUE),
                    Lane(p, rdst[2].n, rdst[2].value, FALSE)>>

\* What one instruction does to s = [pc, regs, mem, stores, lanes].
Half == NumVals \div 2
RetireRoutine(s) ==
    LET r == s.pc \div 2 + 1
        v == IF s.pc % 2 = 0 THEN Half * (routine.image[r] \div Half)           \* LUI
                             ELSE s.regs[r] + (routine.image[r] % Half)          \* ORI
    IN  IF s.pc = InitLen - 1
        THEN [s EXCEPT !.pc = routine.target, !.lanes = @ \o LanesOf(s.pc, <<>>)]
        ELSE [s EXCEPT !.pc = @ + 1, !.regs[r] = v,
                       !.lanes = @ \o LanesOf(s.pc, <<[n |-> r, value |-> v]>>)]
RetireProgram(s) ==
    LET i == ISA!InstAt(program, s.pc)
        next == ISA!Exec(program, s)
    IN  [pc |-> next.pc, regs |-> next.regs, mem |-> next.mem,
         stores |-> IF i.op = "store"
                    THEN Append(s.stores, [addr |-> i.imm, value |-> next.mem[i.imm]])
                    ELSE s.stores,
         lanes |-> s.lanes \o LanesOf(s.pc, ISA!Results(i, s.regs, s.mem))]
Retire(s) == IF s.pc < InitLen THEN RetireRoutine(s) ELSE RetireProgram(s)

\* A system call does not retire, and the jump of the routine ends a group.
CanRetire(p) == p < InitLen \/ (InText(p) /\ ~IsTrap(p))
Group(n) ==
    LET at[k \in 0 .. n] ==
            IF k = 0 THEN [pc |-> dpc, regs |-> dregs, mem |-> CoreMemory,
                           stores |-> <<>>, lanes |-> <<>>]
            ELSE Retire(at[k - 1])
    IN  at
IsGroup(at, n) ==
    /\ \A k \in 0 .. n - 1 : CanRetire(at[k].pc) /\ (k > 0 => at[k - 1].pc # InitLen - 1)
    /\ Len(at[n].lanes) <= COMMIT_WIDTH
    /\ Len(stq) + Len(at[n].stores) <= MaxStq

\* The simulation goes on, and the model follows it: the core has committed
\* nothing wrong and is still where instructions are.
Running ==
    /\ status = "running" /\ ~faulted
    /\ beyond <= MaxBeyond
    /\ dpc < InitLen \/ InText(dpc)

\* A step of the core, for the history.
StepOn == beyond' = IF beyond = 0 THEN 0 ELSE beyond + 1

\* The core commits n instructions.
Commit(n) ==
    LET at == Group(n) IN
    /\ Running
    /\ IsGroup(at, n)
    /\ dpc' = at[n].pc /\ dregs' = at[n].regs
    /\ stq' = stq \o at[n].stores
    /\ VERIFY_INSTRUCTIONS(at[n].lanes)
    /\ StepOn
    /\ UNCHANGED <<given, routineVars, vmem, faulted, overtaken>>

\* The core commits one instruction of the program wrongly.
Wrong(lane) ==
    [pc : {p \in ISA!TextPCs(program) : p \notin {lane.pc, lastCommitPC}},
     dest : {lane.dest}, value : {lane.value}, fission : {FALSE}]
    \cup (IF lane.dest = 0 THEN {}
          ELSE {Lane(lane.pc, d, lane.value, FALSE) : d \in Regs \ {lane.dest}}
               \cup {Lane(lane.pc, lane.dest, v, FALSE) : v \in Vals \ {lane.value}})
CommitFaulty ==
    /\ Running
    /\ InText(dpc) /\ CanRetire(dpc)
    /\ LET lanes == Group(1)[1].lanes IN
       /\ Len(lanes) = 1
       /\ \E wrong \in Wrong(lanes[1]) : VERIFY_INSTRUCTIONS(<<wrong>>)
    /\ faulted' = TRUE
    /\ StepOn
    /\ UNCHANGED <<given, coreVars, routineVars, vmem, overtaken>>

\* The oldest committed store leaves the store queue.
WriteStore ==
    /\ Running
    /\ stq # <<>>
    /\ vmem' = StoreIn(Head(stq), vmem)
    /\ stq' = Tail(stq)
    /\ UNCHANGED <<given, dpc, dregs, checkVars, routineVars, skip_instructions, history>>

----------------------------------------------------------------------------
(* System calls                                                            *)

\* init_registers
SetUp(image, target) ==
    /\ LOGICAL_REG' = image
    /\ routine' = [image |-> image, target |-> target]
    /\ skip_instructions' = InitLen

\* The core fetches behind the call (pc + 8), not from the routine.  The flush
\* resets the rename map: a register is whatever it now names.
Restart ==
    /\ dpc' = dpc + 1
    /\ dregs' \in [Regs -> {dregs[r] : r \in Regs}]

Trap(v, w) ==
    LET called == trap_now(fs, v, w)
        ahead == trap_resume(called)
        c == IF ~fs.blocked                                     \* assert(blocked)
             THEN [Checker EXCEPT !.status = "assert"]
             ELSE getRetireInstPC([Checker EXCEPT !.fs = ahead, !.aregs = called.regs,
                                                  !.amem = called.mem],
                                  Lane(dpc, 0, 0, FALSE))
    IN  /\ vmem' = called.mem                                   \* $copyMemory
        /\ overtaken' = (PendingTo(stq, CallBuf) # {})
        /\ beyond' = beyond + 1
        /\ SetChecker(c)
        /\ SetUp(called.regs, c.fs.arch_PC)
        /\ Restart

\* A system call at the head of the active list.
HANDLE_EXCEPTION ==
    /\ Running
    /\ IsTrap(dpc)
    /\ \/ /\ fs.regs[SysReg] = ExitCode
          /\ status' = "finish"
          /\ UNCHANGED <<fs, lastCommitPC, numMismatches, aregs, amem, vmem, routineVars,
                         skip_instructions, dpc, dregs, beyond, overtaken>>
       \/ /\ fs.regs[SysReg] # ExitCode
          /\ \E v, w \in Vals : Trap(v, w)
    /\ UNCHANGED <<given, stq, faulted>>

----------------------------------------------------------------------------

\* $initialize_sim, $copyMemory, init_registers, $funcsimRunahead.
Init ==
    LET loaded == [pc |-> TextBase, regs |-> ISA!ZeroRegs, mem |-> InitMem,
                   blocked |-> FALSE, db |-> NewBuffer, arch_PC |-> TextBase]
    IN  /\ program \in DOMAIN Programs
        /\ netSim \in NetSims
        /\ fs = run_ahead(loaded)
        /\ vmem = loaded.mem
        /\ LOGICAL_REG = loaded.regs
        /\ routine = [image |-> loaded.regs, target |-> TextBase]
        /\ skip_instructions = InitLen
        /\ lastCommitPC = -1                    \* x: equal to no pc
        /\ numMismatches = 0
        /\ status = "running"
        /\ dpc = 0
        /\ dregs \in {[r \in Regs |-> v] : v \in Vals}
        /\ stq = <<>>
        /\ aregs = loaded.regs /\ amem = loaded.mem
        /\ faulted = FALSE /\ beyond = 0 /\ overtaken = FALSE

\* $finish, exit and a failed assertion end the simulation; the model ends at a
\* fault too, MaxBeyond steps after an answered call, and outside the text.
Ended == ~Running /\ UNCHANGED vars

Next == \/ \E n \in 1 .. COMMIT_WIDTH : Commit(n)
        \/ CommitFaulty
        \/ WriteStore
        \/ HANDLE_EXCEPTION
        \/ Ended

\* The clock of the testbench ticks until the simulation ends, and a core that
\* can do something does.  This is WF_vars(Next) with its ENABLED written out:
\* a state with Running and no successor is a deadlock, which TLC reports.
Ticks == []<>~Running \/ []<><<TRUE>>_vars

Spec == Init /\ [][Next]_vars /\ Ticks

----------------------------------------------------------------------------
(* Properties                                                              *)

\* The core has gone on after a system call.  It does so behind the call, while
\* the checker skips InitLen lanes for a routine that does not run again: from
\* here on lanes and entries belong to different instructions.
resumed == beyond > 1

\* Types; the two pointers and the length of the debug buffer (debug.h) always
\* describe one window, whatever the order of run-ahead and get_instr.  The
\* count of lanes to skip is never negative before a system call is answered
\* (SkipsRequiredNumber: afterwards it is).
TypeOK ==
    /\ RingOK(fs.db)
    /\ fs.regs \in [Regs -> Vals] /\ fs.mem \in [Addrs -> Vals] /\ fs.blocked \in BOOLEAN
    /\ vmem \in [Addrs -> Vals]
    /\ LOGICAL_REG \in [Regs -> Vals]
    /\ skip_instructions \in Int /\ skip_instructions <= InitLen
    /\ beyond = 0 => skip_instructions >= 0
    /\ numMismatches \in Nat
    /\ status = "running" /\ ~netSim => numMismatches <= StopAfterMismatch
    /\ status \in {"running", "finish", "exit", "assert"}
    /\ dregs \in [Regs -> Vals]
    /\ Len(stq) <= MaxStq

\* A core that is right is never reported: however far the functional simulator
\* has run ahead and however commits are grouped, no comparison differs and no
\* assertion of the functional simulator fails, up to the first system call and
\* in answering it.
InStep == ~faulted /\ ~resumed => numMismatches = 0 /\ status \notin {"exit", "assert"}

\* The testbench's memory with the core's pending stores over it is what the
\* stores taken from the debug buffer wrote, and what the functional simulator
\* has once the stores still in the buffer are undone with their before-images.
\* A system call is answered in one memory and copied to the other; only the
\* word it filled may then differ, and only if a store committed before the call
\* was still in the store queue ($copyMemory does not wait for it): it is written
\* over the copy.
MemorySync ==
    ~faulted /\ ~resumed =>
        /\ amem = Undone(fs)
        /\ \A a \in Addrs : CoreMemory[a] = amem[a] \/ (overtaken /\ a = CallBuf)

\* The core continues after a system call with the registers the functional
\* simulator left (the comment in HANDLE_EXCEPTION says they are copied to the
\* register file): before an instruction of the program commits they are equal.
RegisterFileCopied == Running /\ InText(dpc) => dregs = aregs

\* "Skip the required number of instructions": the count of lanes to skip ends at
\* zero, where verification begins.  It is decremented by whole commit groups,
\* and below zero no instruction is verified any more.
SkipsRequiredNumber == skip_instructions >= 0

\* Before a system call has been answered, a wrong pc, destination or value of an
\* unsplit instruction of the program is reported in the cycle it commits.  (After
\* an answer the checker skips lanes of the program itself.)
FaultReported == faulted /\ ~resumed => numMismatches > 0

\* Up to the first answered call and including it, what is taken from the debug
\* buffer is the program executed in order (Isa), each instruction exactly once.
ImplementsIsa == ISA!Init /\ [][beyond' <= 1 => ISA!Next]_(ISA!vars)

\* The simulation of a terminating program ends, with $finish, or the core gets to
\* go on after a system call, unless it fails: run-ahead, checker, store queue and
\* call never wait for each other.
Finishes == <>(status = "finish" \/ faulted \/ resumed)
============================================================================
