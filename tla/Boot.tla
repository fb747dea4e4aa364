-------------------------------- MODULE Boot --------------------------------
(***************************************************************************)
(* From $initialize_sim to the core's first memory access                  *)
(* (vpi/src/initializeSim.cpp): the config file, the job, the thread, the  *)
(* testbench's copy of the text, predecoding, a checkpoint and the traps   *)
(* recorded after it, the skip, and the memory ports of the testbench.     *)
(*                                                                         *)
(* A checkpoint is written by an earlier process (role "record") that      *)
(* calls skip and save_checkpoint and then executes with every trap saved; *)
(* its main program is not in the repository.                              *)
(***************************************************************************)
EXTENDS Loader, FiniteSets, TLC

CONSTANTS
    Inputs,         \* [words, newline, jobs, recording]; recording is <<>> or
                    \* <<[argv, skip]>>
    Images,         \* number of a program -> its executable
    CkptFile,       \* the checkpoint file's name
    LI, PTR, SB, LB, TRAP,      \* opcode numbers: some instructions of ss.def
    ExitCode, ReadCode,         \* SS_SYS_exit, SS_SYS_read
    HostBytes,      \* what the host may deliver to a read
    PortAddrs, PortBytes, FetchPCs,     \* arguments of the ports
    MaxInsn,        \* bound: instructions executed by a process
    MaxOps          \* bound: calls of the ports

VARIABLES
    input, role, stage, options, argv,
    th,             \* THREAD[0]
    vmem,           \* VMEM[0]: [text, mem, base, size]
    file,           \* the checkpoint file: [saved, head, traps, pos]
    recorded,       \* history: instruction count -> state after it, when recorded
    request, value, fetched     \* the last call of a port and its results

\* The files of a job.  Text is below the data, sections are apart, and what is
\* not loaded has no bytes in the file.
WellFormed(image) ==
    /\ image.entry \in MemAddrs /\ image.entry % INST_SIZE = 0
    /\ image.dsize \in Nat /\ image.bsize \in Nat
    /\ image.sections \in Seq([kind : STRING, addr : Nat, bytes : Seq(ByteValues)])
    /\ \A i \in DOMAIN image.sections :
          LET s == image.sections[i]
              end == s.addr + Len(s.bytes)
          IN  /\ s.kind = "text" => end + SLACK <= DATA_BASE
              /\ s.kind \notin FromFile => s.bytes = <<>>
              /\ \A j \in DOMAIN image.sections \ {i} :
                    end <= image.sections[j].addr
                    \/ s.addr >= image.sections[j].addr + Len(image.sections[j].bytes)
ASSUME ImagesAssumption == \A p \in DOMAIN Images : WellFormed(Images[p])

\* Words of a job are not empty (tokenize).
Arguments(args) == args \in Seq(Seq(ByteValues)) /\ \A k \in DOMAIN args : args[k] # <<>>

\* A checkpoint is a file of its own, and the bound covers what is skipped.
ASSUME InputsAssumption ==
    \A i \in Inputs :
        /\ \A job \in DOMAIN i.jobs : Arguments(i.jobs[job])
        /\ i.recording # <<>> =>
              LET r == i.recording[1]
              IN  Arguments(r.argv) /\ r.argv # <<>> /\ r.skip \in 0 .. MaxInsn
        /\ Options(i, DOMAIN i.jobs).CHECKPOINT = NoFile
        /\ \A exists \in {DOMAIN i.jobs, DOMAIN i.jobs \cup {CkptFile}} :
              Options(i, exists).SKIP_AMT \in 0 .. MaxInsn

\* The opcodes have numbers of their own (ss.def), and so have the calls.
ASSUME CodesAssumption ==
    /\ LI \notin {PTR, SB, LB, TRAP} /\ PTR \notin {SB, LB, TRAP} /\ SB \notin {LB, TRAP}
    /\ LB # TRAP /\ ExitCode # ReadCode

ASSUME PortsAssumption ==
    /\ HostBytes \subseteq ByteValues /\ PortBytes \subseteq ByteValues
    /\ PortAddrs \subseteq {a \in MemAddrs : a % 4 = 0} /\ FetchPCs \subseteq MemAddrs
    /\ MaxInsn \in Nat /\ MaxOps \in Nat \ {0}

threadVars == <<th, file, recorded>>
portVars == <<request, value, fetched>>
vars == <<input, role, stage, options, argv, threadVars, vmem, portVars>>

ProgramOf(args) == args[1][1]
Image == Images[ProgramOf(argv)]

NoVMEM == [text |-> EmptyTable, mem |-> EmptyTable, base |-> 0, size |-> 0]
NoCheckpoint == [saved |-> FALSE, head |-> NewState, traps |-> <<>>, pos |-> 1]

Arch(t) == [regs |-> t.regs, mem |-> t.mem, regs_PC |-> t.regs_PC]

----------------------------------------------------------------------------
(* Loading                                                                 *)

Exists == DOMAIN input.jobs \cup (IF file.saved THEN {CkptFile} ELSE {})

read_config_from_file ==
    /\ stage = "config"
    /\ options' = Options(input, Exists)
    /\ LET job == JobFile(input) IN
       IF job \notin DOMAIN input.jobs
       THEN stage' = "exit" /\ UNCHANGED argv
       ELSE /\ argv' = input.jobs[job]
            /\ stage' = IF argv' = <<>> THEN "fatal" ELSE "loading"       \* tokenize
    /\ UNCHANGED <<input, role, threadVars, vmem, portVars>>

NewThreadOf(args) == NewThread(Images[ProgramOf(args)], args)

Load ==
    /\ stage = "loading"
    /\ IF ProgramOf(argv) \notin DOMAIN Images
       THEN stage' = "fatal" /\ UNCHANGED th
       ELSE /\ th' = NewThreadOf(argv)
            /\ stage' = IF th'.fatal THEN "fatal"
                        ELSE IF role = "record" THEN "decoding" ELSE "copying"
    /\ UNCHANGED <<input, role, options, argv, file, recorded, vmem, portVars>>

\* The constructor of veri_memory does not clear text_mem_table: after the
\* buffers of two large sections the allocator may return used memory, and
\* copy_text_mem writes through it.
CopyText ==
    /\ stage = "copying"
    /\ \/ /\ vmem' = [text |-> copy_mem(EmptyTable, th.mem), mem |-> EmptyTable,
                      base |-> th.ld_text_base, size |-> th.ld_text_size]
          /\ stage' = "decoding"
       \/ Image.large /\ stage' = "crash" /\ UNCHANGED vmem
    /\ UNCHANGED <<input, role, options, argv, threadVars, portVars>>

Decode ==
    /\ stage = "decoding"
    /\ \/ MustSwap(Image) /\ stage' = "fatal" /\ UNCHANGED th
       \/ ~MustSwap(Image) /\ ~CanDecode(th) /\ stage' = "crash" /\ UNCHANGED th
       \/ /\ ~MustSwap(Image) /\ CanDecode(th)
          /\ th' = decode(th)
          /\ stage' = "decoded"
    /\ UNCHANGED <<input, role, options, argv, file, recorded, vmem, portVars>>

\* Mutant of restore_checkpoint: what it restores is decoded, a second time.
restore_checkpoint_decoded(t) ==
    [file.head EXCEPT !.mem = decode(file.head).mem, !.fp = "restore"]

\* The whole state of the thread and its memory come from the file.
restore_checkpoint(t) ==
    [file.head EXCEPT !.mem = copy_mem(t.mem, @), !.fp = "restore"]

Restore ==
    /\ stage = "decoded"
    /\ th' = IF options.CHECKPOINT = NoFile THEN th ELSE restore_checkpoint(th)
    /\ stage' = IF /\ options.SKIP_AMT # 0 /\ options.INSTR_LIMIT # NoValue
                   /\ options.SKIP_AMT >= options.INSTR_LIMIT
                THEN "assert" ELSE "skipping"
    /\ UNCHANGED <<input, role, options, argv, file, recorded, vmem, portVars>>

----------------------------------------------------------------------------
(* Execution.  An outcome is [t, end]: the thread, and the stage the       *)
(* process ends in, or "on".                                               *)

Go(t) == [t |-> t, end |-> "on"]
End(t, how) == [t |-> t, end |-> how]

Inst(t) == Unchecked(t.mem, t.regs_PC)
Advance(t) == [t EXCEPT !.regs_PC = @ + INST_SIZE]

\* A pointer of a program is to its data or stack: it does not store in its text.
Pointer(b) == DATA_BASE + ((8 * b) % (STACK_BASE - DATA_BASE))

SetReg(t, r, v) == [t EXCEPT !.regs[r] = v]
SetMem(t, m) == [t EXCEPT !.mem = m]

\* Instructions that do not trap; anything else does nothing.
Execute(t, inst) ==
    CASE inst[1] = LI  -> SetReg(t, 2, inst[2])
      [] inst[1] = PTR -> SetReg(t, 4, Pointer(inst[2]))
      [] inst[1] = SB  -> SetMem(t, WriteBytes(t.mem, t.regs[4], <<t.regs[2] % Byte>>))
      [] inst[1] = LB  -> SetReg(SetMem(t, Touch(t.mem, t.regs[4])),
                                 2, NumOf(Unsigned(ReadBytes(t.mem, t.regs[4], 1))))
      [] OTHER -> t

\* The host answers h to a read of one byte.
ss_syscall(t, h) ==
    LET served == Write(t, t.regs[4], <<h>>) IN
    CASE t.regs[2] = ExitCode -> End(t, "exit")
      [] t.regs[2] = ReadCode ->
            IF served.fatal THEN End(t, "fatal") ELSE Go(SetReg(served, 2, 1))
      [] OTHER -> End(t, "fatal")

\* What a trap record holds: the state before, registers after, bytes changed; of
\* the registers $r2 to $r7 and $r31, which are all a call may change.
TrapRegs == Regs \cap (2 .. 7 \cup {31})
PassedRegs(t) == [r \in TrapRegs |-> t.regs[r]]
TrapHead(t) == [num_insn |-> t.num_insn, inst |-> Inst(t), pre |-> PassedRegs(t)]
Difference(old, new) ==
    {<<a, ReadBytes(new, a, 1)[1]>> : a \in {x \in MemAddrs :
        /\ Present(new, x)
        /\ ReadBytes(new, x, 1) # ReadBytes(old, x, 1)}}
NewBlock(old, new) == \E b \in Blocks : new[b] # Absent /\ old[b] = Absent
Patch(m, diffs) ==
    [b \in Blocks |-> IF m[b] = Absent THEN Absent ELSE
        [o \in 0 .. BLOCK_SIZE - 1 |->
            IF \E d \in diffs : d[1] = b * BLOCK_SIZE + o
            THEN (CHOOSE d \in diffs : d[1] = b * BLOCK_SIZE + o)[2] ELSE m[b][o]]]

RestoredRegs(t, trap) == [r \in Regs |-> IF r \in TrapRegs THEN trap.post[1][r] ELSE t.regs[r]]
Patched(t, trap) == [t EXCEPT !.regs = RestoredRegs(t, trap), !.mem = Patch(@, trap.diffs)]

\* An exit ends the process before the registers after it are written.
TrapRecord(t, post, diffs) == [head |-> TrapHead(t), post |-> post, diffs |-> diffs]
save_trap(t, h) ==
    LET o == ss_syscall(t, h)
        saved(post, diffs) == file' = [file EXCEPT !.traps = Append(@, TrapRecord(t, post, diffs))]
    IN  IF o.end # "on" THEN saved(<<>>, {}) /\ th' = o.t /\ stage' = o.end
        ELSE IF NewBlock(t.mem, o.t.mem)
        THEN stage' = "assert" /\ UNCHANGED <<th, file>>
        ELSE /\ saved(<<PassedRegs(o.t)>>, Difference(t.mem, o.t.mem))
             /\ th' = Advance(o.t) /\ UNCHANGED stage

\* Mutant of restore_trap: the registers are restored, the memory is not.
restore_trap_registers(t) ==
    LET trap == file.traps[file.pos] IN
    IF file.pos > Len(file.traps) THEN stage' = "panic" /\ UNCHANGED <<th, file>>
    ELSE IF trap.head # TrapHead(t) THEN stage' = "panic" /\ UNCHANGED <<th, file>>
    ELSE /\ file' = [file EXCEPT !.pos = @ + 1]
         /\ th' = Advance([t EXCEPT !.regs = IF trap.post = <<>> THEN @ ELSE RestoredRegs(t, trap)])
         /\ UNCHANGED stage

\* Past the end of the file nothing is read: the variables of the checks keep
\* what is on the stack, which is never the present instruction count.  A
\* record cut short by an exit leaves the registers alone, and an unknown
\* number of differences that read nothing.
restore_trap(t) ==
    LET trap == file.traps[file.pos] IN
    IF file.pos > Len(file.traps) THEN stage' = "panic" /\ UNCHANGED <<th, file>>
    ELSE IF trap.head # TrapHead(t) THEN stage' = "panic" /\ UNCHANGED <<th, file>>
    ELSE /\ file' = [file EXCEPT !.pos = @ + 1]
         /\ IF trap.post = <<>>
            THEN \/ th' = Advance(t) /\ UNCHANGED stage
                 \/ stage' = "crash" /\ UNCHANGED th
            ELSE /\ th' = Advance(Patched(t, trap))
                 /\ UNCHANGED stage

\* trap_now, and the instruction pointer after it.
TrapNow(t, h) ==
    \/ /\ t.fp = "none"
       /\ LET o == ss_syscall(t, h) IN
          IF o.end = "on" THEN th' = Advance(o.t) /\ UNCHANGED stage
                        ELSE th' = o.t /\ stage' = o.end
       /\ UNCHANGED file
    \/ t.fp = "save" /\ save_trap(t, h)
    \/ t.fp = "restore" /\ restore_trap(t)

func_sim_fast(h) ==
    LET t == [th EXCEPT !.num_insn = @ + 1]
        inst == Inst(t)
    IN  IF inst = NullFetch THEN stage' = "crash" /\ UNCHANGED <<th, file>>
        ELSE IF inst[1] = TRAP THEN TrapNow(t, h)
        ELSE th' = Advance(Execute(t, inst)) /\ UNCHANGED <<stage, file>>

Skip ==
    /\ stage = "skipping"
    /\ th.num_insn < options.SKIP_AMT
    /\ \E h \in HostBytes : func_sim_fast(h)
    /\ UNCHANGED <<input, role, options, argv, recorded, vmem, portVars>>

\* $getArchRegValue, $getArchPC and $getFSCommitCount: what they print aside.
getArchRegValue(t, r) == t.regs[r]
getArchPC(t) == t.arch_PC
getFSCommitCount(t) == t.num_insn

\* init_registers writes the code that sets the registers and jumps to the pc.
SetUpRoutine(t, m) ==
    WriteBytes(m, 0, WordOf(getArchRegValue(t, 2)) \o WordOf(getArchRegValue(t, 4))
                        \o WordOf(getArchRegValue(t, 29)) \o WordOf(getArchPC(t)))

\* $copyMemory and init_registers, which writes through $writeWord.
CopyFrom(t) ==
    /\ vmem' = [vmem EXCEPT !.mem = SetUpRoutine(t, copy_mem(@, t.mem))]
    /\ request' = [request EXCEPT !.n = @ + 1, !.port = "copy"]
    /\ UNCHANGED <<value, fetched>>

\* skip leaves the committed pc at the next instruction.
Skipped == IF options.SKIP_AMT = 0 THEN th ELSE [th EXCEPT !.arch_PC = th.regs_PC]

StartCore ==
    /\ stage = "skipping" /\ role = "sim"
    /\ th.num_insn >= options.SKIP_AMT
    /\ th' = Skipped
    /\ CopyFrom(Skipped)
    /\ stage' = "core"
    /\ UNCHANGED <<input, role, options, argv, file, recorded>>

----------------------------------------------------------------------------
(* The recording process                                                   *)

save_checkpoint ==
    /\ stage = "skipping" /\ role = "record"
    /\ th.num_insn >= options.SKIP_AMT
    /\ file' = [saved |-> TRUE, head |-> Skipped, traps |-> <<>>, pos |-> 1]
    /\ th' = [Skipped EXCEPT !.fp = "save"]
    /\ recorded' = [n \in {th.num_insn} |-> Arch(th)]
    /\ stage' = "recording"
    /\ UNCHANGED <<input, role, options, argv, vmem, portVars>>

Extended(states, n, s) == [k \in DOMAIN states \cup {n} |-> IF k = n THEN s ELSE states[k]]
Record ==
    /\ stage = "recording"
    /\ th.num_insn < MaxInsn
    /\ \E h \in HostBytes : func_sim_fast(h)
    /\ recorded' = IF stage' = stage THEN Extended(recorded, th'.num_insn, Arch(th')) ELSE recorded
    /\ UNCHANGED <<input, role, options, argv, vmem, portVars>>

\* It stops at any instruction, or exits with its program.
RecordStop ==
    /\ role = "record" /\ stage \in {"recording", "exit"}
    /\ role' = "sim" /\ stage' = "config"
    /\ th' = NewState
    /\ UNCHANGED <<input, options, argv, file, recorded, vmem, portVars>>

----------------------------------------------------------------------------
(* The core at work                                                        *)

Core == stage = "core"

\* func_sim, called by run_ahead.  A trap waits for $handleTrap; the longjmp
\* beyond the instruction limit has no setjmp.
RunAhead ==
    LET t == [th EXCEPT !.num_insn = @ + 1]
        inst == Inst(t)
    IN  /\ Core /\ ~th.blocked /\ th.num_insn < MaxInsn
        /\ IF inst = NullFetch THEN stage' = "crash" /\ UNCHANGED th
           ELSE IF options.INSTR_LIMIT # NoValue /\ t.num_insn > options.INSTR_LIMIT
           THEN stage' = "crash" /\ UNCHANGED th
           ELSE /\ th' = IF inst[1] = TRAP THEN [t EXCEPT !.blocked = TRUE]
                                           ELSE Advance(Execute(t, inst))
                /\ UNCHANGED stage
        /\ UNCHANGED <<input, role, options, argv, file, recorded, vmem, portVars>>

\* $handleTrap and the copies after it.  The program's exit ends the testbench.
HandleTrap ==
    /\ Core /\ th.blocked /\ request.n < MaxOps
    /\ \/ /\ th.regs[2] = ExitCode
          /\ stage' = "exit"
          /\ UNCHANGED <<th, file, vmem, portVars>>
       \/ /\ th.regs[2] # ExitCode
          /\ \E h \in HostBytes : TrapNow([th EXCEPT !.blocked = FALSE], h)
          /\ IF stage' = stage THEN CopyFrom([th' EXCEPT !.arch_PC = th'.regs_PC])
                               ELSE UNCHANGED <<vmem, portVars>>
    /\ UNCHANGED <<input, role, options, argv, recorded>>

\* SS_INST_TYPE: the word with the opcode and the word with the operands.
HalfOf(part, inst) == IF part = "opcode" THEN SubSeq(inst, 1, INST_SIZE \div 2)
                      ELSE SubSeq(inst, INST_SIZE \div 2 + 1, INST_SIZE)

Call(port, a, n, signed, data) ==
    request' = [n |-> request.n + 1, port |-> port, addr |-> a, size |-> n,
                signed |-> signed, data |-> data]
PortsOpen == Core /\ request.n < MaxOps

ReadPort(a, n, signed) ==
    LET w == ReadBytes(vmem.mem, a, n) IN
    /\ PortsOpen
    /\ Call("read", a, n, signed, <<>>)
    /\ vmem' = [vmem EXCEPT !.mem = Touch(@, a)]
    /\ value' = IF signed THEN Signed(w) ELSE Unsigned(w)
    /\ UNCHANGED <<input, role, stage, options, argv, threadVars, fetched>>

readWord(a) == ReadPort(a, 4, FALSE)
readUnsignedHalf(a) == ReadPort(a, 2, FALSE)
readSignedHalf(a) == ReadPort(a, 2, TRUE)
readUnsignedByte(a) == ReadPort(a, 1, FALSE)
readSignedByte(a) == ReadPort(a, 1, TRUE)

WritePort(a, w) ==
    /\ PortsOpen
    /\ Call("write", a, Len(w), FALSE, w)
    /\ vmem' = [vmem EXCEPT !.mem = WriteBytes(@, a, w)]
    /\ UNCHANGED <<input, role, stage, options, argv, threadVars, value, fetched>>

\* The low bytes of the word b, b + 1, b + 2, b + 3.
LowBytes(b, n) == [k \in 1 .. n |-> (b + k - 1) % Byte]
writeWord(a, b) == WritePort(a, LowBytes(b, 4))
writeHalf(a, b) == WritePort(a, LowBytes(b, 2))
writeByte(a, b) == WritePort(a, LowBytes(b, 1))

\* The core fetches an instruction in two calls, one for each half.
FetchPort(pc, part) ==
    LET inst == Fetched(vmem.text, vmem.mem, vmem.base, vmem.size, pc) IN
    /\ PortsOpen
    /\ Call("fetch", pc, INST_SIZE, FALSE, <<>>)
    /\ IF inst = NullFetch THEN stage' = "crash" /\ UNCHANGED fetched
       ELSE fetched' = [pc |-> pc, part |-> part, bytes |-> HalfOf(part, inst)] /\ UNCHANGED stage
    /\ UNCHANGED <<input, role, options, argv, threadVars, vmem, value>>

read_opcode(pc) == FetchPort(pc, "opcode")
read_operand(pc) == FetchPort(pc, "operand")

Ports ==
    \/ \E a \in PortAddrs :
        \/ readWord(a)
        \/ readUnsignedHalf(a + 2) \/ readSignedHalf(a + 2)
        \/ readUnsignedByte(a + 3) \/ readSignedByte(a + 3)
        \/ \E b \in PortBytes : writeWord(a, b) \/ writeHalf(a, b) \/ writeByte(a, b)
    \/ \E pc \in FetchPCs : read_opcode(pc) \/ read_operand(pc)

----------------------------------------------------------------------------

Init ==
    /\ input \in Inputs
    /\ role = IF input.recording = <<>> THEN "sim" ELSE "record"
    /\ stage = IF role = "sim" THEN "config" ELSE "loading"
    /\ options = IF role = "sim" THEN NoOptions
                 ELSE [NoOptions EXCEPT !.SKIP_AMT = input.recording[1].skip]
    /\ argv = IF role = "sim" THEN <<>> ELSE input.recording[1].argv
    /\ th = NewState
    /\ vmem = NoVMEM
    /\ file = NoCheckpoint
    /\ recorded = <<>>
    /\ request = [n |-> 0, port |-> "none", addr |-> 0, size |-> 0, signed |-> FALSE,
                  data |-> <<>>]
    /\ value = [k \in 1 .. 4 |-> 0]
    /\ fetched = [pc |-> -1, part |-> "opcode", bytes |-> <<>>]

StartUp == \/ read_config_from_file \/ Load \/ CopyText \/ Decode \/ Restore
           \/ Skip \/ StartCore \/ save_checkpoint \/ Record \/ RecordStop

Starting == stage \in {"config", "loading", "copying", "decoding", "decoded", "skipping",
                       "recording"} \/ (stage = "exit" /\ role = "record")
Ended == ~Starting /\ (~Core \/ request.n = MaxOps) /\ UNCHANGED vars

Next == \/ StartUp
        \/ RunAhead \/ HandleTrap \/ Ports
        \/ Ended

\* A process goes on while it starts up.  This is WF_vars(StartUp) with its
\* ENABLED written out: one that cannot is a deadlock, which TLC reports.
GoesOn == []<>~Starting \/ []<><<TRUE>>_vars

Spec == Init /\ [][Next]_vars /\ GoesOn

----------------------------------------------------------------------------
(* Properties                                                              *)

\* Types, over the whole life of both processes: a failed step leaves the state
\* one the next process or the end of this one can start from.
TypeOK ==
    /\ role \in {"record", "sim"}
    /\ options.SKIP_AMT \in Nat
    /\ th.mem \in Tables /\ vmem.mem \in Tables /\ vmem.text \in Tables
    /\ th.regs \in [Regs -> Nat] /\ th.num_insn \in 0 .. MaxInsn
    /\ th.fp \in {"none", "save", "restore"}
    /\ th.blocked => stage \in {"core", "exit", "fatal", "panic", "crash"}
    /\ file.pos \in 1 .. Len(file.traps) + 1
    /\ value \in [1 .. 4 -> ByteValues]
    /\ request.n \in 0 .. MaxOps

\* The executable's byte at an address of a section.
ImageByte(image, a) ==
    LET holds == {s \in Range(image.sections) : a >= s.addr /\ a < s.addr + Len(s.bytes)}
    IN  IF holds = {} THEN 0 ELSE LET s == CHOOSE s \in holds : TRUE IN s.bytes[a - s.addr + 1]

SameBinary == options.CHECKPOINT = NoFile
              \/ ProgramOf(argv) = ProgramOf(input.recording[1].argv)

\* The two copies of the text (initializeSim.cpp: copy_text_mem "should only be
\* called ONCE ever"; the functional simulator's copy is decoded in place):
\* from decoding on the core's copy and what it fetches from it are the bytes of
\* the executable, and the functional simulator's are those with every opcode
\* byte decoded exactly once, also after a checkpoint has replaced it, its
\* program, and instructions have run.
TextsAgree ==
    role = "sim" /\ stage \in {"decoded", "skipping", "core"} /\ SameBinary =>
    LET segment == th.ld_text_base .. th.ld_text_base + th.ld_text_size - 1
    IN  /\ \A a \in segment :
            LET byte == ImageByte(Image, a) IN
            /\ ReadBytes(vmem.text, a, 1) = <<byte>>
            /\ ReadBytes(th.mem, a, 1) = <<IF a \in TextPCs(th) THEN mask2op[byte] ELSE byte>>
        /\ fetched.pc \in segment =>
            LET a == fetched.pc - (fetched.pc % INST_SIZE)
            IN  fetched.bytes = HalfOf(fetched.part,
                                       [k \in 1 .. INST_SIZE |-> ImageByte(Image, a + k - 1)])

\* A process that restored a checkpoint goes through the states of the process
\* that saved it, instruction by instruction (func_sim.cc, save_trap and
\* restore_trap), in the skip and in the core's run, whatever its own host would
\* have answered to the system calls.
ReplayFollowsRecording ==
    role = "sim" /\ th.fp = "restore" /\ ~th.blocked /\ th.num_insn \in DOMAIN recorded
        => Arch(th) = recorded[th.num_insn]

\* The memory ports implement one flat little-endian memory, although blocks
\* come with their first access and go with a copy (memory.h, veri_memory.cc).
Memory == INSTANCE FlatMemory WITH bytes <- Flat(vmem.mem), source <- Flat(th.mem),
                                   Addrs <- MemAddrs, RoutineEnd <- BLOCK_SIZE
PortsAreFlat == Memory!FlatSpec

\* What the program finds at its stack pointer (loader.cc): the count, the
\* pointers, each to a terminated string of its own, two NULLs, and nothing of
\* it beyond the stack base.
StackWord(a) == NumOf(ReadBytes(th.mem, a, 4))
StringAt(p, s) == \A k \in 1 .. Len(s) : ReadBytes(th.mem, p + k - 1, 1) = <<s[k]>>
ArgumentsInPlace ==
    stage = "decoded" =>
    LET sp == th.regs[29]
        ptr(i) == StackWord(sp + 4 * i)
    IN  /\ StackWord(sp) = Len(argv)
        /\ \A i \in 1 .. Len(argv) :
            /\ ptr(i) + Len(argv[i]) < STACK_BASE
            /\ StringAt(ptr(i), Terminated(argv[i]))
        /\ ptr(Len(argv) + 1) = 0 /\ ptr(Len(argv) + 2) = 0

\* A config file with a job, an executable with text, data and an entry whose
\* text segment ends in one of its blocks, and arguments that fit.
StringBytes(args) == FoldLeft(LAMBDA n, s : n + Len(Terminated(s)), 0, args)
GoodJob(args) ==
    /\ args # <<>> /\ ProgramOf(args) \in DOMAIN Images
    /\ LET image == Images[ProgramOf(args)]
           text == {s \in Range(image.sections) : s.kind = "text"}
       IN  /\ image.entry # 0 /\ image.dsize + image.bsize # 0
           /\ \A s \in Range(image.sections) : s.kind \in FromFile => s.bytes # <<>>
           /\ ~image.big_endian /\ ~image.large
           /\ \E s \in text : MEM_BLOCK(s.addr + Len(s.bytes) - 1)
                                = MEM_BLOCK(s.addr + Len(s.bytes) + SLACK - 1)
    /\ EnvpAddr(args) + 4 + StringBytes(args) <= STACK_BASE
GoodConfig(i) ==
    LET set == Options(i, {}) IN
    /\ JobFile(i) \in DOMAIN i.jobs /\ GoodJob(i.jobs[JobFile(i)])
    /\ set.INSTR_LIMIT = NoValue \/ set.INSTR_LIMIT > set.SKIP_AMT

\* Good inputs start up: the core starts at the instruction the options ask for,
\* unless the program ends before it.  A restored run fails only beyond what was
\* recorded, and a recording only when a system call needs a block of memory.
AtGoal == /\ stage = "core" /\ getFSCommitCount(th) >= options.SKIP_AMT
          /\ getArchPC(th) = th.regs_PC
          /\ th.fp = "none" => getFSCommitCount(th) = options.SKIP_AMT
Unrecorded == th.fp = "restore" /\ stage \in {"panic", "crash"}
              /\ th.num_insn + 1 \notin DOMAIN recorded
StartsUp ==
    GoodConfig(input) => <>(AtGoal \/ (stage = "exit" /\ role = "sim" /\ th.num_insn > 0) \/ Unrecorded
                            \/ (role = "record" /\ stage = "assert"))
============================================================================
