------------------------------- MODULE Loader -------------------------------
(***************************************************************************)
(* What happens before the first instruction: the words of the config file *)
(* (read_config.cc, misc.cc), the job's argument vector, the executable    *)
(* (loader.cc), the registers, and the predecoding of the functional       *)
(* simulator's text (Thread.h).                                            *)
(*                                                                         *)
(* A word of the config file is [letter, value]: "-Z7" is ["Z", 7], "-Z"   *)
(* is ["Z", NoValue], "--" is ["-", NoValue], "7" is ["", 7].  Names of    *)
(* files are numbers too.  A string of the job is a sequence of bytes.     *)
(***************************************************************************)
EXTENDS TargetMemory

CONSTANTS TEXT_BASE, DATA_BASE, STACK_BASE,     \* SS_TEXT_BASE, ...
          MAX_ENVIRON, PAGE_SIZE,               \* SS_MAX_ENVIRON, SS_PAGE_SIZE
          SLACK,        \* bytes the text segment is taken longer than the text
          mask2op       \* ss_mask2op: byte of the binary -> opcode number

ASSUME LoaderAssumption ==
    /\ {TEXT_BASE, DATA_BASE, STACK_BASE, MAX_ENVIRON, SLACK} \subseteq Nat
    /\ TEXT_BASE >= BLOCK_SIZE /\ TEXT_BASE % INST_SIZE = 0
    /\ DATA_BASE > TEXT_BASE /\ DATA_BASE % INST_SIZE = 0
    /\ STACK_BASE <= TABLE_SIZE * BLOCK_SIZE
    /\ MAX_ENVIRON < STACK_BASE - DATA_BASE
    /\ PAGE_SIZE \in Nat \ {0}
    /\ mask2op \in [ByteValues -> ByteValues]

NoValue == -1
NoFile == -1

----------------------------------------------------------------------------
(* The config file                                                         *)

OptionLetters == {"Y", "z", "Z"}        \* verilog_optstring, all with an argument

Plain(word) == word.letter = ""
FileName(word) == IF Plain(word) THEN word.value ELSE NoFile
atoll(word) == IF Plain(word) THEN word.value ELSE 0

\* num - 1: fscanf stops before a trailing newline, and then an empty word is
\* counted too; without the newline the last word is not an argument.
nargs(config) == IF config.newline THEN Len(config.words) ELSE Len(config.words) - 1

\* getopt_next until EOF: the options with their arguments and getopt_index.
\* An unknown letter is skipped with what is attached to it.
getopt(config) ==
    LET n == nargs(config)
        at[i \in 1 .. n + 1] ==
            LET word == config.words[i]
                found(arg, rest) ==
                    [rest EXCEPT !.options = <<[letter |-> word.letter, arg |-> arg]>> \o @]
            IN  IF i > n \/ Plain(word) THEN [options |-> <<>>, index |-> i]
                ELSE IF word.letter = "-" THEN [options |-> <<>>, index |-> i + 1]
                ELSE IF word.letter \notin OptionLetters THEN at[i + 1]
                ELSE IF word.value # NoValue
                THEN found([letter |-> "", value |-> word.value], at[i + 1])
                ELSE IF i = n THEN at[i + 1]
                ELSE found(config.words[i + 1], at[i + 2])
    IN  at[1]

NoOptions == [CHECKPOINT |-> NoFile, SKIP_AMT |-> 0, INSTR_LIMIT |-> NoValue]

\* exists: the files that can be opened.
SetOption(exists, o, option) ==
    CASE option.letter = "Y" ->
            [o EXCEPT !.CHECKPOINT = IF FileName(option.arg) \in exists
                                     THEN FileName(option.arg) ELSE NoFile]
      [] option.letter = "Z" -> [o EXCEPT !.SKIP_AMT = atoll(option.arg)]
      [] option.letter = "z" -> [o EXCEPT !.INSTR_LIMIT = atoll(option.arg)]

\* -z counts from the end of the skip.
Options(config, exists) ==
    LET set(o, option) == SetOption(exists, o, option)
        o == FoldLeft(set, NoOptions, getopt(config).options)
    IN  IF o.INSTR_LIMIT = NoValue THEN o ELSE [o EXCEPT !.INSTR_LIMIT = @ + o.SKIP_AMT]

\* (*args)[exec_index]; the words after the last are not names of files.
JobFile(config) ==
    LET i == getopt(config).index IN
    IF i <= Len(config.words) THEN FileName(config.words[i]) ELSE NoFile

----------------------------------------------------------------------------
(* The thread                                                              *)

\* Registers with a part in loading and in system calls: result and code,
\* first argument, stack pointer.
Regs == {2, 4, 29}

\* Mutant of NewState: the data segment is known before the text is loaded.
NewState_protected ==
    [ld_text_base |-> 0, ld_text_size |-> 0, ld_data_base |-> DATA_BASE, ld_data_size |-> 0,
     ld_stack_base |-> STACK_BASE, ld_prog_entry |-> 0, ld_environ_base |-> 0,
     mem |-> EmptyTable, mem_brk_point |-> 0,
     regs |-> [r \in Regs |-> 0], regs_PC |-> 0, arch_PC |-> 0,
     num_insn |-> 0, blocked |-> FALSE, fp |-> "none", fatal |-> FALSE]

\* initialized part of Thread::Thread
NewState ==
    [ld_text_base |-> 0, ld_text_size |-> 0, ld_data_base |-> 0, ld_data_size |-> 0,
     ld_stack_base |-> STACK_BASE, ld_prog_entry |-> 0, ld_environ_base |-> 0,
     mem |-> EmptyTable, mem_brk_point |-> 0,
     regs |-> [r \in Regs |-> 0], regs_PC |-> 0, arch_PC |-> 0,
     num_insn |-> 0, blocked |-> FALSE, fp |-> "none", fatal |-> FALSE]

CanWrite(t, a) == a >= t.ld_data_base /\ a < t.ld_stack_base

\* The bytes w, by mem_access(Write, ...) as a whole, or byte by byte by mem_bcopy
\* and mem_strcpy.  fatal ends the simulator: nobody sees the bytes before it.
Write(t, a, w) ==
    IF t.fatal THEN t
    ELSE IF \A k \in 1 .. Len(w) : CanWrite(t, a + k - 1)
    THEN [t EXCEPT !.mem = WriteBytes(@, a, w)]
    ELSE [t EXCEPT !.fatal = TRUE]

\* The sections of the executable; an empty one cannot be read (fread of nothing
\* returns 0).  The segments are not known yet, so that text can be written:
\* ld_data_base is still 0.
FromFile == {"text", "rdata", "data", "sdata"}
LoadSection(t, s) ==
    IF s.kind \in FromFile /\ s.bytes = <<>> THEN [t EXCEPT !.fatal = TRUE] ELSE
    CASE s.kind = "text" ->
            Write([t EXCEPT !.ld_text_size = s.addr + Len(s.bytes) - TEXT_BASE + SLACK],
                  s.addr, s.bytes)
      [] s.kind \in FromFile \ {"text"} -> Write(t, s.addr, s.bytes)
      [] OTHER -> t                                             \* bss, sbss
LoadSections(t, image) ==
    LET loaded[n \in 0 .. Len(image.sections)] ==
            IF n = 0 THEN t ELSE LoadSection(loaded[n - 1], image.sections[n])
    IN  loaded[Len(image.sections)]

ComputeSegments(t, image) ==
    LET u == [t EXCEPT !.ld_text_base = TEXT_BASE, !.ld_data_base = DATA_BASE,
                       !.ld_prog_entry = image.entry,
                       !.ld_data_size = image.dsize + image.bsize]
    IN  IF u.ld_text_size = 0 \/ u.ld_data_size = 0 \/ image.entry = 0
        THEN [u EXCEPT !.fatal = TRUE] ELSE u

\* The words at base: pointers to the strings, which are put from sp on, and NULL.
Terminated(string) == Append(string, 0)
WriteVector(t, base, strings, sp) ==
    LET place(p, n) ==
            [t |-> Write(Write(p.t, base + 4 * (n - 1), WordOf(p.sp)), p.sp, Terminated(strings[n])),
             sp |-> p.sp + Len(strings[n]) + 1]
        placed[n \in 0 .. Len(strings)] ==
            IF n = 0 THEN [t |-> t, sp |-> sp] ELSE place(placed[n - 1], n)
        done == placed[Len(strings)]
    IN  [t |-> Write(done.t, base + 4 * Len(strings), WordOf(0)), sp |-> done.sp]

ArgcAddr == ((STACK_BASE - MAX_ENVIRON) \div 8) * 8
ArgvAddr == ArgcAddr + 4
\* Mutant of EnvpAddr: no room for the NULL that ends argv.
EnvpAddr_tight(argv) == ArgvAddr + 4 * Len(argv)
EnvpAddr(argv) == ArgvAddr + 4 * (Len(argv) + 1)

\* initializeSim passes an empty environment.
WriteArguments(t, argv) ==
    LET counted == Write(t, ArgcAddr, WordOf(Len(argv)))
        args == WriteVector(counted, ArgvAddr, argv, EnvpAddr(argv) + 4)
        env == WriteVector(args.t, EnvpAddr(argv), <<>>, args.sp)
    IN  [env.t EXCEPT !.ld_environ_base = ArgcAddr, !.fatal = @ \/ env.sp > STACK_BASE]

ld_load_prog(t, image, argv) ==
    WriteArguments(ComputeSegments(LoadSections(t, image), image), argv)

RoundUp(a, size) == ((a + size - 1) \div size) * size
mem_init(t) == [t EXCEPT !.mem_brk_point = RoundUp(t.ld_data_base + t.ld_data_size, PAGE_SIZE)]
regs_init(t) == [t EXCEPT !.regs = [r \in Regs |-> IF r = 29 THEN t.ld_environ_base ELSE 0],
                          !.regs_PC = t.ld_prog_entry]

NewThread(image, argv) == mem_init(regs_init(ld_load_prog(NewState, image, argv)))

\* sim_swap_bytes: the host is little endian.
MustSwap(image) == image.big_endian

\* decode: the opcode byte of every instruction of the segment is replaced by
\* the number of the opcode.
TextPCs(t) == {a \in t.ld_text_base .. t.ld_text_base + t.ld_text_size - 1 :
                    (a - t.ld_text_base) % INST_SIZE = 0}
CanDecode(t) == \A a \in TextPCs(t) : Present(t.mem, a)
decode(t) ==
    LET op(b, o) ==
            LET a == b * BLOCK_SIZE + o
            IN  IF a \in TextPCs(t) THEN mask2op[t.mem[b][o]] ELSE t.mem[b][o]
    IN  [t EXCEPT !.mem = [b \in Blocks |->
                               IF @[b] = Absent THEN Absent
                               ELSE [o \in 0 .. BLOCK_SIZE - 1 |-> op(b, o)]],
                  !.num_insn = 0,
                  !.regs_PC = t.ld_prog_entry, !.arch_PC = t.ld_prog_entry]
============================================================================
