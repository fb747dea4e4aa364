---------------------------- MODULE CoSimProofs ----------------------------
(***************************************************************************)
(* Co-simulation for every program that ends in a call to exit, every size *)
(* of the debug buffer and the store queue and every number of lanes, of   *)
(* cores and of netlists, up to the first answered system call and with    *)
(* it: a right core is never reported, a wrong lane always is, the         *)
(* memories agree but for a word whose store the call overtakes, and the   *)
(* checker takes the program in order, as Isa says.                        *)
(*                                                                         *)
(* The argument: the window of the debug buffer is a chain of states of    *)
(* the program, one for each entry (Chain); run_ahead extends it at the    *)
(* young end until it is full or a system call blocks it (Stops), and      *)
(* get_instr shortens it at the old end.  Until a call is answered the     *)
(* core is where the old end is, or in the routine that brings it there    *)
(* (IInv); nothing is claimed once the core goes on behind a call.         *)
(*                                                                         *)
(* The debug buffer comes first: every operation keeps its two pointers    *)
(* and its length one window (RingOK), start adds an entry behind the      *)
(* window, pop takes the oldest, and the pushes in between touch the       *)
(* youngest only.                                                          *)
(***************************************************************************)
EXTENDS CoSim, TLAPS, SequenceTheorems, WellFoundedInduction

-----------------------------------------------------------------------------
(* The debug buffer: a first-in first-out queue, for every size            *)

\* A buffer: a slot for every index, with entries of any kind.
Buffers(Entries) ==
    [db : [Slots -> Entries], head : Slots, tail : Slots, length : 0 .. DEBUG_SIZE]

-----------------------------------------------------------------------------
(* Indices *)

LEMMA SizeIsPositive == DEBUG_SIZE \in Nat /\ DEBUG_SIZE >= 1
BY DebugSizeAssumption

\* MOD of a number of less than three turns.
LEMMA ModOfSum ==
    ASSUME NEW a \in Nat, a < 3 * DEBUG_SIZE
    PROVE  MOD(a) = IF a < DEBUG_SIZE THEN a
                    ELSE IF a < 2 * DEBUG_SIZE THEN a - DEBUG_SIZE ELSE a - 2 * DEBUG_SIZE
BY SizeIsPositive DEF MOD

\* Going round the ring from an index, different distances are different slots.
LEMMA ModInjective ==
    ASSUME NEW h \in Slots, NEW i \in 0 .. DEBUG_SIZE - 1, NEW j \in 0 .. DEBUG_SIZE - 1,
           MOD(h + i) = MOD(h + j)
    PROVE  i = j
<1>1. /\ h + i \in Nat /\ h + i < 3 * DEBUG_SIZE
      /\ h + j \in Nat /\ h + j < 3 * DEBUG_SIZE
    BY SizeIsPositive DEF Slots
<1> QED BY <1>1, ModOfSum, SizeIsPositive DEF Slots

\* The head and the length say where the tail is, and then is_active holds of
\* the slots of the window and of no other.
LEMMA WindowIsActive ==
    ASSUME NEW b, b.head \in Slots, b.length \in 0 .. DEBUG_SIZE,
           b.tail = MOD(b.head + b.length + DEBUG_SIZE - 1)
    PROVE  RingOK(b)
<1> DEFINE h == b.head
           n == b.length
<1>1. /\ h \in Nat /\ h < DEBUG_SIZE /\ n \in Nat /\ n <= DEBUG_SIZE
      /\ DEBUG_SIZE \in Nat /\ DEBUG_SIZE >= 1
    BY SizeIsPositive DEF Slots
<1>2. b.tail = IF h + n + DEBUG_SIZE - 1 < DEBUG_SIZE THEN h + n + DEBUG_SIZE - 1
               ELSE IF h + n + DEBUG_SIZE - 1 < 2 * DEBUG_SIZE THEN h + n - 1
               ELSE h + n - 1 - DEBUG_SIZE
    BY <1>1, ModOfSum
<1>3. b.tail \in Slots
    BY <1>1, <1>2 DEF Slots
<1>4. ASSUME NEW i \in Slots
      PROVE  is_active(b, MOD(h + i)) <=> i < n
    <2>1. i \in Nat /\ i < DEBUG_SIZE
        BY <1>1 DEF Slots
    <2>2. MOD(h + i) = IF h + i < DEBUG_SIZE THEN h + i ELSE h + i - DEBUG_SIZE
        BY <1>1, <2>1, ModOfSum
    <2> QED BY <1>1, <1>2, <2>1, <2>2 DEF is_active
<1> QED BY <1>1, <1>3, <1>4 DEF RingOK, Slots

-----------------------------------------------------------------------------
(* The operations *)

\* An empty buffer has an empty window.
THEOREM NewBufferIsEmpty == RingOK(NewBuffer) /\ NewBuffer.length = 0
<1>1. /\ NewBuffer.head = 0 /\ NewBuffer.length = 0 /\ NewBuffer.tail = DEBUG_SIZE - 1
    BY DEF NewBuffer
<1>2. MOD(0 + 0 + DEBUG_SIZE - 1) = DEBUG_SIZE - 1
    BY SizeIsPositive, ModOfSum
<1> QED BY <1>1, <1>2, SizeIsPositive, WindowIsActive DEF Slots

\* start, called by run_ahead while the buffer is hungry, puts an entry behind
\* the window and leaves what is in the window alone.
THEOREM StartAppends ==
    ASSUME NEW Entries, NEW b \in Buffers(Entries), RingOK(b), hungry(b)
    PROVE  /\ RingOK(start(b))
           /\ start(b).length = b.length + 1
           /\ \A i \in 1 .. b.length : Window(start(b))[i] = Window(b)[i]
<1> DEFINE c == start(b)
           t == MOD(b.tail + 1)
<1>1. /\ b.head \in Slots /\ b.tail \in Slots /\ b.length \in 0 .. DEBUG_SIZE - 1
      /\ b.tail = MOD(b.head + b.length + DEBUG_SIZE - 1)
    BY SizeIsPositive DEF RingOK, hungry
<1>2. /\ c.head = b.head /\ c.length = b.length + 1 /\ c.tail = t
      /\ \A s \in Slots : s # t => c.db[s] = b.db[s]
    BY DEF start, Buffers
<1>3. t = MOD(b.head + b.length)
    <2>1. /\ b.head + b.length + DEBUG_SIZE - 1 \in Nat
          /\ b.head + b.length + DEBUG_SIZE - 1 < 3 * DEBUG_SIZE
          /\ b.head + b.length \in Nat /\ b.head + b.length < 3 * DEBUG_SIZE
          /\ b.tail + 1 \in Nat /\ b.tail + 1 < 3 * DEBUG_SIZE
        BY <1>1, SizeIsPositive DEF Slots
    <2> QED BY <1>1, <2>1, ModOfSum, SizeIsPositive DEF Slots
<1>4. RingOK(c)
    <2>1. c.head + c.length + DEBUG_SIZE - 1 = b.head + b.length + DEBUG_SIZE
        BY <1>1, <1>2, SizeIsPositive DEF Slots
    <2>2. MOD(b.head + b.length + DEBUG_SIZE) = MOD(b.head + b.length)
        <3>1. /\ b.head + b.length + DEBUG_SIZE \in Nat
              /\ b.head + b.length + DEBUG_SIZE < 3 * DEBUG_SIZE
              /\ b.head + b.length \in Nat /\ b.head + b.length < 3 * DEBUG_SIZE
            BY <1>1, SizeIsPositive DEF Slots
        <3> QED BY <1>1, <3>1, ModOfSum, SizeIsPositive DEF Slots
    <2>3. c.head \in Slots /\ c.length \in 0 .. DEBUG_SIZE
        BY <1>1, <1>2, SizeIsPositive
    <2> QED BY <1>2, <1>3, <2>1, <2>2, <2>3, WindowIsActive
<1>5. ASSUME NEW i \in 1 .. b.length
      PROVE  Window(c)[i] = Window(b)[i]
    <2>1. i - 1 \in 0 .. DEBUG_SIZE - 1 /\ b.length \in 0 .. DEBUG_SIZE - 1 /\ i - 1 # b.length
        BY <1>1, SizeIsPositive
    <2>2. MOD(b.head + (i - 1)) # t
        BY <1>1, <1>3, <2>1, ModInjective
    <2>3. b.head + (i - 1) = b.head + i - 1 /\ i \in 1 .. c.length
        BY <1>1, <1>2, SizeIsPositive DEF Slots
    <2>4. MOD(b.head + i - 1) \in Slots
        <3>1. b.head + i - 1 \in Nat /\ b.head + i - 1 < 3 * DEBUG_SIZE
            BY <1>1, <2>1, SizeIsPositive DEF Slots
        <3> QED BY <1>1, <2>1, <3>1, ModOfSum, SizeIsPositive DEF Slots
    <2> QED BY <1>2, <2>2, <2>3, <2>4 DEF Window
<1> QED BY <1>2, <1>4, <1>5

\* The pushes of an instruction that executes (operands, address, instruction)
\* change the youngest entry and no other, though they find it by the tail
\* alone: what waits in the buffer for a commit is never written again.
THEOREM PushesTouchYoungest ==
    ASSUME NEW Entries, NEW b \in Buffers(Entries), RingOK(b), b.length > 0,
           NEW n, NEW value, NEW inst, NEW isStore, NEW pc, NEW next_pc, NEW addr, NEW real,
           NEW c \in {push_operand_actual(b, n, value), push_address_actual(b, addr, real),
                      push_instr_actual(b, inst, isStore, pc, next_pc, real)}
    PROVE  /\ RingOK(c)
           /\ c.length = b.length
           /\ \A i \in 1 .. b.length - 1 : Window(c)[i] = Window(b)[i]
<1>1. /\ b.head \in Slots /\ b.tail \in Slots /\ b.length \in 1 .. DEBUG_SIZE
      /\ b.tail = MOD(b.head + b.length + DEBUG_SIZE - 1)
    BY SizeIsPositive DEF RingOK
<1>2. /\ c.head = b.head /\ c.tail = b.tail /\ c.length = b.length
      /\ \A s \in Slots : s # b.tail => c.db[s] = b.db[s]
    <2>1. CASE c = push_operand_actual(b, n, value)
        BY <2>1 DEF push_operand_actual, Buffers
    <2>2. CASE c = push_address_actual(b, addr, real)
        BY <2>2 DEF push_address_actual, Buffers
    <2>3. CASE c = push_instr_actual(b, inst, isStore, pc, next_pc, real)
        BY <2>3 DEF push_instr_actual, Buffers
    <2> QED BY <2>1, <2>2, <2>3
<1>3. RingOK(c)
    BY <1>1, <1>2, SizeIsPositive, WindowIsActive
<1>4. b.tail = MOD(b.head + (b.length - 1))
    <2>1. /\ b.head + b.length + DEBUG_SIZE - 1 \in Nat
          /\ b.head + b.length + DEBUG_SIZE - 1 < 3 * DEBUG_SIZE
          /\ b.head + (b.length - 1) \in Nat /\ b.head + (b.length - 1) < 3 * DEBUG_SIZE
        BY <1>1, SizeIsPositive DEF Slots
    <2> QED BY <1>1, <2>1, ModOfSum, SizeIsPositive DEF Slots
<1>5. ASSUME NEW i \in 1 .. b.length - 1
      PROVE  Window(c)[i] = Window(b)[i]
    <2>1. /\ i - 1 \in 0 .. DEBUG_SIZE - 1 /\ b.length - 1 \in 0 .. DEBUG_SIZE - 1
          /\ i - 1 # b.length - 1
        BY <1>1, SizeIsPositive
    <2>2. MOD(b.head + (i - 1)) # b.tail
        BY <1>1, <1>4, <2>1, ModInjective
    <2>3. b.head + (i - 1) = b.head + i - 1 /\ i \in 1 .. c.length /\ i \in 1 .. b.length
        BY <1>1, <1>2, SizeIsPositive DEF Slots
    <2>4. MOD(b.head + i - 1) \in Slots
        <3>1. b.head + i - 1 \in Nat /\ b.head + i - 1 < 3 * DEBUG_SIZE
            BY <1>1, <2>1, SizeIsPositive DEF Slots
        <3> QED BY <1>1, <2>1, <3>1, ModOfSum, SizeIsPositive DEF Slots
    <2> QED BY <1>2, <2>2, <2>3, <2>4 DEF Window
<1> QED BY <1>2, <1>3, <1>5

\* pop, called by get_instr, takes the oldest entry and no other.
THEOREM PopTakesOldest ==
    ASSUME NEW Entries, NEW b \in Buffers(Entries), RingOK(b), CanPop(b)
    PROVE  /\ RingOK(pop(b))
           /\ pop(b).length = b.length - 1
           /\ b.db[b.head] = Window(b)[1]
           /\ \A i \in 1 .. b.length - 1 : Window(pop(b))[i] = Window(b)[i + 1]
<1> DEFINE c == pop(b)
<1>1. /\ b.head \in Slots /\ b.length \in 1 .. DEBUG_SIZE
      /\ b.tail = MOD(b.head + b.length + DEBUG_SIZE - 1)
    BY SizeIsPositive DEF RingOK, CanPop
<1>2. c.head = MOD(b.head + 1) /\ c.length = b.length - 1 /\ c.tail = b.tail /\ c.db = b.db
    BY DEF pop, Buffers
<1>3. c.head = (IF b.head + 1 < DEBUG_SIZE THEN b.head + 1 ELSE b.head + 1 - DEBUG_SIZE)
    BY <1>1, <1>2, ModOfSum, SizeIsPositive DEF Slots
<1>4. c.head \in Slots
    BY <1>1, <1>3, SizeIsPositive DEF Slots
<1>5. RingOK(c)
    <2>1. MOD(c.head + c.length + DEBUG_SIZE - 1) = MOD(b.head + b.length + DEBUG_SIZE - 1)
        <3>1. /\ c.head + c.length + DEBUG_SIZE - 1 \in Nat
              /\ c.head + c.length + DEBUG_SIZE - 1 < 3 * DEBUG_SIZE
              /\ b.head + b.length + DEBUG_SIZE - 1 \in Nat
              /\ b.head + b.length + DEBUG_SIZE - 1 < 3 * DEBUG_SIZE
            BY <1>1, <1>2, <1>4, SizeIsPositive DEF Slots
        <3> QED BY <1>1, <1>2, <1>3, <3>1, ModOfSum, SizeIsPositive DEF Slots
    <2>2. c.length \in 0 .. DEBUG_SIZE
        BY <1>1, <1>2, SizeIsPositive
    <2> QED BY <1>1, <1>2, <1>4, <2>1, <2>2, WindowIsActive
<1>6. b.db[b.head] = Window(b)[1]
    <2>1. MOD(b.head + 1 - 1) = b.head
        BY <1>1, ModOfSum, SizeIsPositive DEF Slots
    <2> QED BY <1>1, <2>1 DEF Window
<1>7. ASSUME NEW i \in 1 .. b.length - 1
      PROVE  Window(c)[i] = Window(b)[i + 1]
    <2>1. MOD(c.head + i - 1) = MOD(b.head + (i + 1) - 1)
        <3>1. /\ c.head + i - 1 \in Nat /\ c.head + i - 1 < 3 * DEBUG_SIZE
              /\ b.head + (i + 1) - 1 \in Nat /\ b.head + (i + 1) - 1 < 3 * DEBUG_SIZE
            BY <1>1, <1>4, SizeIsPositive DEF Slots
        <3> QED BY <1>1, <1>3, <3>1, ModOfSum, SizeIsPositive DEF Slots
    <2>2. i \in 1 .. c.length /\ i + 1 \in 1 .. b.length
        BY <1>1, <1>2
    <2> QED BY <1>2, <2>1, <2>2 DEF Window
<1> QED BY <1>2, <1>5, <1>6, <1>7

-----------------------------------------------------------------------------
(* Induction over the rounds of a loop                                     *)

\* A set of numbers has a least one.
LEMMA Least ==
    ASSUME NEW S \in SUBSET Nat, S # {}
    PROVE  \E x \in S : \A y \in S : x <= y
<1> DEFINE R == {ss \in Nat \X Nat : ss[1] < ss[2]}
<1>1. IsWellFoundedOn(R, Nat)
    BY NatLessThanWellFounded DEF OpToRel
<1>2. PICK x \in S : \A y \in S : ~ (<<y, x>> \in R)
    <2> HIDE DEF R
    <2> QED BY <1>1, WFMin, Zenon
<1>3. ASSUME NEW y \in S PROVE x <= y
    <2>1. ~ (y < x) /\ x \in Nat /\ y \in Nat
        BY <1>2
    <2> QED BY <2>1
<1> QED BY <1>3

\* What holds at the start of a loop and is kept by each round holds at its end.
LEMMA Rounds ==
    ASSUME NEW n \in Nat, NEW S, 0 \in S, \A k \in 0 .. n - 1 : k \in S => k + 1 \in S
    PROVE  \A k \in 0 .. n : k \in S
<1> SUFFICES ASSUME ~ \A k \in 0 .. n : k \in S PROVE FALSE
    OBVIOUS
<1> DEFINE T == {k \in 0 .. n : k \notin S}
<1>1. T \in SUBSET Nat /\ T # {}
    OBVIOUS
<1>2. PICK x \in T : \A y \in T : x <= y
    <2> HIDE DEF T
    <2> QED BY <1>1, Least
<1>3. x \in 0 .. n /\ x \notin S /\ x # 0
    BY <1>2
<1>4. x - 1 \in 0 .. n - 1
    BY <1>3
<1>5. x - 1 \notin T
    <2>1. x - 1 \in Nat /\ x \in Nat /\ ~ (x <= x - 1)
        BY <1>3, <1>4
    <2> HIDE DEF T
    <2> QED BY <1>2, <2>1
<1>6. x - 1 \in S
    BY <1>3, <1>4, <1>5
<1> QED BY <1>3, <1>4, <1>6

\* One round of run_ahead.
Round(g) == IF ~g.blocked /\ hungry(g.db) THEN func_sim(g) ELSE g

\* run_ahead is DEBUG_SIZE rounds.
LEMMA RunAheadRounds ==
    ASSUME NEW f
    PROVE  \E ran : /\ ran = [k \in 0 .. DEBUG_SIZE |-> IF k = 0 THEN f ELSE Round(ran[k - 1])]
                    /\ run_ahead(f) = ran[DEBUG_SIZE]
<1> DEFINE Upto(n, r) == r = [k \in 0 .. n |-> IF k = 0 THEN f ELSE Round(r[k - 1])]
<1>1. \E r : Upto(DEBUG_SIZE, r)
    <2> DEFINE S == {n \in 0 .. DEBUG_SIZE : \E r : Upto(n, r)}
    <2>1. 0 \in S
        <3>1. Upto(0, [k \in 0 .. 0 |-> f])
            OBVIOUS
        <3> HIDE DEF Upto
        <3> QED BY <3>1, SizeIsPositive
    <2>2. ASSUME NEW n \in 0 .. DEBUG_SIZE - 1, n \in S
          PROVE  n + 1 \in S
        <3>1. PICK r : Upto(n, r)
            BY <2>2, Zenon
        <3> DEFINE q == [k \in 0 .. n + 1 |-> IF k <= n THEN r[k] ELSE Round(r[n])]
        <3>2. ASSUME NEW k \in 0 .. n + 1
              PROVE  q[k] = IF k = 0 THEN f ELSE Round(q[k - 1])
            <4>1. CASE k <= n
                <5>1. r[k] = (IF k = 0 THEN f ELSE Round(r[k - 1]))
                    BY <3>1, <4>1
                <5>2. k # 0 => k - 1 \in 0 .. n + 1 /\ k - 1 <= n
                    BY <4>1
                <5> QED BY <4>1, <5>1, <5>2
            <4>2. CASE k = n + 1
                <5>1. /\ n + 1 \in 0 .. n + 1 /\ ~ (n + 1 <= n) /\ n \in 0 .. n + 1
                      /\ n + 1 # 0 /\ (n + 1) - 1 = n
                    OBVIOUS
                <5> QED BY <4>2, <5>1
            <4> QED BY <4>1, <4>2
        <3>3. Upto(n + 1, q)
            <4>1. q = [k \in 0 .. n + 1 |-> q[k]]
                OBVIOUS
            <4> HIDE DEF q
            <4> QED BY <3>2, <4>1
        <3>4. n + 1 \in 0 .. DEBUG_SIZE
            BY SizeIsPositive
        <3> HIDE DEF Upto, q
        <3> QED BY <3>3, <3>4
    <2>3. \A k \in 0 .. DEBUG_SIZE : k \in S
        <3> HIDE DEF S
        <3> QED BY <2>1, <2>2, Rounds, SizeIsPositive
    <2> HIDE DEF Upto
    <2> QED BY <2>3, SizeIsPositive
<1>2. run_ahead(f) = (CHOOSE r : Upto(DEBUG_SIZE, r))[DEBUG_SIZE]
    BY DEF run_ahead, Round
<1>3. Upto(DEBUG_SIZE, CHOOSE r : Upto(DEBUG_SIZE, r))
    <2> HIDE DEF Upto
    <2> QED BY <1>1, Zenon
<1> QED BY <1>2, <1>3

-----------------------------------------------------------------------------
(* Types                                                                   *)

Operands == [n : Regs, value : Vals]
Pairs == Vals \X Vals
Entries == [a_pc : Int, a_next_pc : Int, a_inst : Instructions \cup {"none"},
            a_rdst : Seq(Operands), a_addr : Addrs, real : Pairs, store_data : Pairs]

\* The thread of the functional simulator.
Simulators == [pc : Int, regs : [Regs -> Vals], mem : [Addrs -> Vals], blocked : BOOLEAN,
               db : Buffers(Entries), arch_PC : Int]

\* A state of the program that is about to execute an instruction: the last call
\* is reached with the code that ends the program.
Good(prog, s) ==
    /\ s.pc \in ISA!TextPCs(prog)
    /\ s.regs \in [Regs -> Vals] /\ s.mem \in [Addrs -> Vals]
    /\ s.pc = ExitPC(prog) => s.regs[SysReg] = ExitCode

Op(prog, p) == ISA!InstAt(prog, p).op

\* What the assumptions say of the constants, with the names used here.
LEMMA Constants ==
    /\ DEBUG_SIZE \in Nat /\ DEBUG_SIZE >= 2
    /\ NumRegs \in Nat /\ SysReg \in Regs /\ Regs = 1 .. NumRegs
    /\ NumVals \in Nat /\ NumVals > 0 /\ Vals = 0 .. NumVals - 1 /\ 0 \in Vals
    /\ ExitCode \in Vals
    /\ NumWords \in Nat /\ NumWords % 2 = 0 /\ Addrs = 0 .. NumWords - 1 /\ 0 \in Addrs
    /\ CallBuf \in Addrs /\ InitMem \in [Addrs -> Vals]
    /\ TextBase \in Nat /\ TextBase >= InitLen /\ InitLen = 2 * NumRegs + 1
    /\ COMMIT_WIDTH \in Nat /\ COMMIT_WIDTH >= 2 /\ MaxStq \in Nat /\ MaxStq >= COMMIT_WIDTH
    /\ StopAfterMismatch \in Nat /\ NetSims \subseteq BOOLEAN
BY CoSimAssumption, SizeIsPositive
   DEF Regs, Vals, Addrs, ISA!Regs, ISA!Vals, ISA!Addrs, InitLen

\* The text of a program: its first and last pc, and what is at a pc.
LEMMA TextOf ==
    ASSUME NEW prog \in DOMAIN Programs
    PROVE  /\ Len(Programs[prog]) \in Nat /\ Len(Programs[prog]) >= 2
           /\ ISA!TextPCs(prog) = TextBase .. ExitPC(prog)
           /\ ExitPC(prog) \in Nat /\ ExitPC(prog) >= TextBase + 1
           /\ \A p \in ISA!TextPCs(prog) :
                 /\ ISA!InstAt(prog, p) \in Instructions
                 /\ Executable(ISA!InstAt(prog, p))
<1>1. /\ Programs[prog] \in Seq(Instructions) /\ Len(Programs[prog]) >= 2
      /\ \A p \in ISA!TextPCs(prog) : Executable(ISA!InstAt(prog, p))
    BY ProgramsAssumption, Zenon
<1>2. /\ Len(Programs[prog]) \in Nat
      /\ \A k \in 1 .. Len(Programs[prog]) : Programs[prog][k] \in Instructions
    BY <1>1
<1>3. ISA!TextPCs(prog) = TextBase .. ExitPC(prog)
    BY DEF ISA!TextPCs, ExitPC
<1>4. ExitPC(prog) \in Nat /\ ExitPC(prog) >= TextBase + 1
    BY <1>1, <1>2, Constants DEF ExitPC
<1>5. ASSUME NEW p \in ISA!TextPCs(prog)
      PROVE  ISA!InstAt(prog, p) \in Instructions
    <2>1. p - TextBase + 1 \in 1 .. Len(Programs[prog])
        BY <1>2, <1>3, Constants DEF ExitPC
    <2> QED BY <1>2, <2>1 DEF ISA!InstAt
<1> QED BY <1>1, <1>2, <1>3, <1>4, <1>5

\* How a program ends, and where its branches go.
LEMMA EndOf ==
    ASSUME NEW prog \in DOMAIN Programs
    PROVE  /\ Op(prog, ExitPC(prog)) = "trap"
           /\ LET i == ISA!InstAt(prog, ExitPC(prog) - 1)
              IN  i.op = "add" /\ i.rd = SysReg /\ i.rs = 0 /\ i.imm = ExitCode
           /\ \A p \in ISA!TextPCs(prog) : Op(prog, p) = "bnez" =>
                 /\ ISA!InstAt(prog, p).target \in ISA!TextPCs(prog) \ {ExitPC(prog)}
                 /\ ISA!InstAt(prog, p).target # p
BY ProgramsAssumption DEF Op

-----------------------------------------------------------------------------
(* Instructions                                                            *)

\* An instruction has at most two results, values for registers.
LEMMA ResultsTyped ==
    ASSUME NEW i \in Instructions, Executable(i),
           NEW r \in [Regs -> Vals], NEW m \in [Addrs -> Vals]
    PROVE  /\ ISA!Source(i, r) \in Vals
           /\ ISA!Results(i, r, m) \in Seq(Operands)
           /\ Len(ISA!Results(i, r, m)) \in {0, 1, 2}
<1>1. ISA!Source(i, r) \in Vals
    BY Constants DEF ISA!Source, Instructions
<1>2. CASE i.op = "add"
    <2>1. (ISA!Source(i, r) + i.imm) % NumVals \in Vals
        <3>1. ISA!Source(i, r) + i.imm \in Int
            BY <1>1, Constants DEF Instructions
        <3> QED BY <3>1, Constants
    <2>2. i.rd \in Regs
        BY <1>2 DEF Executable
    <2>3. ISA!Results(i, r, m) = <<[n |-> i.rd, value |-> (ISA!Source(i, r) + i.imm) % NumVals]>>
        BY <1>2 DEF ISA!Results
    <2> QED BY <1>1, <2>1, <2>2, <2>3 DEF Operands
<1>3. CASE i.op = "load"
    <2>1. i.rd \in Regs /\ i.imm \in Addrs
        BY <1>3 DEF Executable
    <2>2. ISA!Results(i, r, m) = <<[n |-> i.rd, value |-> m[i.imm]]>>
        BY <1>3 DEF ISA!Results
    <2> QED BY <1>1, <2>1, <2>2 DEF Operands
<1>4. CASE i.op = "dload"
    <2>1. i.rd \in Regs /\ i.imm \in Addrs /\ i.rd + 1 \in Regs /\ i.imm + 1 \in Addrs
        BY <1>4 DEF Executable
    <2>2. ISA!Results(i, r, m) = <<[n |-> i.rd, value |-> m[i.imm]],
                                   [n |-> i.rd + 1, value |-> m[i.imm + 1]]>>
        BY <1>4 DEF ISA!Results
    <2>3. [n |-> i.rd, value |-> m[i.imm]] \in Operands
        BY <2>1 DEF Operands
    <2>4. [n |-> i.rd + 1, value |-> m[i.imm + 1]] \in Operands
        BY <2>1 DEF Operands
    <2> QED BY <1>1, <2>2, <2>3, <2>4
<1>5. CASE i.op \notin {"add", "load", "dload"}
    <2>1. ISA!Results(i, r, m) = << >>
        BY <1>5 DEF ISA!Results
    <2> QED BY <1>1, <2>1
<1> QED BY <1>2, <1>3, <1>4, <1>5

\* Writing results keeps the registers registers; no result changes nothing, and
\* a single result is in its register.
LEMMA WriteRegsTyped ==
    ASSUME NEW r \in [Regs -> Vals], NEW rdst \in Seq(Operands)
    PROVE  /\ ISA!WriteRegs(r, rdst) \in [Regs -> Vals]
           /\ rdst = << >> => ISA!WriteRegs(r, rdst) = r
           /\ Len(rdst) = 1 => ISA!WriteRegs(r, rdst)[rdst[1].n] = rdst[1].value
<1>1. ASSUME NEW n \in Regs, \E k \in DOMAIN rdst : rdst[k].n = n
      PROVE  rdst[CHOOSE k \in DOMAIN rdst : rdst[k].n = n].value \in Vals
    <2>1. (CHOOSE k \in DOMAIN rdst : rdst[k].n = n) \in DOMAIN rdst
        BY <1>1
    <2>2. \A k \in DOMAIN rdst : rdst[k] \in Operands
        OBVIOUS
    <2> QED BY <2>1, <2>2 DEF Operands
<1>2. ISA!WriteRegs(r, rdst) \in [Regs -> Vals]
    <2>1. ISA!Regs = Regs
        BY DEF Regs
    <2> QED BY <1>1, <2>1 DEF ISA!WriteRegs
<1>3. ASSUME rdst = << >>
      PROVE  ISA!WriteRegs(r, rdst) = r
    <2>1. ISA!WriteRegs(r, rdst) = [n \in Regs |-> r[n]]
        BY <1>3 DEF ISA!WriteRegs, Regs
    <2> QED BY <2>1
<1>4. ASSUME Len(rdst) = 1
      PROVE  ISA!WriteRegs(r, rdst)[rdst[1].n] = rdst[1].value
    <2>1. DOMAIN rdst = {1} /\ rdst[1] \in Operands
        <3>1. DOMAIN rdst = 1 .. Len(rdst) /\ \A k \in 1 .. Len(rdst) : rdst[k] \in Operands
            OBVIOUS
        <3> QED BY <1>4, <3>1
    <2>2. (CHOOSE k \in DOMAIN rdst : rdst[k].n = rdst[1].n) = 1
        BY <2>1
    <2>3. rdst[1].n \in Regs
        BY <2>1 DEF Operands
    <2> QED BY <2>1, <2>2, <2>3 DEF ISA!WriteRegs, Regs
<1> QED BY <1>2, <1>3, <1>4

\* The last pc is not branched to.
LEMMA ExecTyped ==
    ASSUME NEW prog \in DOMAIN Programs, NEW s, Good(prog, s)
    PROVE  LET next == ISA!Exec(prog, s) IN
           /\ next.pc \in Int /\ next.regs \in [Regs -> Vals] /\ next.mem \in [Addrs -> Vals]
           /\ Op(prog, s.pc) # "trap" => Good(prog, next)
           /\ Op(prog, s.pc) = "trap" =>
                 next.pc = s.pc + 1 /\ next.regs = s.regs /\ next.mem = s.mem
<1> DEFINE i == ISA!InstAt(prog, s.pc)
           rdst == ISA!Results(i, s.regs, s.mem)
           next == ISA!Exec(prog, s)
<1>1. /\ s.pc \in ISA!TextPCs(prog) /\ s.pc \in Nat
      /\ i \in Instructions /\ Executable(i)
      /\ s.regs \in [Regs -> Vals] /\ s.mem \in [Addrs -> Vals]
      /\ s.pc >= TextBase /\ s.pc <= ExitPC(prog)
    <2>1. /\ s.pc \in ISA!TextPCs(prog) /\ s.regs \in [Regs -> Vals] /\ s.mem \in [Addrs -> Vals]
        BY DEF Good
    <2>2. ISA!TextPCs(prog) = TextBase .. ExitPC(prog) /\ ExitPC(prog) \in Nat
        BY TextOf
    <2>3. i \in Instructions /\ Executable(i)
        <3>1. ISA!InstAt(prog, s.pc) \in Instructions /\ Executable(ISA!InstAt(prog, s.pc))
            BY <2>1, TextOf, Zenon
        <3> QED BY <3>1, Zenon
    <2>4. TextBase \in Nat
        BY Constants, Zenon
    <2> HIDE DEF i, rdst, next
    <2> QED BY <2>1, <2>2, <2>3, <2>4
<1>2. /\ next.pc = ISA!NextPC(i, s.regs, s.pc)
      /\ next.regs = ISA!WriteRegs(s.regs, rdst)
      /\ next.mem = ISA!WriteMem(i, s.regs, s.mem)
    BY DEF ISA!Exec
<1>3. /\ ISA!Source(i, s.regs) \in Vals /\ rdst \in Seq(Operands) /\ Len(rdst) \in {0, 1, 2}
    BY <1>1, ResultsTyped
<1>4. next.regs \in [Regs -> Vals]
    BY <1>1, <1>2, <1>3, WriteRegsTyped
<1>5. next.mem \in [Addrs -> Vals]
    BY <1>1, <1>2, <1>3 DEF ISA!WriteMem, Executable
<1>6. next.pc \in Int
    BY <1>1, <1>2 DEF ISA!NextPC, Instructions
<1>7. ASSUME i.op # "trap"
      PROVE  Good(prog, next)
    <2>1. s.pc # ExitPC(prog)
        BY <1>7, EndOf DEF Op
    <2>2. next.pc \in ISA!TextPCs(prog)
        <3>1. CASE i.op = "bnez" /\ ISA!Source(i, s.regs) # 0
            <4>1. i.target \in ISA!TextPCs(prog)
                BY <1>1, <3>1, EndOf DEF Op
            <4> QED BY <1>2, <3>1, <4>1 DEF ISA!NextPC
        <3>2. CASE ~ (i.op = "bnez" /\ ISA!Source(i, s.regs) # 0)
            <4>1. next.pc = s.pc + 1
                BY <1>2, <3>2 DEF ISA!NextPC
            <4> QED BY <1>1, <2>1, <4>1, TextOf, Constants
        <3> QED BY <3>1, <3>2
    <2>3. ASSUME next.pc = ExitPC(prog)
          PROVE  next.regs[SysReg] = ExitCode
        <3>1. ~ (i.op = "bnez" /\ ISA!Source(i, s.regs) # 0)
            <4>1. ASSUME i.op = "bnez", ISA!Source(i, s.regs) # 0
                  PROVE  FALSE
                <5>1. i.target # ExitPC(prog)
                    BY <1>1, <4>1, EndOf DEF Op
                <5> QED BY <1>2, <2>3, <4>1, <5>1 DEF ISA!NextPC
            <4> QED BY <4>1
        <3>2. s.pc = ExitPC(prog) - 1
            <4>1. next.pc = s.pc + 1
                BY <1>2, <3>1 DEF ISA!NextPC
            <4> QED BY <1>1, <2>3, <4>1, TextOf
        <3>3. i.op = "add" /\ i.rd = SysReg /\ i.rs = 0 /\ i.imm = ExitCode
            BY <3>2, EndOf
        <3>4. rdst = <<[n |-> SysReg, value |-> (0 + ExitCode) % NumVals]>>
            BY <3>3 DEF ISA!Results, ISA!Source
        <3>5. (0 + ExitCode) % NumVals = ExitCode
            BY Constants
        <3>6. rdst[1].n = SysReg /\ rdst[1].value = ExitCode /\ Len(rdst) = 1
            BY <3>4, <3>5
        <3> HIDE DEF rdst
        <3> QED BY <1>1, <1>2, <1>3, <3>6, WriteRegsTyped
    <2> QED BY <1>4, <1>5, <2>2, <2>3 DEF Good
<1>8. ASSUME i.op = "trap"
      PROVE  next.pc = s.pc + 1 /\ next.regs = s.regs /\ next.mem = s.mem
    <2>1. rdst = << >>
        BY <1>8 DEF ISA!Results
    <2>2. next.regs = s.regs
        <3> HIDE DEF rdst
        <3> QED BY <1>1, <1>2, <1>3, <2>1, WriteRegsTyped
    <2> QED BY <1>2, <1>8, <2>2 DEF ISA!NextPC, ISA!WriteMem
<1> QED BY <1>4, <1>5, <1>6, <1>7, <1>8 DEF Op

-----------------------------------------------------------------------------
(* Memory, by doublewords                                                  *)

\* A word and its neighbour: a doubleword has two words and lies in memory.
LEMMA DoublewordOf ==
    ASSUME NEW a \in Addrs
    PROVE  /\ Doubleword(a) \in Addrs /\ Doubleword(a) + 1 \in Addrs
           /\ a - Doubleword(a) \in {0, 1}
           /\ \A b \in Addrs : Doubleword(b) = Doubleword(a)
                                  <=> b \in {Doubleword(a), Doubleword(a) + 1}
BY Constants DEF Doubleword

\* get_arch_mem_value reads two words.
LEMMA ArchMemValueTyped ==
    ASSUME NEW m \in [Addrs -> Vals], NEW a \in Addrs
    PROVE  /\ ArchMemValue(m, a) \in Pairs
           /\ ArchMemValue(m, a)[a - Doubleword(a) + 1] = m[a]
<1>1. /\ Doubleword(a) \in Addrs /\ Doubleword(a) + 1 \in Addrs
      /\ a - Doubleword(a) \in {0, 1} /\ a \in Int /\ Doubleword(a) \in Int
    <2>1. /\ Doubleword(a) \in Addrs /\ Doubleword(a) + 1 \in Addrs
          /\ a - Doubleword(a) \in {0, 1}
        BY DoublewordOf
    <2>2. Addrs \subseteq Int
        BY Constants
    <2> HIDE DEF Doubleword
    <2> QED BY <2>1, <2>2
<1>2. CASE a - Doubleword(a) = 0
    <2>1. a = Doubleword(a)
        BY <1>1, <1>2
    <2> QED BY <1>1, <1>2, <2>1 DEF ArchMemValue, Pairs
<1>3. CASE a - Doubleword(a) = 1
    <2>1. a = Doubleword(a) + 1
        BY <1>1, <1>3
    <2> QED BY <1>1, <1>3, <2>1 DEF ArchMemValue, Pairs
<1> QED BY <1>1, <1>2, <1>3

\* The image after a store, put over the memory before it, is the memory after it.
LEMMA ImageOfStore ==
    ASSUME NEW m \in [Addrs -> Vals], NEW a \in Addrs, NEW v \in Vals
    PROVE  SetDoubleword(m, a, ArchMemValue([m EXCEPT ![a] = v], a)) = [m EXCEPT ![a] = v]
<1> DEFINE d == Doubleword(a)
           after == [m EXCEPT ![a] = v]
<1>1. /\ d \in Addrs /\ d + 1 \in Addrs /\ d # d + 1 /\ a \in {d, d + 1}
    <2>1. /\ d \in Addrs /\ d + 1 \in Addrs
          /\ \A b \in Addrs : Doubleword(b) = d <=> b \in {d, d + 1}
        BY DoublewordOf
    <2>2. Addrs \subseteq Int
        BY Constants
    <2>3. d \in Int
        BY <2>1, <2>2
    <2> QED BY <2>1, <2>3
<1>2. SetDoubleword(m, a, ArchMemValue(after, a))
         = [[m EXCEPT ![d] = after[d]] EXCEPT ![d + 1] = after[d + 1]]
    BY DEF SetDoubleword, ArchMemValue
<1>3. after \in [Addrs -> Vals] /\ \A b \in Addrs : b # a => after[b] = m[b]
    OBVIOUS
<1> HIDE DEF d, after
<1>4. [[m EXCEPT ![d] = after[d]] EXCEPT ![d + 1] = after[d + 1]] = after
    BY <1>1, <1>3
<1> QED BY <1>2, <1>4 DEF after

-----------------------------------------------------------------------------
(* Filling an entry                                                        *)

\* Only the youngest entry of b and c may differ.
SameButYoungest(b, c) ==
    /\ c.head = b.head /\ c.tail = b.tail /\ c.length = b.length
    /\ \A t \in Slots : t # b.tail => c.db[t] = b.db[t]

Youngest(b) == b.db[b.tail]

\* The fields of a debug buffer.
LEMMA BufferFields ==
    ASSUME NEW b \in Buffers(Entries)
    PROVE  /\ b.db \in [Slots -> Entries] /\ b.head \in Slots /\ b.tail \in Slots
           /\ b.length \in 0 .. DEBUG_SIZE
           /\ Youngest(b) \in Entries
BY DEF Buffers, Youngest

\* start makes a new youngest entry with no destinations.
LEMMA StartTyped ==
    ASSUME NEW b \in Buffers(Entries), RingOK(b), hungry(b)
    PROVE  /\ start(b) \in Buffers(Entries)
           /\ Youngest(start(b)).a_rdst = << >>
<1> DEFINE t == MOD(b.tail + 1)
<1>1. t \in Slots
    BY BufferFields, SizeIsPositive DEF MOD, Slots
<1>2. b.length + 1 \in 0 .. DEBUG_SIZE
    BY BufferFields, SizeIsPositive DEF hungry
<1> DEFINE e == [b.db[t] EXCEPT !.a_rdst = << >>]
<1>3. /\ start(b).head = b.head /\ start(b).tail = t /\ start(b).length = b.length + 1
      /\ start(b).db = [b.db EXCEPT ![t] = e]
      /\ start(b) = [db |-> start(b).db, head |-> start(b).head, tail |-> start(b).tail,
                     length |-> start(b).length]
    <2>1. start(b) = [b EXCEPT !.length = b.length + 1, !.tail = t, !.db = [b.db EXCEPT ![t] = e]]
        BY DEF start, Buffers
    <2> HIDE DEF t, e
    <2> QED BY <2>1 DEF Buffers
<1>4. e \in Entries /\ e.a_rdst = << >>
    <2>1. b.db[t] \in Entries
        BY <1>1, BufferFields
    <2>2. << >> \in Seq(Operands)
        OBVIOUS
    <2> HIDE DEF t
    <2> QED BY <2>1, <2>2 DEF Entries
<1>5. start(b).db \in [Slots -> Entries] /\ start(b).db[t].a_rdst = << >>
    <2>1. b.db \in [Slots -> Entries]
        BY BufferFields
    <2> HIDE DEF t, e
    <2> QED BY <1>1, <1>3, <1>4, <2>1
<1> HIDE DEF t, e
<1> QED BY <1>1, <1>2, <1>3, <1>5, BufferFields DEF Buffers, Youngest

\* What the three pushes put into the youngest entry.
LEMMA PushOperand ==
    ASSUME NEW b \in Buffers(Entries), NEW n \in Regs, NEW value \in Vals,
           NEW c, c = push_operand_actual(b, n, value)
    PROVE  /\ c \in Buffers(Entries) /\ SameButYoungest(b, c)
           /\ Youngest(c).a_rdst = Append(Youngest(b).a_rdst, [n |-> n, value |-> value])
           /\ Youngest(c).a_addr = Youngest(b).a_addr /\ Youngest(c).real = Youngest(b).real
<1> DEFINE e == [Youngest(b) EXCEPT !.a_rdst = Append(Youngest(b).a_rdst, [n |-> n, value |-> value])]
<1>1. /\ e \in Entries /\ e.a_addr = Youngest(b).a_addr /\ e.real = Youngest(b).real
      /\ e.a_rdst = Append(Youngest(b).a_rdst, [n |-> n, value |-> value])
    <2>1. [n |-> n, value |-> value] \in Operands
        BY DEF Operands
    <2>2. Youngest(b) \in Entries
        BY BufferFields
    <2>3. Append(Youngest(b).a_rdst, [n |-> n, value |-> value]) \in Seq(Operands)
        BY <2>1, <2>2 DEF Entries
    <2> QED BY <2>2, <2>3 DEF Entries
<1>2. c = [b EXCEPT !.db = [b.db EXCEPT ![b.tail] = e]]
    BY BufferFields DEF push_operand_actual, Youngest
<1> HIDE DEF e
<1>3. c.db = [b.db EXCEPT ![b.tail] = e] /\ c.head = b.head /\ c.tail = b.tail /\ c.length = b.length
      /\ c = [db |-> c.db, head |-> c.head, tail |-> c.tail, length |-> c.length]
    BY <1>2 DEF Buffers
<1>4. c.db \in [Slots -> Entries] /\ c.db[b.tail] = e
      /\ \A t \in Slots : t # b.tail => c.db[t] = b.db[t]
    BY <1>1, <1>3, BufferFields
<1>5. c \in Buffers(Entries)
    BY <1>3, <1>4, BufferFields DEF Buffers
<1>6. Youngest(c) = e
    BY <1>3, <1>4 DEF Youngest
<1> QED BY <1>1, <1>3, <1>4, <1>5, <1>6 DEF SameButYoungest

\* push_address_actual records the address and the doubleword before the access.
LEMMA PushAddress ==
    ASSUME NEW b \in Buffers(Entries), NEW addr \in Addrs, NEW real \in Pairs,
           NEW c, c = push_address_actual(b, addr, real)
    PROVE  /\ c \in Buffers(Entries) /\ SameButYoungest(b, c)
           /\ Youngest(c).a_addr = addr /\ Youngest(c).real = real
           /\ Youngest(c).a_rdst = Youngest(b).a_rdst
<1> DEFINE e == [[Youngest(b) EXCEPT !.a_addr = addr] EXCEPT !.real = real]
<1>1. /\ e \in Entries /\ e.a_addr = addr /\ e.real = real
      /\ e.a_rdst = Youngest(b).a_rdst
    BY BufferFields DEF Entries
<1>2. c = [b EXCEPT !.db = [b.db EXCEPT ![b.tail] = e]]
    BY BufferFields DEF push_address_actual, Youngest
<1> HIDE DEF e
<1>3. c.db = [b.db EXCEPT ![b.tail] = e] /\ c.head = b.head /\ c.tail = b.tail /\ c.length = b.length
      /\ c = [db |-> c.db, head |-> c.head, tail |-> c.tail, length |-> c.length]
    BY <1>2 DEF Buffers
<1>4. c.db \in [Slots -> Entries] /\ c.db[b.tail] = e
      /\ \A t \in Slots : t # b.tail => c.db[t] = b.db[t]
    BY <1>1, <1>3, BufferFields
<1>5. c \in Buffers(Entries)
    BY <1>3, <1>4, BufferFields DEF Buffers
<1>6. Youngest(c) = e
    BY <1>3, <1>4 DEF Youngest
<1> QED BY <1>1, <1>3, <1>4, <1>5, <1>6 DEF SameButYoungest

\* push_instr_actual records the instruction and, of a store, the doubleword after it.
LEMMA PushInstr ==
    ASSUME NEW b \in Buffers(Entries), NEW inst \in Instructions, NEW isStore \in BOOLEAN,
           NEW p \in Int, NEW next_pc \in Int, NEW real, isStore => real \in Pairs,
           NEW c, c = push_instr_actual(b, inst, isStore, p, next_pc, real)
    PROVE  /\ c \in Buffers(Entries) /\ SameButYoungest(b, c)
           /\ Youngest(c).a_inst = inst /\ Youngest(c).a_pc = p /\ Youngest(c).a_next_pc = next_pc
           /\ Youngest(c).a_rdst = Youngest(b).a_rdst /\ Youngest(c).a_addr = Youngest(b).a_addr
           /\ Youngest(c).real = Youngest(b).real
           /\ isStore => Youngest(c).store_data = real
<1> DEFINE e == [Youngest(b) EXCEPT !.a_inst = inst, !.a_pc = p, !.a_next_pc = next_pc,
                                    !.store_data = IF isStore THEN real ELSE Youngest(b).store_data]
<1>1. /\ e \in Entries /\ e.a_inst = inst /\ e.a_pc = p /\ e.a_next_pc = next_pc
      /\ e.a_rdst = Youngest(b).a_rdst /\ e.a_addr = Youngest(b).a_addr
      /\ e.real = Youngest(b).real
      /\ isStore => e.store_data = real
    BY BufferFields DEF Entries
<1>2. c = [b EXCEPT !.db = [b.db EXCEPT ![b.tail] = e]]
    BY BufferFields DEF push_instr_actual, Youngest
<1> HIDE DEF e
<1>3. c.db = [b.db EXCEPT ![b.tail] = e] /\ c.head = b.head /\ c.tail = b.tail /\ c.length = b.length
      /\ c = [db |-> c.db, head |-> c.head, tail |-> c.tail, length |-> c.length]
    BY <1>2 DEF Buffers
<1>4. c.db \in [Slots -> Entries] /\ c.db[b.tail] = e
      /\ \A t \in Slots : t # b.tail => c.db[t] = b.db[t]
    BY <1>1, <1>3, BufferFields
<1>5. c \in Buffers(Entries)
    BY <1>3, <1>4, BufferFields DEF Buffers
<1>6. Youngest(c) = e
    BY <1>3, <1>4 DEF Youngest
<1> QED BY <1>1, <1>3, <1>4, <1>5, <1>6 DEF SameButYoungest

\* Pushes keep the ring, and the window but for its last entry.
LEMMA SameRing ==
    ASSUME NEW b \in Buffers(Entries), NEW c \in Buffers(Entries), SameButYoungest(b, c),
           RingOK(b), b.length > 0
    PROVE  /\ RingOK(c)
           /\ \A i \in 1 .. b.length - 1 : Window(c)[i] = Window(b)[i]
           /\ Window(c)[b.length] = Youngest(c)
<1>1. /\ b.head \in Slots /\ b.tail \in Slots /\ b.length \in 1 .. DEBUG_SIZE
      /\ b.tail = MOD(b.head + b.length + DEBUG_SIZE - 1)
    BY SizeIsPositive DEF RingOK
<1>2. /\ c.head = b.head /\ c.tail = b.tail /\ c.length = b.length
      /\ \A s \in Slots : s # b.tail => c.db[s] = b.db[s]
    BY DEF SameButYoungest
<1>3. RingOK(c)
    BY <1>1, <1>2, SizeIsPositive, WindowIsActive
<1>4. b.tail = MOD(b.head + (b.length - 1))
    <2>1. /\ b.head + b.length + DEBUG_SIZE - 1 \in Nat
          /\ b.head + b.length + DEBUG_SIZE - 1 < 3 * DEBUG_SIZE
          /\ b.head + (b.length - 1) \in Nat /\ b.head + (b.length - 1) < 3 * DEBUG_SIZE
        BY <1>1, SizeIsPositive DEF Slots
    <2> QED BY <1>1, <2>1, ModOfSum, SizeIsPositive DEF Slots
<1>5. ASSUME NEW i \in 1 .. b.length - 1
      PROVE  Window(c)[i] = Window(b)[i]
    <2>1. /\ i - 1 \in 0 .. DEBUG_SIZE - 1 /\ b.length - 1 \in 0 .. DEBUG_SIZE - 1
          /\ i - 1 # b.length - 1
        BY <1>1, SizeIsPositive
    <2>2. MOD(b.head + (i - 1)) # b.tail
        BY <1>1, <1>4, <2>1, ModInjective
    <2>3. b.head + (i - 1) = b.head + i - 1 /\ i \in 1 .. c.length /\ i \in 1 .. b.length
        BY <1>1, <1>2, SizeIsPositive DEF Slots
    <2>4. MOD(b.head + i - 1) \in Slots
        <3>1. b.head + i - 1 \in Nat /\ b.head + i - 1 < 3 * DEBUG_SIZE
            BY <1>1, <2>1, SizeIsPositive DEF Slots
        <3> QED BY <1>1, <2>1, <3>1, ModOfSum, SizeIsPositive DEF Slots
    <2> QED BY <1>2, <2>2, <2>3, <2>4 DEF Window
<1>6. Window(c)[b.length] = Youngest(c)
    <2>1. b.length \in 1 .. c.length /\ b.head + b.length - 1 = b.head + (b.length - 1)
        BY <1>1, <1>2, SizeIsPositive DEF Slots
    <2> QED BY <1>2, <1>4, <2>1 DEF Window, Youngest
<1> QED BY <1>3, <1>5, <1>6

\* Pushes one after the other touch only the youngest entry.
LEMMA SameTrans ==
    ASSUME NEW b, NEW c, NEW d, SameButYoungest(b, c), SameButYoungest(c, d)
    PROVE  SameButYoungest(b, d)
BY DEF SameButYoungest

\* Two pushed destinations are a pair.
LEMMA AppendTwo ==
    ASSUME NEW x \in Operands, NEW y \in Operands
    PROVE  Append(<<x>>, y) = <<x, y>>
<1> DEFINE s == Append(<<x>>, y)
           t == <<x, y>>
<1>1. /\ s \in Seq(Operands) /\ Len(s) = 2 /\ s[1] = x /\ s[2] = y
    OBVIOUS
<1>2. /\ t \in Seq(Operands) /\ Len(t) = 2 /\ t[1] = x /\ t[2] = y
    OBVIOUS
<1> HIDE DEF s, t
<1>3. s = t
    BY <1>1, <1>2, SeqEqual
<1> QED BY <1>3 DEF s, t

\* The destinations an instruction pushes are its results, in order.
LEMMA DestinationsPushed ==
    ASSUME NEW b \in Buffers(Entries), NEW rdst \in Seq(Operands), Len(rdst) \in {0, 1, 2},
           Youngest(b).a_rdst = << >>
    PROVE  LET c == Destinations(b, rdst) IN
           /\ c \in Buffers(Entries) /\ SameButYoungest(b, c)
           /\ Youngest(c).a_rdst = rdst
           /\ Youngest(c).a_addr = Youngest(b).a_addr /\ Youngest(c).real = Youngest(b).real
<1>1. CASE Len(rdst) = 0
    <2>1. rdst = << >> /\ Destinations(b, rdst) = b
        BY <1>1 DEF Destinations
    <2> QED BY <2>1 DEF SameButYoungest
<1> DEFINE c1 == push_operand_actual(b, rdst[1].n, rdst[1].value)
<1>2. ASSUME Len(rdst) \in {1, 2}
      PROVE  /\ rdst[1] \in Operands
             /\ c1 \in Buffers(Entries) /\ SameButYoungest(b, c1)
             /\ Youngest(c1).a_rdst = <<rdst[1]>>
             /\ Youngest(c1).a_addr = Youngest(b).a_addr /\ Youngest(c1).real = Youngest(b).real
    <2>1. rdst[1] \in Operands
        BY <1>2
    <2>2. rdst[1].n \in Regs /\ rdst[1].value \in Vals
          /\ [n |-> rdst[1].n, value |-> rdst[1].value] = rdst[1]
        BY <2>1 DEF Operands
    <2>3. c1 = push_operand_actual(b, rdst[1].n, rdst[1].value)
        OBVIOUS
    <2> HIDE DEF c1
    <2>4. /\ c1 \in Buffers(Entries) /\ SameButYoungest(b, c1)
          /\ Youngest(c1).a_rdst = Append(Youngest(b).a_rdst, rdst[1])
          /\ Youngest(c1).a_addr = Youngest(b).a_addr /\ Youngest(c1).real = Youngest(b).real
        BY <2>2, <2>3, PushOperand
    <2>5. Append(<< >>, rdst[1]) = <<rdst[1]>>
        BY <2>1
    <2> QED BY <2>1, <2>4, <2>5
<1>3. CASE Len(rdst) = 1
    <2>1. Destinations(b, rdst) = c1
        BY <1>3 DEF Destinations
    <2>2. rdst = <<rdst[1]>>
        BY <1>3
    <2> HIDE DEF c1
    <2> QED BY <1>2, <1>3, <2>1, <2>2
<1>4. CASE Len(rdst) = 2
    <2> DEFINE c2 == push_operand_actual(c1, rdst[2].n, rdst[2].value)
    <2>1. Destinations(b, rdst) = c2
        BY <1>4 DEF Destinations
    <2>2. rdst = <<rdst[1], rdst[2]>>
        BY <1>4
    <2>3. rdst[2] \in Operands
        <3>1. \A k \in 1 .. Len(rdst) : rdst[k] \in Operands
            OBVIOUS
        <3> QED BY <1>4, <3>1
    <2>4. rdst[2].n \in Regs /\ rdst[2].value \in Vals
          /\ [n |-> rdst[2].n, value |-> rdst[2].value] = rdst[2]
        BY <2>3 DEF Operands
    <2>5. c2 = push_operand_actual(c1, rdst[2].n, rdst[2].value)
        OBVIOUS
    <2> HIDE DEF c1, c2
    <2>6. /\ rdst[1] \in Operands
          /\ c1 \in Buffers(Entries) /\ SameButYoungest(b, c1)
          /\ Youngest(c1).a_rdst = <<rdst[1]>>
          /\ Youngest(c1).a_addr = Youngest(b).a_addr /\ Youngest(c1).real = Youngest(b).real
        BY <1>2, <1>4
    <2>7. /\ c2 \in Buffers(Entries) /\ SameButYoungest(c1, c2)
          /\ Youngest(c2).a_rdst = Append(Youngest(c1).a_rdst, rdst[2])
          /\ Youngest(c2).a_addr = Youngest(c1).a_addr /\ Youngest(c2).real = Youngest(c1).real
        <3> DEFINE n == rdst[2].n
                   v == rdst[2].value
        <3>1. n \in Regs /\ v \in Vals /\ [n |-> n, value |-> v] = rdst[2]
            BY <2>4
        <3>2. c2 = push_operand_actual(c1, n, v) /\ c1 \in Buffers(Entries)
            BY <2>5, <2>6
        <3> HIDE DEF n, v
        <3> QED BY <3>1, <3>2, PushOperand
    <2>8. SameButYoungest(b, c2)
        BY <2>6, <2>7, SameTrans
    <2>9. Append(<<rdst[1]>>, rdst[2]) = <<rdst[1], rdst[2]>>
        BY <2>3, <2>6, AppendTwo
    <2> QED BY <2>1, <2>2, <2>6, <2>7, <2>8, <2>9
<1> QED BY <1>1, <1>3, <1>4

\* Entry e records what the program does in state s.
Records(prog, e, s) ==
    LET i == ISA!InstAt(prog, s.pc)
        next == ISA!Exec(prog, s)
    IN  /\ e.a_pc = s.pc /\ e.a_next_pc = next.pc /\ e.a_inst = i
        /\ e.a_rdst = ISA!Results(i, s.regs, s.mem)
        /\ i.op = "store" => /\ e.a_addr = i.imm
                             /\ e.real = ArchMemValue(s.mem, i.imm)
                             /\ e.store_data = ArchMemValue(next.mem, i.imm)

\* The state of the program the functional simulator has reached.
Ahead(f) == [pc |-> f.pc, regs |-> f.regs, mem |-> f.mem]

\* func_sim executes one instruction and records it behind the window.
LEMMA FuncSim ==
    ASSUME program \in DOMAIN Programs, NEW f \in Simulators, RingOK(f.db), hungry(f.db),
           Good(program, Ahead(f))
    PROVE  LET g == func_sim(f)
               next == ISA!Exec(program, Ahead(f))
           IN  /\ g \in Simulators /\ RingOK(g.db)
               /\ g.db.length = f.db.length + 1
               /\ \A i \in 1 .. f.db.length : Window(g.db)[i] = Window(f.db)[i]
               /\ Records(program, Window(g.db)[f.db.length + 1], Ahead(f))
               /\ Ahead(g) = next
               /\ g.blocked = (f.blocked \/ Op(program, f.pc) = "trap")
               /\ g.arch_PC = f.arch_PC
<1> DEFINE i == ISA!InstAt(program, f.pc)
           next == ISA!Exec(program, Ahead(f))
           rdst == ISA!Results(i, f.regs, f.mem)
           b1 == start(f.db)
           b2 == IF i.op \in {"load", "dload", "store"}
                 THEN push_address_actual(b1, i.imm, ArchMemValue(f.mem, i.imm))
                 ELSE b1
           b3 == Destinations(b2, rdst)
           image == IF i.op = "store" THEN ArchMemValue(next.mem, i.imm) ELSE <<0, 0>>
           b4 == push_instr_actual(b3, i, i.op = "store", f.pc, next.pc, image)
           g == func_sim(f)
<1>1. /\ f.db \in Buffers(Entries) /\ f.pc \in Int /\ f.regs \in [Regs -> Vals]
      /\ f.mem \in [Addrs -> Vals] /\ f.blocked \in BOOLEAN /\ f.arch_PC \in Int
    BY DEF Simulators
<1>2. f.pc \in ISA!TextPCs(program)
    BY DEF Good, Ahead
<1>3. i \in Instructions /\ Executable(i)
    BY <1>2, TextOf
<1>4. /\ next.pc \in Int /\ next.regs \in [Regs -> Vals] /\ next.mem \in [Addrs -> Vals]
    BY ExecTyped
<1>5. next = [pc |-> next.pc, regs |-> next.regs, mem |-> next.mem]
    BY DEF ISA!Exec
<1>6. rdst \in Seq(Operands) /\ Len(rdst) \in {0, 1, 2}
    BY <1>1, <1>3, ResultsTyped
<1>7. g = [f EXCEPT !.db = b4, !.regs = next.regs, !.mem = next.mem, !.pc = next.pc,
                    !.blocked = f.blocked \/ i.op = "trap"]
    BY DEF func_sim, Ahead
<1> HIDE DEF g, next, rdst
<1>8. /\ b1 \in Buffers(Entries) /\ Youngest(b1).a_rdst = << >>
      /\ RingOK(b1) /\ b1.length = f.db.length + 1
      /\ \A k \in 1 .. f.db.length : Window(b1)[k] = Window(f.db)[k]
    BY <1>1, StartTyped, StartAppends
<1>9. /\ b2 \in Buffers(Entries) /\ SameButYoungest(b1, b2) /\ Youngest(b2).a_rdst = << >>
      /\ i.op = "store" => /\ Youngest(b2).a_addr = i.imm
                           /\ Youngest(b2).real = ArchMemValue(f.mem, i.imm)
    <2>1. CASE i.op \in {"load", "dload", "store"}
        <3> DEFINE real == ArchMemValue(f.mem, i.imm)
                   c == push_address_actual(b1, i.imm, real)
        <3>1. i.imm \in Addrs
            BY <1>3, <2>1 DEF Executable
        <3>2. real \in Pairs
            BY <1>1, <3>1, ArchMemValueTyped
        <3>5. b2 = c
            BY <2>1 DEF real
        <3> HIDE DEF b1, b2, real, i
        <3>6. c = push_address_actual(b1, i.imm, real)
            OBVIOUS
        <3> HIDE DEF c
        <3>3. /\ c \in Buffers(Entries) /\ SameButYoungest(b1, c)
              /\ Youngest(c).a_addr = i.imm /\ Youngest(c).real = real
              /\ Youngest(c).a_rdst = Youngest(b1).a_rdst
            BY <1>8, <3>1, <3>2, <3>6, PushAddress
        <3> QED BY <1>8, <3>3, <3>5 DEF real
    <2>2. CASE i.op \notin {"load", "dload", "store"}
        <3>1. b2 = b1
            BY <2>2
        <3> QED BY <1>8, <2>2, <3>1 DEF SameButYoungest
    <2> QED BY <2>1, <2>2
<1> HIDE DEF b1, b2
<1>10. /\ b3 \in Buffers(Entries) /\ SameButYoungest(b2, b3) /\ Youngest(b3).a_rdst = rdst
       /\ Youngest(b3).a_addr = Youngest(b2).a_addr /\ Youngest(b3).real = Youngest(b2).real
    BY <1>6, <1>9, DestinationsPushed
<1> HIDE DEF b3
<1>11. /\ i.op = "store" => image = ArchMemValue(next.mem, i.imm) /\ image \in Pairs
    BY <1>3, <1>4, ArchMemValueTyped DEF Executable
<1> HIDE DEF image
<1>12. /\ b4 \in Buffers(Entries) /\ SameButYoungest(b3, b4)
       /\ Youngest(b4).a_inst = i /\ Youngest(b4).a_pc = f.pc /\ Youngest(b4).a_next_pc = next.pc
       /\ Youngest(b4).a_rdst = rdst /\ Youngest(b4).a_addr = Youngest(b2).a_addr
       /\ Youngest(b4).real = Youngest(b2).real
       /\ i.op = "store" => Youngest(b4).store_data = image
    <2> DEFINE isStore == i.op = "store"
    <2>1. isStore \in BOOLEAN /\ (isStore => image \in Pairs)
        BY <1>11
    <2> DEFINE c == push_instr_actual(b3, i, isStore, f.pc, next.pc, image)
    <2>2. b4 = c
        BY DEF isStore
    <2>3. isStore <=> i.op = "store"
        OBVIOUS
    <2> HIDE DEF isStore, i, b4
    <2>5. c = push_instr_actual(b3, i, isStore, f.pc, next.pc, image)
        OBVIOUS
    <2> HIDE DEF c
    <2>4. /\ c \in Buffers(Entries) /\ SameButYoungest(b3, c)
          /\ Youngest(c).a_inst = i /\ Youngest(c).a_pc = f.pc /\ Youngest(c).a_next_pc = next.pc
          /\ Youngest(c).a_rdst = Youngest(b3).a_rdst /\ Youngest(c).a_addr = Youngest(b3).a_addr
          /\ Youngest(c).real = Youngest(b3).real
          /\ isStore => Youngest(c).store_data = image
        BY <1>1, <1>3, <1>4, <1>10, <2>1, <2>5, PushInstr
    <2> QED BY <1>10, <2>2, <2>3, <2>4
<1> HIDE DEF b4
<1>13. SameButYoungest(b1, b4)
    BY <1>9, <1>10, <1>12, SameTrans
<1>14. /\ RingOK(b4) /\ b4.length = f.db.length + 1
       /\ \A k \in 1 .. f.db.length : Window(b4)[k] = Window(f.db)[k]
       /\ Window(b4)[f.db.length + 1] = Youngest(b4)
    <2>1. f.db.length \in Nat
        BY <1>1, BufferFields, SizeIsPositive
    <2>2. b1.length > 0 /\ b1.length - 1 = f.db.length
        BY <1>8, <2>1
    <2>3. b4.length = b1.length
        BY <1>13 DEF SameButYoungest
    <2>4. /\ RingOK(b4)
          /\ \A k \in 1 .. b1.length - 1 : Window(b4)[k] = Window(b1)[k]
          /\ Window(b4)[b1.length] = Youngest(b4)
        BY <1>8, <1>12, <1>13, <2>2, SameRing
    <2> QED BY <1>8, <2>2, <2>3, <2>4
<1>15. /\ g.db = b4 /\ g.regs = next.regs /\ g.mem = next.mem /\ g.pc = next.pc
       /\ g.blocked = (f.blocked \/ i.op = "trap") /\ g.arch_PC = f.arch_PC
       /\ g \in Simulators
    <2> DEFINE stop == f.blocked \/ i.op = "trap"
    <2>1. stop \in BOOLEAN
        BY <1>1
    <2>2. g = [f EXCEPT !.db = b4, !.regs = next.regs, !.mem = next.mem, !.pc = next.pc,
                        !.blocked = stop]
        BY <1>7
    <2> HIDE DEF stop
    <2>3. /\ g.db = b4 /\ g.regs = next.regs /\ g.mem = next.mem /\ g.pc = next.pc
          /\ g.blocked = stop /\ g.arch_PC = f.arch_PC
          /\ g \in Simulators
        BY <1>1, <1>4, <1>12, <2>1, <2>2 DEF Simulators
    <2> QED BY <2>3 DEF stop
<1>16. Records(program, Youngest(b4), Ahead(f))
    <2>1. Ahead(f).pc = f.pc /\ Ahead(f).regs = f.regs /\ Ahead(f).mem = f.mem
        BY DEF Ahead
    <2> QED BY <1>9, <1>11, <1>12, <2>1 DEF Records, next, rdst
<1>17. Ahead(g) = next
    BY <1>5, <1>15 DEF Ahead
<1> HIDE DEF i
<1> QED BY <1>14, <1>15, <1>16, <1>17 DEF g, next, i, Op

-----------------------------------------------------------------------------
(* Running ahead                                                           *)

States == [pc : Int, regs : [Regs -> Vals], mem : [Addrs -> Vals]]

\* The window of f records the program from state base to where f is; st[k] is
\* the state after its k oldest entries.
Chain(prog, f, base, st) ==
    /\ st \in [0 .. DEBUG_SIZE -> States]
    /\ st[0] = base /\ st[f.db.length] = Ahead(f)
    /\ \A k \in 1 .. f.db.length :
          /\ Good(prog, st[k - 1])
          /\ Records(prog, Window(f.db)[k], st[k - 1])
          /\ st[k] = ISA!Exec(prog, st[k - 1])

\* f is blocked exactly by a system call at the end of its window; the first
\* entry may be a call that has been answered.
Stops(prog, f, st, answered) ==
    /\ \A k \in 1 .. f.db.length :
          Op(prog, st[k - 1].pc) = "trap" =>
             (k = 1 /\ answered = 1) \/ (k = f.db.length /\ f.blocked)
    /\ f.blocked => /\ f.db.length > 0 /\ Op(prog, st[f.db.length - 1].pc) = "trap"
                    /\ ~ (f.db.length = 1 /\ answered = 1)
    /\ ~f.blocked => Good(prog, Ahead(f))
    /\ answered = 1 => f.db.length > 0

Linked(prog, f, base, answered) ==
    /\ f \in Simulators /\ RingOK(f.db) /\ f.arch_PC = base.pc
    /\ \E st : Chain(prog, f, base, st) /\ Stops(prog, f, st, answered)

\* The length of a window.
LEMMA LengthOf ==
    ASSUME NEW f \in Simulators
    PROVE  f.db.length \in 0 .. DEBUG_SIZE /\ f.db.length \in Nat /\ f.db \in Buffers(Entries)
<1>1. f.db \in Buffers(Entries)
    BY DEF Simulators
<1>2. f.db.length \in 0 .. DEBUG_SIZE
    BY <1>1, BufferFields
<1> QED BY <1>1, <1>2, Constants

\* A round of run_ahead keeps the chain.
LEMMA RoundKeeps ==
    ASSUME program \in DOMAIN Programs, NEW f, NEW base, NEW answered \in {0, 1},
           Linked(program, f, base, answered)
    PROVE  /\ Linked(program, Round(f), base, answered)
           /\ f.blocked \/ ~hungry(f.db) => Round(f) = f
           /\ ~f.blocked /\ hungry(f.db) => Round(f).db.length = f.db.length + 1
<1> DEFINE n == f.db.length
           g == func_sim(f)
           next == ISA!Exec(program, Ahead(f))
<1>1. /\ f \in Simulators /\ RingOK(f.db) /\ f.arch_PC = base.pc
    BY DEF Linked
<1>2. PICK st : Chain(program, f, base, st) /\ Stops(program, f, st, answered)
    BY DEF Linked
<1>3. CASE f.blocked \/ ~hungry(f.db)
    <2>1. Round(f) = f
        BY <1>3 DEF Round
    <2> QED BY <1>3, <2>1
<1>4. CASE ~f.blocked /\ hungry(f.db)
    <2>1. Round(f) = g
        BY <1>4 DEF Round
    <2>2. Good(program, Ahead(f))
        BY <1>2, <1>4 DEF Stops
    <2>3. /\ g \in Simulators /\ RingOK(g.db) /\ g.db.length = n + 1
          /\ \A i \in 1 .. n : Window(g.db)[i] = Window(f.db)[i]
          /\ Records(program, Window(g.db)[n + 1], Ahead(f))
          /\ Ahead(g) = next
          /\ g.blocked = (f.blocked \/ Op(program, f.pc) = "trap")
          /\ g.arch_PC = f.arch_PC
        BY <1>1, <1>4, <2>2, FuncSim
    <2>4. n \in Nat /\ n + 1 \in 0 .. DEBUG_SIZE /\ n < DEBUG_SIZE
        <3>1. n \in Nat
            BY <1>1, LengthOf
        <3>2. n < DEBUG_SIZE
            BY <1>4 DEF hungry
        <3> HIDE DEF n
        <3> QED BY <3>1, <3>2, Constants
    <2>5. next \in States
        <3>1. next.pc \in Int /\ next.regs \in [Regs -> Vals] /\ next.mem \in [Addrs -> Vals]
            BY <2>2, ExecTyped
        <3>2. next = [pc |-> next.pc, regs |-> next.regs, mem |-> next.mem]
            BY DEF ISA!Exec
        <3> HIDE DEF next
        <3> QED BY <3>1, <3>2 DEF States
    <2> DEFINE st2 == [st EXCEPT ![n + 1] = next]
    <2>6. /\ st \in [0 .. DEBUG_SIZE -> States] /\ st[0] = base /\ st[n] = Ahead(f)
          /\ \A k \in 1 .. n : /\ Good(program, st[k - 1])
                               /\ Records(program, Window(f.db)[k], st[k - 1])
                               /\ st[k] = ISA!Exec(program, st[k - 1])
        BY <1>2 DEF Chain
    <2>7. /\ st2 \in [0 .. DEBUG_SIZE -> States] /\ st2[n + 1] = next
          /\ \A k \in 0 .. n : st2[k] = st[k]
        <3> HIDE DEF next, n
        <3> QED BY <2>4, <2>5, <2>6
    <2>8. Ahead(f).pc = f.pc
        BY DEF Ahead
    <2> HIDE DEF g, next, n, st2
    <2>9. ASSUME NEW k \in 1 .. n + 1
          PROVE  /\ Good(program, st2[k - 1])
                 /\ Records(program, Window(g.db)[k], st2[k - 1])
                 /\ st2[k] = ISA!Exec(program, st2[k - 1])
        <3>1. CASE k = n + 1
            <4>1. k - 1 = n /\ st2[k - 1] = Ahead(f)
                BY <2>4, <2>6, <2>7, <3>1
            <4> QED BY <2>2, <2>3, <2>7, <3>1, <4>1 DEF next
        <3>2. CASE k # n + 1
            <4>1. k \in 1 .. n /\ k - 1 \in 0 .. n /\ k \in 0 .. n
                BY <2>4, <3>2
            <4> QED BY <2>3, <2>6, <2>7, <4>1
        <3> QED BY <3>1, <3>2
    <2>10. Chain(program, g, base, st2)
        <3>1. st2[0] = base /\ st2[n + 1] = Ahead(g)
            BY <2>3, <2>4, <2>6, <2>7
        <3> QED BY <2>3, <2>7, <2>9, <3>1 DEF Chain
    <2>11. Stops(program, g, st2, answered)
        <3>1. \A k \in 1 .. n : Op(program, st[k - 1].pc) = "trap" => k = 1 /\ answered = 1
            <4>1. \A k \in 1 .. n :
                    Op(program, st[k - 1].pc) = "trap" =>
                      (k = 1 /\ answered = 1) \/ (k = n /\ f.blocked)
                BY <1>2 DEF Stops, n
            <4> QED BY <1>4, <4>1
        <3>2. st2[n] = Ahead(f) /\ (n + 1) - 1 = n
            BY <2>4, <2>6, <2>7
        <3>3. g.blocked <=> Op(program, f.pc) = "trap"
            BY <1>4, <2>3
        <3>4. ASSUME NEW k \in 1 .. n + 1, Op(program, st2[k - 1].pc) = "trap"
              PROVE  (k = 1 /\ answered = 1) \/ (k = n + 1 /\ g.blocked)
            <4>1. CASE k = n + 1
                BY <2>8, <3>2, <3>3, <3>4, <4>1
            <4>2. CASE k # n + 1
                <5>1. k \in 1 .. n /\ k - 1 \in 0 .. n
                    BY <2>4, <4>2
                <5> QED BY <2>7, <3>1, <3>4, <5>1
            <4> QED BY <4>1, <4>2
        <3>5. ~ (n + 1 = 1 /\ answered = 1)
            <4>1. answered = 1 => n > 0
                BY <1>2 DEF Stops, n
            <4> QED BY <2>4, <4>1
        <3>6. ASSUME ~g.blocked
              PROVE  Good(program, Ahead(g))
            BY <2>2, <2>3, <2>8, <3>3, <3>6, ExecTyped DEF next
        <3>7. g.db.length = n + 1 /\ g.db.length > 0
            BY <2>3, <2>4
        <3> QED BY <2>8, <3>2, <3>3, <3>4, <3>5, <3>6, <3>7 DEF Stops
    <2>12. Linked(program, g, base, answered)
        BY <1>1, <2>3, <2>10, <2>11 DEF Linked
    <2> QED BY <1>4, <2>1, <2>3, <2>12 DEF n
<1> QED BY <1>3, <1>4

\* run_ahead fills the buffer unless a system call stops it.
LEMMA RunAheadKeeps ==
    ASSUME program \in DOMAIN Programs, NEW f, NEW base, NEW answered \in {0, 1},
           Linked(program, f, base, answered),
           NEW g, g = run_ahead(f)
    PROVE  /\ Linked(program, g, base, answered)
           /\ g.db.length >= f.db.length
           /\ g.blocked \/ g.db.length = DEBUG_SIZE
<1>1. PICK ran : /\ ran = [k \in 0 .. DEBUG_SIZE |-> IF k = 0 THEN f ELSE Round(ran[k - 1])]
                 /\ run_ahead(f) = ran[DEBUG_SIZE]
    BY RunAheadRounds
<1>2. DEBUG_SIZE \in Nat /\ DEBUG_SIZE >= 2
    BY Constants
<1> DEFINE S == {k \in 0 .. DEBUG_SIZE : /\ Linked(program, ran[k], base, answered)
                                         /\ ran[k].db.length >= f.db.length
                                         /\ ran[k].blocked \/ ran[k].db.length >= k}
<1>3. 0 \in S
    <2>1. ran[0] = f
        BY <1>1, <1>2
    <2>2. f \in Simulators
        BY DEF Linked
    <2>3. f.db.length \in Nat
        BY <2>2, LengthOf
    <2> QED BY <1>2, <2>1, <2>3
<1>4. ASSUME NEW k \in 0 .. DEBUG_SIZE - 1, k \in S
      PROVE  k + 1 \in S
    <2>1. k + 1 \in 0 .. DEBUG_SIZE /\ k + 1 # 0 /\ (k + 1) - 1 = k
        BY <1>2
    <2>2. ran[k + 1] = Round(ran[k])
        BY <1>1, <2>1
    <2> DEFINE h == ran[k]
               h2 == ran[k + 1]
    <2>3. /\ Linked(program, h, base, answered)
          /\ h.db.length >= f.db.length
          /\ h.blocked \/ h.db.length >= k
        BY <1>4
    <2>4. h2 = Round(h)
        BY <2>2
    <2> HIDE DEF h, h2
    <2>5. /\ Linked(program, h2, base, answered)
          /\ h.blocked \/ ~hungry(h.db) => h2 = h
          /\ ~h.blocked /\ hungry(h.db) => h2.db.length = h.db.length + 1
        BY <2>3, <2>4, RoundKeeps
    <2>6. h \in Simulators /\ f \in Simulators
        BY <2>3 DEF Linked
    <2>7. h.db.length \in Nat /\ f.db.length \in Nat
        BY <2>6, LengthOf
    <2>8. h2.db.length >= f.db.length /\ (h2.blocked \/ h2.db.length >= k + 1)
        <3>1. CASE h.blocked
            BY <2>3, <2>5, <3>1
        <3>2. CASE ~h.blocked /\ hungry(h.db)
            BY <2>3, <2>5, <2>7, <3>2
        <3>3. CASE ~hungry(h.db)
            BY <1>2, <2>1, <2>3, <2>5, <2>7, <3>3 DEF hungry
        <3> QED BY <3>1, <3>2, <3>3
    <2> QED BY <2>1, <2>5, <2>8 DEF h2
<1>5. \A k \in 0 .. DEBUG_SIZE : k \in S
    <2> HIDE DEF S
    <2> QED BY <1>2, <1>3, <1>4, Rounds
<1>6. DEBUG_SIZE \in S
    BY <1>2, <1>5
<1>7. /\ Linked(program, g, base, answered) /\ g.db.length >= f.db.length
      /\ g.blocked \/ g.db.length >= DEBUG_SIZE
    BY <1>1, <1>6
<1>8. g \in Simulators
    BY <1>7 DEF Linked
<1>9. g.db.length \in 0 .. DEBUG_SIZE
    BY <1>8, LengthOf
<1> QED BY <1>2, <1>7, <1>9

-----------------------------------------------------------------------------
(* Taking an entry                                                         *)

\* The entry of an instruction, replayed, does what the instruction does.
LEMMA ReplayedEntry ==
    ASSUME NEW prog \in DOMAIN Programs, NEW s, Good(prog, s), NEW e, Records(prog, e, s)
    PROVE  /\ ISA!WriteRegs(s.regs, e.a_rdst) = ISA!Exec(prog, s).regs
           /\ Replayed(e, s.mem) = ISA!Exec(prog, s).mem
<1> DEFINE i == ISA!InstAt(prog, s.pc)
           v == ISA!Source(i, s.regs)
<1>1. /\ s.pc \in ISA!TextPCs(prog) /\ s.regs \in [Regs -> Vals] /\ s.mem \in [Addrs -> Vals]
    BY DEF Good
<1>2. i \in Instructions /\ Executable(i)
    BY <1>1, TextOf
<1>3. v \in Vals
    BY <1>1, <1>2, ResultsTyped
<1>4. e.a_inst = i /\ e.a_rdst = ISA!Results(i, s.regs, s.mem)
    BY DEF Records
<1>5. /\ ISA!Exec(prog, s).regs = ISA!WriteRegs(s.regs, e.a_rdst)
      /\ ISA!Exec(prog, s).mem = ISA!WriteMem(i, s.regs, s.mem)
    BY <1>4 DEF ISA!Exec
<1>6. CASE i.op = "store"
    <2>1. /\ e.a_addr = i.imm
          /\ e.store_data = ArchMemValue(ISA!Exec(prog, s).mem, i.imm)
        BY <1>6 DEF Records
    <2>2. ISA!Exec(prog, s).mem = [s.mem EXCEPT ![i.imm] = v]
        BY <1>5, <1>6 DEF ISA!WriteMem
    <2>3. i.imm \in Addrs
        BY <1>2, <1>6 DEF Executable
    <2>4. Replayed(e, s.mem) = SetDoubleword(s.mem, i.imm, ArchMemValue([s.mem EXCEPT ![i.imm] = v], i.imm))
        BY <1>4, <1>6, <2>1, <2>2 DEF Replayed
    <2> HIDE DEF i, v
    <2>5. Replayed(e, s.mem) = [s.mem EXCEPT ![i.imm] = v]
        BY <1>1, <1>3, <2>3, <2>4, ImageOfStore
    <2> QED BY <1>5, <2>2, <2>5
<1>7. CASE i.op # "store"
    BY <1>4, <1>5, <1>7 DEF Replayed, ISA!WriteMem
<1> QED BY <1>5, <1>6, <1>7

\* pop leaves a buffer.
LEMMA PopTyped ==
    ASSUME NEW b \in Buffers(Entries), RingOK(b), CanPop(b)
    PROVE  pop(b) \in Buffers(Entries)
<1> DEFINE h == MOD(b.head + 1)
           n == b.length - 1
<1>1. h \in Slots /\ n \in 0 .. DEBUG_SIZE
    BY BufferFields, SizeIsPositive DEF MOD, Slots, CanPop
<1>2. pop(b) = [b EXCEPT !.length = n, !.head = h]
    BY DEF pop, Buffers
<1> HIDE DEF h, n
<1> QED BY <1>1, <1>2 DEF Buffers

\* The entry at the head is the next instruction of the program, and what is
\* left of the buffer continues after it.  A system call has to be answered.
LEMMA TakeKeeps ==
    ASSUME program \in DOMAIN Programs, NEW f, NEW base, NEW answered \in {0, 1},
           Linked(program, f, base, answered), f.db.length > 0,
           Op(program, base.pc) = "trap" => answered = 1,
           NEW e, e = Taken(f), NEW g, g = AfterGetInstr(f),
           NEW next, next = ISA!Exec(program, base)
    PROVE  /\ CanGetInstr(f)
           /\ Good(program, base)
           /\ e \in Entries /\ Records(program, e, base)
           /\ Linked(program, g, next, 0)
           /\ g.db.length = f.db.length - 1
           /\ f.blocked => f.db.length >= 2
           /\ g.blocked = f.blocked
<1> DEFINE n == f.db.length
           b == f.db
<1>1. /\ f \in Simulators /\ RingOK(b) /\ f.arch_PC = base.pc
    BY DEF Linked
<1>2. PICK st : Chain(program, f, base, st) /\ Stops(program, f, st, answered)
    BY DEF Linked
<1>3. n \in 1 .. DEBUG_SIZE /\ n \in Nat /\ b \in Buffers(Entries) /\ DEBUG_SIZE \in Nat
    <2>1. n \in 0 .. DEBUG_SIZE /\ b \in Buffers(Entries)
        BY <1>1, LengthOf
    <2> HIDE DEF b
    <2> QED BY <2>1, Constants
<1>4. CanPop(b)
    BY Zenon DEF CanPop
<1>5. /\ RingOK(pop(b)) /\ pop(b).length = n - 1 /\ e = Window(b)[1]
      /\ \A k \in 1 .. n - 1 : Window(pop(b))[k] = Window(b)[k + 1]
      /\ pop(b) \in Buffers(Entries)
    <2>1. e = b.db[b.head]
        BY DEF Taken
    <2> HIDE DEF b
    <2> QED BY <1>1, <1>3, <1>4, <2>1, PopTakesOldest, PopTyped DEF n, b
<1>6. e \in Entries
    <2>1. e = b.db[b.head]
        BY DEF Taken
    <2> QED BY <1>3, <2>1, BufferFields
<1>7. /\ st \in [0 .. DEBUG_SIZE -> States] /\ st[0] = base /\ st[n] = Ahead(f)
      /\ \A k \in 1 .. n : /\ Good(program, st[k - 1])
                           /\ Records(program, Window(b)[k], st[k - 1])
                           /\ st[k] = ISA!Exec(program, st[k - 1])
    BY <1>2 DEF Chain
<1>8. Good(program, base) /\ Records(program, e, base) /\ st[1] = next
    <2>1. 1 \in 1 .. n /\ 1 - 1 = 0
        BY <1>3
    <2> HIDE DEF n, b
    <2> QED BY <1>5, <1>7, <2>1
<1>9. /\ g \in Simulators /\ g.db = pop(b) /\ g.arch_PC = next.pc
      /\ g.blocked = f.blocked /\ Ahead(g) = Ahead(f)
    <2>1. e.a_next_pc = next.pc
        BY <1>8 DEF Records
    <2>2. next.pc \in Int
        BY <1>8, ExecTyped
    <2>3. g = [f EXCEPT !.db = pop(b), !.arch_PC = e.a_next_pc]
        BY DEF AfterGetInstr, Taken
    <2> QED BY <1>1, <1>5, <2>1, <2>2, <2>3 DEF Simulators, Ahead
<1>10. CanGetInstr(f)
    <2>1. FirstHasPC(f.db, f.arch_PC)
        BY <1>1, <1>8 DEF FirstHasPC, Records, Taken
    <2> QED BY <1>4, <2>1 DEF CanGetInstr
<1>11. /\ \A k \in 1 .. n : Op(program, st[k - 1].pc) = "trap" =>
             (k = 1 /\ answered = 1) \/ (k = n /\ f.blocked)
       /\ f.blocked => Op(program, st[n - 1].pc) = "trap" /\ ~ (n = 1 /\ answered = 1)
       /\ ~f.blocked => Good(program, Ahead(f))
    BY <1>2 DEF Stops
<1>12. ASSUME f.blocked PROVE n >= 2
    <2>1. n = 1 => Op(program, base.pc) = "trap"
        <3>1. n = 1 => n - 1 = 0
            OBVIOUS
        <3> HIDE DEF n
        <3> QED BY <1>7, <1>11, <1>12, <3>1
    <2>2. n # 1
        BY <1>11, <1>12, <2>1
    <2> QED BY <1>3, <2>2
<1> DEFINE st2 == [k \in 0 .. DEBUG_SIZE |-> IF k < DEBUG_SIZE THEN st[k + 1] ELSE st[k]]
<1> HIDE DEF n, b
<1>13. /\ st2 \in [0 .. DEBUG_SIZE -> States]
       /\ \A k \in 0 .. n - 1 : st2[k] = st[k + 1]
    <2>1. ASSUME NEW k \in 0 .. DEBUG_SIZE
          PROVE  st2[k] \in States
        <3>1. k < DEBUG_SIZE => k + 1 \in 0 .. DEBUG_SIZE
            BY <1>3
        <3> QED BY <1>7, <3>1
    <2>2. ASSUME NEW k \in 0 .. n - 1
          PROVE  st2[k] = st[k + 1]
        <3>1. k \in 0 .. DEBUG_SIZE /\ k < DEBUG_SIZE
            BY <1>3
        <3> QED BY <3>1
    <2> QED BY <2>1, <2>2
<1> HIDE DEF st2
<1>14. g.db.length = n - 1 /\ n - 1 \in 0 .. n - 1 /\ (n - 1) + 1 = n /\ 0 \in 0 .. n - 1
    BY <1>3, <1>5, <1>9
<1>15. ASSUME NEW k \in 1 .. n - 1
       PROVE  /\ k + 1 \in 1 .. n /\ k - 1 \in 0 .. n - 1 /\ (k - 1) + 1 = k
              /\ k \in 0 .. n - 1 /\ (k + 1) - 1 = k /\ k + 1 # 1 /\ (k + 1 = n => k = n - 1)
    BY <1>3
<1>16. Chain(program, g, next, st2)
    <2>1. st2[0] = next /\ st2[n - 1] = Ahead(g)
        <3>1. 0 + 1 = 1
            OBVIOUS
        <3> QED BY <1>7, <1>8, <1>9, <1>13, <1>14, <3>1
    <2>2. ASSUME NEW k \in 1 .. n - 1
          PROVE  /\ Good(program, st2[k - 1])
                 /\ Records(program, Window(g.db)[k], st2[k - 1])
                 /\ st2[k] = ISA!Exec(program, st2[k - 1])
        <3>1. st2[k - 1] = st[k] /\ st2[k] = st[k + 1]
            BY <1>13, <1>15
        <3>2. Window(g.db)[k] = Window(b)[k + 1]
            BY <1>5, <1>9
        <3> QED BY <1>7, <1>15, <3>1, <3>2
    <2> QED BY <1>13, <1>14, <2>1, <2>2 DEF Chain
<1>17. Stops(program, g, st2, 0)
    <2>1. ASSUME NEW k \in 1 .. n - 1, Op(program, st2[k - 1].pc) = "trap"
          PROVE  k = n - 1 /\ g.blocked
        <3>1. st2[k - 1] = st[k]
            BY <1>13, <1>15
        <3> QED BY <1>9, <1>11, <1>15, <2>1, <3>1
    <2>2. ASSUME g.blocked
          PROVE  n - 1 > 0 /\ Op(program, st2[(n - 1) - 1].pc) = "trap"
        <3>1. n >= 2 /\ n - 1 \in 1 .. n - 1
            BY <1>3, <1>9, <1>12, <2>2 DEF n
        <3>2. st2[(n - 1) - 1] = st[n - 1]
            BY <1>13, <1>15, <3>1
        <3> QED BY <1>9, <1>11, <2>2, <3>1, <3>2
    <2> QED BY <1>9, <1>11, <1>14, <2>1, <2>2 DEF Stops
<1>18. Linked(program, g, next, 0)
    BY <1>5, <1>9, <1>16, <1>17 DEF Linked
<1> QED BY <1>6, <1>8, <1>9, <1>10, <1>12, <1>14, <1>18 DEF n

-----------------------------------------------------------------------------
(* Undoing the stores of the buffer                                        *)

\* An instruction leaves the doublewords it does not store to.
LEMMA OtherDoubleword ==
    ASSUME NEW prog \in DOMAIN Programs, NEW s, Good(prog, s), NEW e, Records(prog, e, s),
           NEW a \in Addrs,
           ~ (e.a_inst.op = "store" /\ Doubleword(e.a_addr) = Doubleword(a))
    PROVE  ISA!Exec(prog, s).mem[a] = s.mem[a]
<1> DEFINE i == ISA!InstAt(prog, s.pc)
<1>1. s.pc \in ISA!TextPCs(prog) /\ s.mem \in [Addrs -> Vals]
    BY DEF Good
<1>2. i \in Instructions /\ Executable(i)
    BY <1>1, TextOf
<1>3. ISA!Exec(prog, s).mem = ISA!WriteMem(i, s.regs, s.mem)
    BY DEF ISA!Exec
<1>4. e.a_inst = i /\ (i.op = "store" => e.a_addr = i.imm)
    BY DEF Records
<1>5. CASE i.op = "store"
    <2>1. i.imm # a
        BY <1>4, <1>5
    <2> QED BY <1>1, <1>3, <1>5, <2>1 DEF ISA!WriteMem
<1>6. CASE i.op # "store"
    BY <1>3, <1>6 DEF ISA!WriteMem
<1> QED BY <1>5, <1>6

\* The before-images take the memory of the functional simulator back to where
\* the buffer starts.
LEMMA UndoneIsBase ==
    ASSUME program \in DOMAIN Programs, NEW f, NEW base, NEW answered,
           Linked(program, f, base, answered)
    PROVE  Undone(f) = base.mem
<1> DEFINE n == f.db.length
           W == Window(f.db)
<1>1. f \in Simulators
    BY DEF Linked
<1>2. PICK st : Chain(program, f, base, st)
    BY DEF Linked
<1>3. n \in Nat /\ n \in 0 .. DEBUG_SIZE /\ DEBUG_SIZE \in Nat
    BY <1>1, LengthOf, Constants
<1>4. /\ st \in [0 .. DEBUG_SIZE -> States] /\ st[0] = base /\ st[n] = Ahead(f)
      /\ \A k \in 1 .. n : /\ Good(program, st[k - 1])
                           /\ Records(program, W[k], st[k - 1])
                           /\ st[k] = ISA!Exec(program, st[k - 1])
    BY <1>2 DEF Chain
<1>5. base.mem \in [Addrs -> Vals]
    <2>1. base \in States
        BY <1>3, <1>4
    <2> QED BY <2>1 DEF States
<1>6. ASSUME NEW a \in Addrs
      PROVE  (IF StoresTo(f.db, a) = {} THEN f.mem[a]
              ELSE W[Min(StoresTo(f.db, a))].real[a - Doubleword(a) + 1]) = base.mem[a]
    <2> DEFINE T == StoresTo(f.db, a)
               To(e) == e.a_inst.op = "store" /\ Doubleword(e.a_addr) = Doubleword(a)
    <2>1. T \subseteq 1 .. n /\ \A k \in 1 .. n : k \in T <=> To(W[k])
        BY DEF StoresTo
    <2> HIDE DEF T, To, n, W
    <2> DEFINE S == {k \in 0 .. n : (\A j \in T : j > k) => st[k].mem[a] = base.mem[a]}
    <2>2. 0 \in S
        BY <1>3, <1>4
    <2>3. ASSUME NEW k \in 0 .. n - 1, k \in S
          PROVE  k + 1 \in S
        <3>1. k + 1 \in 1 .. n /\ k + 1 \in 0 .. n /\ (k + 1) - 1 = k
            BY <1>3
        <3>2. ASSUME \A j \in T : j > k + 1
              PROVE  st[k + 1].mem[a] = base.mem[a]
            <4>1. \A j \in T : j > k
                BY <2>1, <3>2
            <4>2. st[k].mem[a] = base.mem[a]
                BY <2>3, <4>1
            <4>3. k + 1 \notin T
                <5>1. ~ (k + 1 > k + 1)
                    BY <3>1
                <5> QED BY <3>2, <5>1
            <4>4. ~ To(W[k + 1])
                BY <2>1, <3>1, <4>3
            <4>5. /\ Good(program, st[k]) /\ Records(program, W[k + 1], st[k])
                  /\ st[k + 1] = ISA!Exec(program, st[k])
                BY <1>4, <3>1
            <4>6. ISA!Exec(program, st[k]).mem[a] = st[k].mem[a]
                BY <4>4, <4>5, OtherDoubleword DEF To
            <4> QED BY <4>2, <4>5, <4>6
        <3> QED BY <3>1, <3>2
    <2>4. \A k \in 0 .. n : k \in S
        <3> HIDE DEF S
        <3> QED BY <1>3, <2>2, <2>3, Rounds
    <2>5. CASE T = {}
        <3>1. st[n].mem[a] = base.mem[a]
            BY <1>3, <2>4, <2>5
        <3>2. Ahead(f).mem = f.mem
            BY DEF Ahead
        <3> QED BY <1>4, <2>5, <3>1, <3>2 DEF T
    <2>6. CASE T # {}
        <3> DEFINE m == Min(T)
        <3>1. m \in T /\ \A y \in T : m <= y
            <4>1. T \in SUBSET Nat
                BY <2>1
            <4>2. \E x \in T : \A y \in T : x <= y
                BY <2>6, <4>1, Least
            <4> QED BY <4>2 DEF Min
        <3> HIDE DEF m
        <3>2. m \in 1 .. n /\ m - 1 \in 0 .. n /\ \A j \in T : j > m - 1
            BY <1>3, <2>1, <3>1
        <3>3. st[m - 1].mem[a] = base.mem[a]
            BY <2>4, <3>2
        <3> DEFINE s == st[m - 1]
                   i == ISA!InstAt(program, s.pc)
        <3>4. Good(program, s) /\ Records(program, W[m], s) /\ To(W[m])
            BY <1>4, <2>1, <3>1, <3>2
        <3>5. s.mem \in [Addrs -> Vals]
            BY <3>4 DEF Good
        <3>6. Doubleword(i.imm) = Doubleword(a) /\ W[m].real = ArchMemValue(s.mem, i.imm)
            BY <3>4 DEF Records, To
        <3>7. W[m].real = ArchMemValue(s.mem, a)
            BY <3>6 DEF ArchMemValue
        <3>8. ArchMemValue(s.mem, a)[a - Doubleword(a) + 1] = s.mem[a]
            <4> HIDE DEF s
            <4> QED BY <3>5, ArchMemValueTyped
        <3> QED BY <2>6, <3>3, <3>7, <3>8 DEF m, T
    <2> QED BY <2>5, <2>6 DEF T, W
<1>7. Undone(f) = [a \in Addrs |-> base.mem[a]]
    BY <1>6 DEF Undone
<1> QED BY <1>5, <1>7

-----------------------------------------------------------------------------
(* The store queue over the testbench's memory                             *)

Stores == [addr : Addrs, value : Vals]

\* The greatest of a set of numbers, when it is known.
LEMMA MaxIs ==
    ASSUME NEW S \in SUBSET Int, NEW x \in S, \A y \in S : x >= y
    PROVE  Max(S) = x
<1>1. Max(S) \in S /\ \A y \in S : Max(S) >= y
    BY DEF Max
<1>2. Max(S) >= x /\ x >= Max(S) /\ Max(S) \in Int /\ x \in Int
    BY <1>1
<1> QED BY <1>2

\* A set of numbers below a bound has a greatest one.
LEMMA Greatest ==
    ASSUME NEW n \in Nat, NEW S \in SUBSET (0 .. n), S # {}
    PROVE  Max(S) \in S /\ \A y \in S : Max(S) >= y
<1> DEFINE T == {n - x : x \in S}
<1>1. T \in SUBSET Nat /\ T # {}
    <2>1. \A x \in S : n - x \in Nat
        OBVIOUS
    <2>2. \E x \in S : n - x \in T
        OBVIOUS
    <2> QED BY <2>1, <2>2
<1>2. PICK t \in T : \A y \in T : t <= y
    <2> HIDE DEF T
    <2> QED BY <1>1, Least
<1>3. PICK x \in S : t = n - x
    BY <1>2
<1>4. ASSUME NEW y \in S PROVE x >= y
    <2>1. n - y \in T
        OBVIOUS
    <2>2. n - x <= n - y
        BY <1>2, <1>3, <2>1
    <2>3. x \in Int /\ y \in Int
        OBVIOUS
    <2> QED BY <2>2, <2>3
<1> QED BY <1>4 DEF Max

\* The stores of a queue to an address are positions of the queue.
LEMMA PendingRange ==
    ASSUME NEW q \in Seq(Stores), NEW a
    PROVE  /\ Len(q) \in Nat /\ PendingTo(q, a) \in SUBSET (0 .. Len(q))
           /\ PendingTo(q, a) = {k \in 1 .. Len(q) : q[k].addr = a}
           /\ \A k \in 1 .. Len(q) : q[k] \in Stores
<1>1. DOMAIN q = 1 .. Len(q) /\ Len(q) \in Nat /\ \A k \in 1 .. Len(q) : q[k] \in Stores
    OBVIOUS
<1>2. PendingTo(q, a) = {k \in 1 .. Len(q) : q[k].addr = a}
    BY <1>1 DEF PendingTo
<1>3. 1 .. Len(q) \subseteq 0 .. Len(q)
    BY <1>1
<1> QED BY <1>1, <1>2, <1>3

\* A memory under a queue of stores is a memory.
LEMMA OverlaidTyped ==
    ASSUME NEW q \in Seq(Stores), NEW m \in [Addrs -> Vals]
    PROVE  Overlaid(q, m) \in [Addrs -> Vals]
<1>1. ASSUME NEW a \in Addrs, PendingTo(q, a) # {}
      PROVE  q[Max(PendingTo(q, a))].value \in Vals
    <2>1. Max(PendingTo(q, a)) \in PendingTo(q, a)
        BY <1>1, PendingRange, Greatest
    <2>2. q[Max(PendingTo(q, a))] \in Stores
        BY <2>1, PendingRange
    <2> QED BY <2>2 DEF Stores
<1> QED BY <1>1 DEF Overlaid

\* An empty queue hides nothing.
LEMMA OverlaidEmpty ==
    ASSUME NEW m \in [Addrs -> Vals]
    PROVE  Overlaid(<< >>, m) = m
<1>1. \A a \in Addrs : PendingTo(<< >>, a) = {}
    BY DEF PendingTo
<1>2. Overlaid(<< >>, m) = [a \in Addrs |-> m[a]]
    BY <1>1 DEF Overlaid
<1> QED BY <1>2

\* A store that commits is performed in the memory the core sees.
LEMMA OverlaidAppend ==
    ASSUME NEW q \in Seq(Stores), NEW s \in Stores, NEW m \in [Addrs -> Vals]
    PROVE  Overlaid(Append(q, s), m) = StoreIn(s, Overlaid(q, m))
<1> DEFINE p == Append(q, s)
           n == Len(q)
<1>1. /\ p \in Seq(Stores) /\ Len(p) = n + 1 /\ n \in Nat /\ p[n + 1] = s
      /\ \A k \in 1 .. n : p[k] = q[k]
    OBVIOUS
<1>2. s.addr \in Addrs /\ s.value \in Vals
    BY DEF Stores
<1>3. Overlaid(q, m) \in [Addrs -> Vals]
    BY OverlaidTyped
<1> HIDE DEF p, n
<1>4. ASSUME NEW a \in Addrs
      PROVE  (IF PendingTo(p, a) = {} THEN m[a] ELSE p[Max(PendingTo(p, a))].value)
               = StoreIn(s, Overlaid(q, m))[a]
    <2>1. /\ PendingTo(p, a) = {k \in 1 .. n + 1 : p[k].addr = a}
          /\ PendingTo(q, a) = {k \in 1 .. n : q[k].addr = a}
        BY <1>1, PendingRange DEF n
    <2>2. CASE a = s.addr
        <3>1. n + 1 \in PendingTo(p, a) /\ PendingTo(p, a) \in SUBSET Int
              /\ \A y \in PendingTo(p, a) : n + 1 >= y
            BY <1>1, <2>1, <2>2
        <3>2. Max(PendingTo(p, a)) = n + 1
            BY <3>1, MaxIs
        <3>3. StoreIn(s, Overlaid(q, m))[a] = s.value
            BY <1>3, <2>2 DEF StoreIn
        <3> QED BY <1>1, <3>1, <3>2, <3>3
    <2>3. CASE a # s.addr
        <3>1. PendingTo(p, a) = PendingTo(q, a)
            BY <1>1, <2>1, <2>3
        <3>2. StoreIn(s, Overlaid(q, m))[a] = Overlaid(q, m)[a]
            BY <1>3, <2>3 DEF StoreIn
        <3>3. CASE PendingTo(q, a) = {}
            BY <3>1, <3>2, <3>3 DEF Overlaid
        <3>4. CASE PendingTo(q, a) # {}
            <4>1. Max(PendingTo(q, a)) \in PendingTo(q, a)
                BY <3>4, PendingRange, Greatest
            <4>2. p[Max(PendingTo(q, a))] = q[Max(PendingTo(q, a))]
                BY <1>1, <2>1, <4>1
            <4> QED BY <3>1, <3>2, <3>4, <4>2 DEF Overlaid
        <3> QED BY <3>3, <3>4
    <2> QED BY <2>2, <2>3
<1>5. Overlaid(p, m) = [a \in Addrs |-> StoreIn(s, Overlaid(q, m))[a]]
    BY <1>4 DEF Overlaid
<1>6. StoreIn(s, Overlaid(q, m)) \in [Addrs -> Vals]
    BY <1>2, <1>3 DEF StoreIn
<1> QED BY <1>5, <1>6 DEF p

\* A store that leaves the queue for the testbench's memory is still seen.
LEMMA OverlaidTail ==
    ASSUME NEW q \in Seq(Stores), q # << >>, NEW m \in [Addrs -> Vals]
    PROVE  /\ Overlaid(Tail(q), StoreIn(Head(q), m)) = Overlaid(q, m)
           /\ StoreIn(Head(q), m) \in [Addrs -> Vals]
<1> DEFINE p == Tail(q)
           s == Head(q)
           n == Len(q)
           m2 == StoreIn(s, m)
<1>1. /\ p \in Seq(Stores) /\ Len(p) = n - 1 /\ n \in Nat /\ n >= 1 /\ s = q[1] /\ s \in Stores
      /\ \A k \in 1 .. n - 1 : p[k] = q[k + 1]
    OBVIOUS
<1>2. s.addr \in Addrs /\ s.value \in Vals
    BY <1>1 DEF Stores
<1> HIDE DEF p, n, s
<1>3. /\ m2 \in [Addrs -> Vals] /\ m2[s.addr] = s.value
      /\ \A a \in Addrs : a # s.addr => m2[a] = m[a]
    BY <1>2 DEF StoreIn
<1> HIDE DEF m2
<1>4. ASSUME NEW a \in Addrs
      PROVE  (IF PendingTo(p, a) = {} THEN m2[a] ELSE p[Max(PendingTo(p, a))].value)
               = (IF PendingTo(q, a) = {} THEN m[a] ELSE q[Max(PendingTo(q, a))].value)
    <2> DEFINE P == PendingTo(p, a)
               Q == PendingTo(q, a)
    <2>1. P = {k \in 1 .. n - 1 : p[k].addr = a} /\ Q = {k \in 1 .. n : q[k].addr = a}
        BY <1>1, PendingRange DEF n
    <2>2. CASE P # {}
        <3> DEFINE x == Max(P)
        <3>1. x \in P /\ \A y \in P : x >= y
            BY <1>1, <2>2, PendingRange, Greatest
        <3> HIDE DEF x, P, Q
        <3>2. x \in 1 .. n - 1 /\ p[x].addr = a /\ p[x] = q[x + 1]
            BY <1>1, <2>1, <3>1
        <3>3. x + 1 \in Q /\ Q \in SUBSET Int
            BY <1>1, <2>1, <3>2
        <3>4. ASSUME NEW y \in Q PROVE x + 1 >= y
            <4>1. CASE y = 1
                BY <3>2, <4>1
            <4>2. CASE y # 1
                <5>1. y - 1 \in 1 .. n - 1 /\ (y - 1) + 1 = y /\ q[y].addr = a
                    BY <1>1, <2>1, <4>2
                <5>2. y - 1 \in P
                    BY <1>1, <2>1, <5>1
                <5>3. x >= y - 1 /\ y \in Int /\ x \in Int
                    BY <1>1, <2>1, <3>1, <3>2, <5>2
                <5> QED BY <5>3
            <4> QED BY <4>1, <4>2
        <3>5. Max(Q) = x + 1
            BY <3>3, <3>4, MaxIs
        <3> QED BY <2>2, <3>2, <3>3, <3>5 DEF P, Q, x
    <2>3. CASE P = {}
        <3> HIDE DEF P, Q
        <3>1. ASSUME NEW y \in Q PROVE y = 1
            <4>1. y \in 1 .. n /\ q[y].addr = a
                BY <2>1
            <4>2. ASSUME y # 1 PROVE FALSE
                <5>1. y - 1 \in 1 .. n - 1 /\ (y - 1) + 1 = y
                    BY <1>1, <4>1, <4>2
                <5> QED BY <1>1, <2>1, <2>3, <4>1, <5>1
            <4> QED BY <4>2
        <3>2. CASE s.addr = a
            <4>1. 1 \in Q
                BY <1>1, <2>1, <3>2
            <4>2. Q = {1}
                BY <3>1, <4>1
            <4>3. Max(Q) = 1
                <5>1. Q \in SUBSET Int /\ \A y \in Q : 1 >= y
                    BY <4>2
                <5> QED BY <4>1, <5>1, MaxIs
            <4> QED BY <1>1, <1>3, <2>3, <3>2, <4>1, <4>3 DEF P, Q
        <3>3. CASE s.addr # a
            <4>1. Q = {}
                BY <1>1, <2>1, <3>1, <3>3
            <4> QED BY <1>3, <2>3, <3>3, <4>1 DEF P, Q
        <3> QED BY <3>2, <3>3
    <2> QED BY <2>2, <2>3
<1>5. Overlaid(p, m2) = Overlaid(q, m)
    BY <1>4 DEF Overlaid
<1> QED BY <1>3, <1>5 DEF p, m2, s

-----------------------------------------------------------------------------
(* The checker                                                             *)

Checkers == [fs : Simulators, last : Int, mismatches : 0 .. StopAfterMismatch + 1,
             status : {"running", "finish", "exit", "assert"},
             aregs : [Regs -> Vals], amem : [Addrs -> Vals]]

\* The checker has taken the instructions before state s of the program.
At(prog, c, s, answered) ==
    /\ c \in Checkers
    /\ Linked(prog, c.fs, s, answered) /\ c.fs.db.length > 0
    /\ c.aregs = s.regs /\ c.amem = s.mem

Right(c) == c.status = "running" /\ c.mismatches = 0

\* d is checker c after it took the entry that ahead has for state s.
Advances(prog, s, c, n, ahead, d) ==
    /\ CanGetInstr(ahead)
    /\ Good(prog, s)
    /\ Taken(ahead) \in Entries /\ Records(prog, Taken(ahead), s)
    /\ At(prog, d, ISA!Exec(prog, s), 0)
    /\ d.mismatches = n /\ d.status = c.status /\ d.last = c.last

\* Taking an entry advances the checker by an instruction; run_ahead leaves one.
LEMMA TakeOne ==
    ASSUME program \in DOMAIN Programs, NEW s, NEW answered \in {0, 1},
           NEW c, At(program, c, s, answered),
           Op(program, s.pc) = "trap" => answered = 1,
           NEW n \in 0 .. StopAfterMismatch + 1,
           NEW ahead, ahead = run_ahead(c.fs),
           NEW d, d = Take(c, ahead, n)
    PROVE  Advances(program, s, c, n, ahead, d)
<1> DEFINE e == Taken(ahead)
           g == AfterGetInstr(ahead)
           next == ISA!Exec(program, s)
           r == ISA!WriteRegs(c.aregs, e.a_rdst)
           m == Replayed(e, c.amem)
<1>1. /\ c \in Checkers /\ Linked(program, c.fs, s, answered) /\ c.fs.db.length > 0
      /\ c.aregs = s.regs /\ c.amem = s.mem
    BY DEF At
<1>2. /\ Linked(program, ahead, s, answered)
      /\ ahead.db.length >= c.fs.db.length
      /\ ahead.blocked \/ ahead.db.length = DEBUG_SIZE
    <2> DEFINE f == c.fs
    <2>1. Linked(program, f, s, answered) /\ ahead = run_ahead(f)
        BY <1>1
    <2> HIDE DEF f
    <2>2. Linked(program, ahead, s, answered)
        BY <2>1, RunAheadKeeps
    <2>3. ahead.db.length >= f.db.length
        BY <2>1, RunAheadKeeps
    <2>4. ahead.blocked \/ ahead.db.length = DEBUG_SIZE
        BY <2>1, RunAheadKeeps
    <2> QED BY <2>2, <2>3, <2>4 DEF f
<1>3. ahead.db.length \in Nat /\ c.fs.db.length \in Nat /\ ahead.db.length > 0
    <2>1. ahead \in Simulators /\ c.fs \in Simulators
        BY <1>1, <1>2 DEF Linked
    <2>2. ahead.db.length \in Nat /\ c.fs.db.length \in Nat
        BY <2>1, LengthOf
    <2> QED BY <1>1, <1>2, <2>2
<1>4. /\ CanGetInstr(ahead) /\ Good(program, s)
      /\ e \in Entries /\ Records(program, e, s)
      /\ Linked(program, g, next, 0)
      /\ g.db.length = ahead.db.length - 1
      /\ ahead.blocked => ahead.db.length >= 2
    <2>1. e = Taken(ahead) /\ g = AfterGetInstr(ahead) /\ next = ISA!Exec(program, s)
        OBVIOUS
    <2> HIDE DEF e, g, next
    <2> QED BY <1>2, <1>3, <2>1, TakeKeeps
<1>5. g.db.length > 0
    <2>1. ahead.db.length >= 2
        BY <1>2, <1>4, Constants
    <2> HIDE DEF g
    <2> QED BY <1>3, <1>4, <2>1
<1>6. r = next.regs /\ m = next.mem
    BY <1>1, <1>4, ReplayedEntry
<1>7. next.regs \in [Regs -> Vals] /\ next.mem \in [Addrs -> Vals]
    BY <1>4, ExecTyped
<1>8. d = [c EXCEPT !.fs = g, !.mismatches = n, !.aregs = r, !.amem = m]
    BY DEF Take
<1>9. g \in Simulators
    BY <1>4 DEF Linked
<1> HIDE DEF g, r, m, next
<1>10. /\ d \in Checkers /\ d.fs = g /\ d.mismatches = n /\ d.aregs = r /\ d.amem = m
       /\ d.status = c.status /\ d.last = c.last
    BY <1>1, <1>6, <1>7, <1>8, <1>9 DEF Checkers
<1>11. At(program, d, next, 0)
    BY <1>4, <1>5, <1>6, <1>10 DEF At
<1> QED BY <1>4, <1>10, <1>11 DEF next, Advances

\* The checker after the lane of an instruction: n messages.
Told(prog, d, s, p, n) ==
    /\ At(prog, d, ISA!Exec(prog, s), 0)
    /\ d.mismatches = n /\ d.last = p
    /\ n = 0 => Right(d)
    /\ ~netSim /\ d.status = "running" => n <= StopAfterMismatch

\* What $getRetireInstPC says of a lane that is wrong, or not.
LEMMA Retired ==
    ASSUME program \in DOMAIN Programs, NEW s, NEW answered \in {0, 1},
           NEW c, At(program, c, s, answered), Right(c),
           Op(program, s.pc) = "trap" => answered = 1,
           NEW lane, NEW n \in {0, 1},
           \A e \in Entries : Records(program, e, s) => n = (IF Differs(lane, e) THEN 1 ELSE 0),
           NEW d, d = getRetireInstPC(c, lane)
    PROVE  Told(program, d, s, c.last, n)
<1> DEFINE ahead == run_ahead(c.fs)
           k == c.mismatches + (IF Differs(lane, Taken(ahead)) THEN 1 ELSE 0)
           t == Take(c, ahead, k)
           next == ISA!Exec(program, s)
           status1 == IF k > StopAfterMismatch THEN "exit" ELSE c.status
<1>1. c.status = "running" /\ c.mismatches = 0
    BY DEF Right
<1>2. k \in {0, 1} /\ k \in 0 .. StopAfterMismatch + 1
    <2>1. k = IF Differs(lane, Taken(ahead)) THEN 1 ELSE 0
        BY <1>1
    <2> HIDE DEF k
    <2> QED BY <2>1, Constants
<1>3. d = IF ~CanGetInstr(ahead) THEN [c EXCEPT !.fs = ahead, !.status = "assert"]
          ELSE [t EXCEPT !.status = status1]
    BY DEF getRetireInstPC
<1>4. /\ CanGetInstr(ahead) /\ Taken(ahead) \in Entries /\ Records(program, Taken(ahead), s)
      /\ At(program, t, next, 0)
      /\ t.mismatches = k /\ t.status = c.status /\ t.last = c.last
    <2>1. ahead = run_ahead(c.fs) /\ t = Take(c, ahead, k)
        OBVIOUS
    <2> HIDE DEF ahead, k, t
    <2>2. Advances(program, s, c, k, ahead, t)
        BY <1>2, <2>1, TakeOne
    <2> QED BY <2>2 DEF next, Advances
<1>5. k = n
    BY <1>1, <1>4
<1>6. k = 0 => status1 = "running"
    BY <1>1, <1>5, Constants
<1>7. status1 \in {"running", "exit"}
    BY <1>1
<1>8. d = [t EXCEPT !.status = status1] /\ t \in Checkers
    BY <1>3, <1>4 DEF At
<1> HIDE DEF t, status1, k, next, ahead
<1>9. /\ d \in Checkers /\ d.fs = t.fs /\ d.last = t.last /\ d.mismatches = t.mismatches
      /\ d.status = status1 /\ d.aregs = t.aregs /\ d.amem = t.amem
    BY <1>7, <1>8 DEF Checkers
<1>10. At(program, d, next, 0)
    BY <1>4, <1>9 DEF At
<1>11. d.status = "running" => n <= StopAfterMismatch
    BY <1>2, <1>5, <1>9, Constants DEF status1
<1> QED BY <1>4, <1>5, <1>6, <1>9, <1>10, <1>11 DEF next, Right, Told

\* The same of a netlist; a first half is not looked at.
LEMMA RetiredNetSim ==
    ASSUME program \in DOMAIN Programs, netSim, NEW s,
           NEW c, At(program, c, s, 0), Right(c), Op(program, s.pc) # "trap",
           NEW lane, NEW n \in {0, 1}, ~lane.fission,
           \A e \in Entries : Records(program, e, s) => n = (IF NetSimDiffers(lane, e) THEN 1 ELSE 0),
           NEW d, d = getRetireInstPCNetSim(c, lane)
    PROVE  Told(program, d, s, c.last, n)
<1> DEFINE ahead == run_ahead(c.fs)
           k == c.mismatches + (IF NetSimDiffers(lane, Taken(ahead)) THEN 1 ELSE 0)
           t == Take(c, ahead, k)
<1>1. c.status = "running" /\ c.mismatches = 0
    BY DEF Right
<1>2. k \in {0, 1} /\ k \in 0 .. StopAfterMismatch + 1
    <2>1. k = IF NetSimDiffers(lane, Taken(ahead)) THEN 1 ELSE 0
        BY <1>1
    <2> HIDE DEF k
    <2> QED BY <2>1, Constants
<1>3. d = IF ~CanGetInstr(ahead) THEN [c EXCEPT !.fs = ahead, !.status = "assert"] ELSE t
    BY DEF getRetireInstPCNetSim
<1>4. /\ CanGetInstr(ahead) /\ Taken(ahead) \in Entries /\ Records(program, Taken(ahead), s)
      /\ At(program, t, ISA!Exec(program, s), 0)
      /\ t.mismatches = k /\ t.status = c.status /\ t.last = c.last
    <2>1. ahead = run_ahead(c.fs) /\ t = Take(c, ahead, k)
        OBVIOUS
    <2> HIDE DEF ahead, k, t
    <2>2. Advances(program, s, c, k, ahead, t)
        BY <1>2, <2>1, TakeOne
    <2> QED BY <2>2 DEF Advances
<1>5. k = n
    BY <1>1, <1>4
<1> HIDE DEF t, k, ahead
<1> QED BY <1>1, <1>3, <1>4, <1>5 DEF Told, Right

-----------------------------------------------------------------------------
(* The last pc the checker saw                                             *)

\* An instruction does not lead to itself, so its successor is not taken for its
\* second half.
LEMMA NotAgain ==
    ASSUME NEW prog \in DOMAIN Programs, NEW s, Good(prog, s)
    PROVE  s.pc # ISA!Exec(prog, s).pc
<1> DEFINE i == ISA!InstAt(prog, s.pc)
           q == s.pc
           t == ISA!Exec(prog, s).pc
<1>1. t = ISA!NextPC(i, s.regs, q)
    BY DEF ISA!Exec
<1>2. q \in ISA!TextPCs(prog) /\ q \in Int
    <2>1. q \in ISA!TextPCs(prog)
        BY DEF Good
    <2> HIDE DEF q
    <2> QED BY <2>1, TextOf, Constants
<1>3. t = q + 1 \/ (Op(prog, q) = "bnez" /\ t = i.target)
    BY <1>1 DEF ISA!NextPC, Op
<1>4. Op(prog, q) = "bnez" => i.target # q
    BY <1>2, EndOf
<1> HIDE DEF t, i, q
<1>5. t # q
    BY <1>2, <1>3, <1>4
<1> QED BY <1>5 DEF t, q

-----------------------------------------------------------------------------
(* The lanes of a cycle                                                    *)

\* Lane i of a cycle is verified.
VerifyOne(c, lanes, i) ==
    IF netSim THEN VerifyNetSimLane(c, NetSimLane(lanes, i)) ELSE VerifyLane(c, lanes[i])

\* Verified goes through the lanes in order.
LEMMA VerifiedRounds ==
    ASSUME NEW lanes, NEW N \in Nat, Len(lanes) = N
    PROVE  \E after : /\ after = [i \in 0 .. N |-> IF i = 0 THEN Checker
                                                   ELSE VerifyOne(after[i - 1], lanes, i)]
                      /\ Verified(lanes) = after[N]
<1> DEFINE Upto(n, r) == r = [i \in 0 .. n |-> IF i = 0 THEN Checker
                                               ELSE VerifyOne(r[i - 1], lanes, i)]
<1>1. \E r : Upto(N, r)
    <2> DEFINE S == {n \in 0 .. N : \E r : Upto(n, r)}
    <2>1. 0 \in S
        <3>1. Upto(0, [i \in 0 .. 0 |-> Checker])
            OBVIOUS
        <3>2. 0 \in 0 .. N
            OBVIOUS
        <3> HIDE DEF Upto
        <3> QED BY <3>1, <3>2
    <2>2. ASSUME NEW n \in 0 .. N - 1, n \in S
          PROVE  n + 1 \in S
        <3>1. PICK r : Upto(n, r)
            BY <2>2, Zenon
        <3> DEFINE q == [i \in 0 .. n + 1 |-> IF i <= n THEN r[i] ELSE VerifyOne(r[n], lanes, n + 1)]
        <3>2. ASSUME NEW i \in 0 .. n + 1
              PROVE  q[i] = IF i = 0 THEN Checker ELSE VerifyOne(q[i - 1], lanes, i)
            <4>1. CASE i <= n
                <5>1. r[i] = (IF i = 0 THEN Checker ELSE VerifyOne(r[i - 1], lanes, i))
                    BY <3>1, <4>1
                <5>2. i # 0 => i - 1 \in 0 .. n + 1 /\ i - 1 <= n
                    BY <4>1
                <5> QED BY <4>1, <5>1, <5>2
            <4>2. CASE i = n + 1
                <5>1. /\ n + 1 \in 0 .. n + 1 /\ ~ (n + 1 <= n) /\ n \in 0 .. n + 1
                      /\ n + 1 # 0 /\ (n + 1) - 1 = n
                    OBVIOUS
                <5> QED BY <4>2, <5>1
            <4> QED BY <4>1, <4>2
        <3>3. Upto(n + 1, q)
            <4>1. q = [i \in 0 .. n + 1 |-> q[i]]
                OBVIOUS
            <4> HIDE DEF q
            <4> QED BY <3>2, <4>1
        <3>4. n + 1 \in 0 .. N
            OBVIOUS
        <3> HIDE DEF Upto, q
        <3> QED BY <3>3, <3>4
    <2>3. \A n \in 0 .. N : n \in S
        <3> HIDE DEF S
        <3> QED BY <2>1, <2>2, Rounds
    <2>4. N \in 0 .. N
        OBVIOUS
    <2> HIDE DEF Upto
    <2> QED BY <2>3, <2>4
<1>2. Verified(lanes) = (CHOOSE r : Upto(N, r))[N]
    BY DEF Verified, VerifyOne
<1>3. Upto(N, CHOOSE r : Upto(N, r))
    <2> HIDE DEF Upto
    <2> QED BY <1>1, Zenon
<1> QED BY <1>2, <1>3

\* No lane, no change.
LEMMA VerifiedNone == Verified(<< >>) = Checker
<1>1. Len(<< >>) = 0 /\ 0 \in Nat /\ 0 \in 0 .. 0
    OBVIOUS
<1>2. PICK after : /\ after = [i \in 0 .. 0 |-> IF i = 0 THEN Checker
                                               ELSE VerifyOne(after[i - 1], << >>, i)]
                   /\ Verified(<< >>) = after[0]
    BY <1>1, VerifiedRounds
<1> QED BY <1>1, <1>2

\* One more lane is one more step of the checker.
LEMMA VerifiedAppend ==
    ASSUME NEW T, NEW lanes \in Seq(T), NEW x \in T
    PROVE  Verified(Append(lanes, x))
             = VerifyOne(Verified(lanes), Append(lanes, x), Len(lanes) + 1)
<1> DEFINE more == Append(lanes, x)
           N == Len(lanes)
<1>1. N \in Nat /\ N + 1 \in Nat /\ Len(more) = N + 1 /\ \A i \in 1 .. N : more[i] = lanes[i]
    OBVIOUS
<1>2. \A c : \A i \in 1 .. N : VerifyOne(c, more, i) = VerifyOne(c, lanes, i)
    <2> SUFFICES ASSUME NEW c, NEW i \in 1 .. N
                 PROVE  VerifyOne(c, more, i) = VerifyOne(c, lanes, i)
        OBVIOUS
    <2>1. more[i] = lanes[i] /\ (i > 1 => more[i - 1] = lanes[i - 1])
          /\ (i = 1 => more[1] = lanes[1])
        <3>1. i > 1 => i - 1 \in 1 .. N
            BY <1>1
        <3> HIDE DEF more, N
        <3> QED BY <1>1, <3>1
    <2> HIDE DEF more, N
    <2>2. NetSimLane(more, i) = NetSimLane(lanes, i)
        BY <2>1 DEF NetSimLane
    <2> QED BY <2>1, <2>2 DEF VerifyOne
<1>3. PICK a : /\ a = [i \in 0 .. N |-> IF i = 0 THEN Checker ELSE VerifyOne(a[i - 1], lanes, i)]
               /\ Verified(lanes) = a[N]
    BY <1>1, VerifiedRounds
<1>4. PICK b : /\ b = [i \in 0 .. N + 1 |-> IF i = 0 THEN Checker ELSE VerifyOne(b[i - 1], more, i)]
               /\ Verified(more) = b[N + 1]
    <2> HIDE DEF more, N
    <2> QED BY <1>1, VerifiedRounds
<1> HIDE DEF more, N
<1> DEFINE S == {i \in 0 .. N : b[i] = a[i]}
<1>5. 0 \in S
    BY <1>1, <1>3, <1>4
<1>6. ASSUME NEW i \in 0 .. N - 1, i \in S
      PROVE  i + 1 \in S
    <2>1. /\ i + 1 \in 0 .. N /\ i + 1 \in 0 .. N + 1 /\ i + 1 # 0 /\ (i + 1) - 1 = i
          /\ i + 1 \in 1 .. N
        BY <1>1
    <2>2. a[i + 1] = VerifyOne(a[i], lanes, i + 1)
        BY <1>3, <2>1
    <2>3. b[i + 1] = VerifyOne(b[i], more, i + 1)
        BY <1>4, <2>1
    <2>4. b[i] = a[i]
        BY <1>6
    <2> QED BY <1>2, <2>1, <2>2, <2>3, <2>4
<1>7. \A i \in 0 .. N : i \in S
    <2> HIDE DEF S
    <2> QED BY <1>1, <1>5, <1>6, Rounds
<1>8. b[N] = a[N]
    BY <1>1, <1>7
<1>9. b[N + 1] = VerifyOne(b[N], more, N + 1)
    <2>1. N + 1 \in 0 .. N + 1 /\ N + 1 # 0 /\ (N + 1) - 1 = N
        BY <1>1
    <2> QED BY <1>4, <2>1
<1> QED BY <1>3, <1>4, <1>8, <1>9 DEF more, N

-----------------------------------------------------------------------------
(* An instruction, right or wrong                                          *)

\* The checker agrees with a core that has committed the program up to s.
Following(prog, c, s) == At(prog, c, s, 0) /\ Right(c) /\ c.last # s.pc

\* Noting a pc changes nothing else of the checker.
LEMMA SetLast ==
    ASSUME NEW prog, NEW s, NEW c, At(prog, c, s, 0), Right(c), NEW p \in Int,
           NEW d, d = [c EXCEPT !.last = p]
    PROVE  /\ At(prog, d, s, 0) /\ Right(d)
           /\ d.last = p /\ d \in Checkers
<1>1. c \in Checkers
    BY DEF At
<1>2. /\ d.fs = c.fs /\ d.aregs = c.aregs /\ d.amem = c.amem /\ d.status = c.status
      /\ d.mismatches = c.mismatches /\ d.last = p /\ d \in Checkers
    BY <1>1 DEF Checkers
<1> QED BY <1>2 DEF At, Right

\* The lane of an unsplit instruction is compared with its entry.
LEMMA LaneVerified ==
    ASSUME program \in DOMAIN Programs, NEW s,
           NEW c, At(program, c, s, 0), Right(c), Op(program, s.pc) # "trap",
           NEW lane, lane.pc \in Int, c.last # lane.pc, NEW n \in {0, 1},
           \A e \in Entries : Records(program, e, s) => n = (IF Differs(lane, e) THEN 1 ELSE 0),
           NEW d, d = VerifyLane(c, lane)
    PROVE  Told(program, d, s, lane.pc, n)
<1> DEFINE p == lane.pc
           c1 == [c EXCEPT !.last = p]
<1>1. d = getRetireInstPC(c1, lane)
    BY DEF VerifyLane, Right
<1>2. c1 = [c EXCEPT !.last = p] /\ p \in Int
    OBVIOUS
<1> HIDE DEF p, c1
<1>3. At(program, c1, s, 0) /\ Right(c1) /\ c1.last = p
    BY <1>2, SetLast
<1>4. Told(program, d, s, c1.last, n)
    BY <1>1, <1>3, Retired
<1> QED BY <1>3, <1>4 DEF p

\* The same in a netlist.
LEMMA NetSimLaneVerified ==
    ASSUME program \in DOMAIN Programs, netSim, NEW s,
           NEW c, At(program, c, s, 0), Right(c), Op(program, s.pc) # "trap",
           NEW lane, lane.pc \in Int, c.last # lane.pc \/ lane.later, ~lane.fission,
           NEW n \in {0, 1},
           \A e \in Entries : Records(program, e, s) => n = (IF NetSimDiffers(lane, e) THEN 1 ELSE 0),
           NEW d, d = VerifyNetSimLane(c, lane)
    PROVE  Told(program, d, s, lane.pc, n)
<1> DEFINE p == lane.pc
           c1 == [c EXCEPT !.last = p]
<1>1. d = getRetireInstPCNetSim(c1, lane)
    BY DEF VerifyNetSimLane, Right
<1>2. c1 = [c EXCEPT !.last = p] /\ p \in Int
    OBVIOUS
<1> HIDE DEF p, c1
<1>3. At(program, c1, s, 0) /\ Right(c1) /\ c1.last = p
    BY <1>2, SetLast
<1>4. Told(program, d, s, c1.last, n)
    BY <1>1, <1>3, RetiredNetSim
<1> QED BY <1>3, <1>4 DEF p

\* A window that is not empty starts at an instruction of the program.
LEMMA LinkedGood ==
    ASSUME NEW prog, NEW f, NEW base, NEW answered, Linked(prog, f, base, answered),
           f.db.length > 0
    PROVE  Good(prog, base)
<1>1. PICK st : Chain(prog, f, base, st)
    BY DEF Linked
<1>2. f \in Simulators
    BY DEF Linked
<1>3. f.db.length \in Nat
    BY <1>2, LengthOf
<1>4. 1 \in 1 .. f.db.length /\ 1 - 1 = 0
    BY <1>3
<1>5. Good(prog, st[1 - 1])
    BY <1>1, <1>4 DEF Chain
<1> QED BY <1>1, <1>4, <1>5 DEF Chain

\* A lane that was right leaves the checker in step.
LEMMA FollowingTold ==
    ASSUME program \in DOMAIN Programs, NEW s, Good(program, s),
           NEW d, NEW p, Told(program, d, s, p, 0), p = s.pc \/ p = UnknownPC
    PROVE  Following(program, d, ISA!Exec(program, s))
<1> DEFINE next == ISA!Exec(program, s)
<1>1. At(program, d, next, 0) /\ Right(d) /\ d.last = p
    BY DEF Told
<1>2. p # next.pc
    <2>1. CASE p = s.pc
        BY <2>1, NotAgain
    <2>2. CASE p = UnknownPC
        <3> HIDE DEF next
        <3>1. next.pc \in ISA!TextPCs(program)
            BY <1>1, LinkedGood DEF At, Good
        <3>2. UnknownPC \notin ISA!TextPCs(program)
            BY TextOf, Constants DEF UnknownPC
        <3> QED BY <2>2, <3>1, <3>2
    <2> QED BY <2>1, <2>2
<1> QED BY <1>1, <1>2 DEF Following

Lanes == [pc : Int, dest : Int, value : Int, fission : BOOLEAN]

\* The results of an instruction in lanes.
LEMMA LanesTyped ==
    ASSUME NEW p \in Int, NEW rdst \in Seq(Operands), Len(rdst) \in {0, 1, 2}
    PROVE  /\ LanesOf(p, rdst) \in Seq(Lanes)
           /\ \/ /\ Len(rdst) \in {0, 1}
                 /\ \E x \in Lanes : /\ LanesOf(p, rdst) = <<x>> /\ x.pc = p /\ ~x.fission
                                     /\ Len(rdst) = 1 => x.dest = rdst[1].n /\ x.value = rdst[1].value
                                     /\ Len(rdst) = 0 => x.dest = 0
              \/ /\ Len(rdst) = 2
                 /\ \E x, y \in Lanes : /\ LanesOf(p, rdst) = <<x, y>>
                                        /\ x.pc = p /\ x.fission /\ y.pc = p /\ ~y.fission
<1>1. ASSUME NEW k \in 1 .. Len(rdst)
      PROVE  rdst[k].n \in Int /\ rdst[k].value \in Int
    <2>1. rdst[k] \in Operands
        OBVIOUS
    <2> QED BY <2>1, Constants DEF Operands
<1> DEFINE x0 == Lane(p, 0, 0, FALSE)
           x1 == Lane(p, rdst[1].n, rdst[1].value, FALSE)
           x2 == Lane(p, rdst[1].n, rdst[1].value, TRUE)
           y2 == Lane(p, rdst[2].n, rdst[2].value, FALSE)
<1>2. LanesOf(p, rdst) = CASE Len(rdst) = 0 -> <<x0>>
                           [] Len(rdst) = 1 -> <<x1>>
                           [] OTHER -> <<x2, y2>>
    BY Zenon DEF LanesOf
<1>3. x0 \in Lanes /\ x0.pc = p /\ ~x0.fission /\ x0.dest = 0
    BY DEF Lane, Lanes
<1>4. Len(rdst) = 1 => /\ x1 \in Lanes /\ x1.pc = p /\ ~x1.fission
                       /\ x1.dest = rdst[1].n /\ x1.value = rdst[1].value
    BY <1>1 DEF Lane, Lanes
<1>5. Len(rdst) = 2 => /\ x2 \in Lanes /\ x2.pc = p /\ x2.fission
                       /\ y2 \in Lanes /\ y2.pc = p /\ ~y2.fission
    BY <1>1 DEF Lane, Lanes
<1> HIDE DEF x0, x1, x2, y2
<1>6. CASE Len(rdst) = 0
    <2>1. LanesOf(p, rdst) = <<x0>>
        BY <1>2, <1>6
    <2> QED BY <1>3, <1>6, <2>1
<1>7. CASE Len(rdst) = 1
    <2>1. LanesOf(p, rdst) = <<x1>>
        BY <1>2, <1>7
    <2> QED BY <1>4, <1>7, <2>1
<1>8. CASE Len(rdst) = 2
    <2>1. LanesOf(p, rdst) = <<x2, y2>>
        BY <1>2, <1>8
    <2> QED BY <1>5, <1>8, <2>1
<1> QED BY <1>6, <1>7, <1>8

\* At most one result is one lane.
LEMMA OneLane ==
    ASSUME NEW p \in Int, NEW rdst \in Seq(Operands), Len(rdst) \in {0, 1}
    PROVE  \E x \in Lanes : /\ LanesOf(p, rdst) = <<x>> /\ x.pc = p /\ ~x.fission
                            /\ Len(rdst) = 1 => x.dest = rdst[1].n /\ x.value = rdst[1].value
                            /\ Len(rdst) = 0 => x.dest = 0
<1>1. Len(rdst) \in {0, 1, 2} /\ Len(rdst) # 2
    OBVIOUS
<1> QED BY <1>1, LanesTyped

\* Two results are two lanes, the first marked as a first half.
LEMMA TwoLanes ==
    ASSUME NEW p \in Int, NEW rdst \in Seq(Operands), Len(rdst) = 2
    PROVE  \E x, y \in Lanes : /\ LanesOf(p, rdst) = <<x, y>>
                               /\ x.pc = p /\ x.fission /\ y.pc = p /\ ~y.fission
BY LanesTyped

\* After the lanes of an instruction the checker has taken the instruction.
LEMMA InstructionVerified ==
    ASSUME program \in DOMAIN Programs, netSim \in BOOLEAN,
           NEW s, NEW lanes \in Seq(Lanes),
           Following(program, Verified(lanes), s), Op(program, s.pc) # "trap",
           NEW more,
           more = lanes \o LanesOf(s.pc, ISA!Results(ISA!InstAt(program, s.pc), s.regs, s.mem))
    PROVE  /\ more \in Seq(Lanes)
           /\ Following(program, Verified(more), ISA!Exec(program, s))
<1> DEFINE c == Verified(lanes)
           N == Len(lanes)
           p == s.pc
           rdst == ISA!Results(ISA!InstAt(program, p), s.regs, s.mem)
           next == ISA!Exec(program, s)
<1>1. At(program, c, s, 0) /\ Right(c) /\ c.last # p
    BY DEF Following
<1>2. /\ Good(program, s) /\ p \in ISA!TextPCs(program) /\ p \in Int
      /\ s.regs \in [Regs -> Vals] /\ s.mem \in [Addrs -> Vals]
    <2>1. Good(program, s)
        BY <1>1, LinkedGood DEF At
    <2>2. p \in ISA!TextPCs(program) /\ s.regs \in [Regs -> Vals] /\ s.mem \in [Addrs -> Vals]
        BY <2>1 DEF Good
    <2>3. ISA!TextPCs(program) = TextBase .. ExitPC(program)
        BY TextOf
    <2> HIDE DEF p
    <2> QED BY <2>1, <2>2, <2>3
<1>3. c.last \in Int /\ c.last # p
    <2>1. c \in Checkers
        BY <1>1 DEF At
    <2> QED BY <1>1, <2>1 DEF Checkers
<1>4. rdst \in Seq(Operands) /\ Len(rdst) \in {0, 1, 2}
    BY <1>2, TextOf, ResultsTyped
<1>5. \A e \in Entries : Records(program, e, s) => e.a_pc = p /\ e.a_rdst = rdst
    BY DEF Records
<1>6. N \in Nat /\ more = lanes \o LanesOf(p, rdst)
    OBVIOUS
<1>7. UnknownPC \in Int
    BY DEF UnknownPC
<1> HIDE DEF c, N, rdst, next
<1>8. CASE Len(rdst) \in {0, 1}
    <2>1. PICK x \in Lanes : /\ LanesOf(p, rdst) = <<x>> /\ x.pc = p /\ ~x.fission
                             /\ Len(rdst) = 1 => x.dest = rdst[1].n /\ x.value = rdst[1].value
        BY <1>2, <1>4, <1>8, OneLane
    <2>2. more = Append(lanes, x) /\ more \in Seq(Lanes) /\ more[N + 1] = x
        BY <1>6, <2>1 DEF N
    <2> DEFINE d == Verified(more)
               l == NetSimLane(more, N + 1)
    <2>3. d = VerifyOne(c, more, N + 1)
        BY <2>2, VerifiedAppend DEF c, N
    <2>4. CASE ~netSim
        <3>1. d = VerifyLane(c, x)
            BY <2>2, <2>3, <2>4 DEF VerifyOne
        <3>2. \A e \in Entries : Records(program, e, s) => 0 = (IF Differs(x, e) THEN 1 ELSE 0)
            BY <1>4, <1>5, <1>8, <2>1 DEF Differs
        <3> HIDE DEF d
        <3>3. Told(program, d, s, x.pc, 0)
            BY <1>1, <1>2, <1>3, <2>1, <3>1, <3>2, LaneVerified
        <3>4. Following(program, d, ISA!Exec(program, s))
            BY <1>2, <2>1, <3>3, FollowingTold
        <3> QED BY <2>2, <3>4 DEF d
    <2>5. CASE netSim
        <3>1. d = VerifyNetSimLane(c, l)
            BY <2>3, <2>5 DEF VerifyOne
        <3>2. /\ l.pc = (IF N + 1 = 1 THEN p ELSE UnknownPC) /\ l.dest = x.dest /\ l.value = x.value
              /\ ~l.fission /\ (l.later <=> N + 1 > 1)
            <4>1. N + 1 = 1 => more[N + 1].pc = p /\ more[1].pc = p
                BY <2>1, <2>2
            <4> QED BY <2>1, <2>2, <4>1 DEF NetSimLane
        <3>3. c.last # l.pc \/ l.later
            BY <1>3, <1>6, <3>2
        <3>4. l.pc = p \/ l.later
            BY <1>6, <3>2
        <3>5. (l.pc = p \/ l.pc = UnknownPC) /\ l.pc \in Int
            BY <1>2, <1>7, <3>2
        <3> HIDE DEF d, l
        <3>6. \A e \in Entries : Records(program, e, s) => 0 = (IF NetSimDiffers(l, e) THEN 1 ELSE 0)
            BY <1>4, <1>5, <1>8, <2>1, <3>2, <3>4 DEF NetSimDiffers
        <3>7. Told(program, d, s, l.pc, 0)
            BY <1>1, <2>5, <3>1, <3>2, <3>3, <3>5, <3>6, NetSimLaneVerified
        <3>8. Following(program, d, ISA!Exec(program, s))
            BY <1>2, <3>5, <3>7, FollowingTold
        <3> QED BY <2>2, <3>8 DEF d
    <2> QED BY <2>4, <2>5
<1>9. CASE Len(rdst) = 2
    <2>1. PICK x \in Lanes, y \in Lanes : /\ LanesOf(p, rdst) = <<x, y>>
                                          /\ x.pc = p /\ x.fission /\ y.pc = p /\ ~y.fission
        BY <1>2, <1>4, <1>9, TwoLanes
    <2> DEFINE one == Append(lanes, x)
    <2>2. /\ one \in Seq(Lanes) /\ Len(one) = N + 1 /\ one[N + 1] = x
        BY DEF N
    <2>3. /\ more = Append(one, y) /\ more \in Seq(Lanes)
          /\ more[N + 1] = x /\ more[N + 2] = y
        <3>1. lanes \o <<x, y>> = Append(Append(lanes, x), y)
            <4> DEFINE a == lanes \o <<x, y>>
                       b == Append(Append(lanes, x), y)
            <4>1. /\ a \in Seq(Lanes) /\ Len(a) = N + 2
                  /\ \A k \in 1 .. N : a[k] = lanes[k]
                  /\ a[N + 1] = x /\ a[N + 2] = y
                BY <1>6 DEF N
            <4>2. /\ b \in Seq(Lanes) /\ Len(b) = N + 2
                  /\ \A k \in 1 .. N : b[k] = lanes[k]
                  /\ b[N + 1] = x /\ b[N + 2] = y
                BY <1>6 DEF N
            <4>3. \A k \in 1 .. N + 2 : k \in 1 .. N \/ k = N + 1 \/ k = N + 2
                BY <1>6
            <4> HIDE DEF a, b
            <4>4. a = b
                BY <4>1, <4>2, <4>3, SeqEqual
            <4> QED BY <4>4 DEF a, b
        <3>2. more = Append(one, y)
            BY <1>6, <2>1, <3>1
        <3> HIDE DEF one
        <3> QED BY <1>6, <2>2, <3>2
    <2> DEFINE c1 == Verified(one)
               d == Verified(more)
    <2>4. c1 = VerifyOne(c, one, N + 1)
        BY VerifiedAppend DEF c, N
    <2>5. d = VerifyOne(c1, more, N + 2)
        <3>1. Len(one) + 1 = N + 2
            BY <1>6, <2>2
        <3> HIDE DEF one
        <3> QED BY <2>2, <2>3, <3>1, VerifiedAppend
    <2> HIDE DEF one
    <2>6. CASE ~netSim
        <3>1. c1 = VerifyLane(c, x)
            BY <2>2, <2>4, <2>6 DEF VerifyOne
        <3>2. \A e \in Entries : Records(program, e, s) => 0 = (IF Differs(x, e) THEN 1 ELSE 0)
            BY <1>5, <2>1 DEF Differs
        <3>3. d = VerifyLane(c1, y)
            BY <2>3, <2>5, <2>6 DEF VerifyOne
        <3> HIDE DEF c1, d
        <3>4. Told(program, c1, s, x.pc, 0)
            BY <1>1, <1>2, <1>3, <2>1, <3>1, <3>2, LaneVerified
        <3>5. d = c1
            BY <2>1, <3>3, <3>4 DEF Told, VerifyLane
        <3>6. Following(program, d, ISA!Exec(program, s))
            BY <1>2, <2>1, <3>4, <3>5, FollowingTold
        <3> QED BY <2>3, <3>6 DEF d
    <2>7. CASE netSim
        <3> DEFINE l == NetSimLane(one, N + 1)
                   l2 == NetSimLane(more, N + 2)
        <3>1. c1 = VerifyNetSimLane(c, l)
            BY <2>4, <2>7 DEF VerifyOne
        <3>2. d = VerifyNetSimLane(c1, l2)
            BY <2>5, <2>7 DEF VerifyOne
        <3>3. /\ l.pc = (IF N + 1 = 1 THEN p ELSE UnknownPC) /\ l.fission
              /\ (l.later <=> N + 1 > 1)
            <4>1. N + 1 = 1 => one[N + 1].pc = p /\ one[1].pc = p
                BY <2>1, <2>2
            <4> QED BY <2>1, <2>2, <4>1 DEF NetSimLane
        <3>4. l2.pc = UnknownPC /\ ~l2.fission /\ l2.later /\ l2.second
            <4>1. N + 2 # 1 /\ N + 2 > 1 /\ (N + 2) - 1 = N + 1
                BY <1>6
            <4> QED BY <2>1, <2>3, <4>1 DEF NetSimLane
        <3>5. c.last # l.pc \/ l.later
            BY <1>3, <1>6, <3>3
        <3>6. l.pc \in Int
            BY <1>2, <1>7, <3>3
        <3> HIDE DEF c1, d, l, l2
        <3> DEFINE q == l.pc
        <3>7. c1 = [c EXCEPT !.last = q]
            BY <1>1, <3>1, <3>3, <3>5 DEF VerifyNetSimLane, getRetireInstPCNetSim, Right
        <3>8. At(program, c1, s, 0) /\ Right(c1)
            <4> HIDE DEF q
            <4>1. q \in Int
                BY <3>6 DEF q
            <4> QED BY <1>1, <3>7, <4>1, SetLast
        <3>9. \A e \in Entries : Records(program, e, s) => 0 = (IF NetSimDiffers(l2, e) THEN 1 ELSE 0)
            BY <3>4 DEF NetSimDiffers
        <3>10. Told(program, d, s, l2.pc, 0)
            BY <1>7, <2>7, <3>2, <3>4, <3>8, <3>9, NetSimLaneVerified
        <3>11. Following(program, d, ISA!Exec(program, s))
            BY <1>2, <3>4, <3>10, FollowingTold
        <3> QED BY <2>3, <3>11 DEF d
    <2> QED BY <2>6, <2>7
<1> QED BY <1>4, <1>8, <1>9

-----------------------------------------------------------------------------
(* A group of instructions that commit in a cycle                          *)

Start == [pc |-> dpc, regs |-> dregs, mem |-> CoreMemory, stores |-> << >>, lanes |-> << >>]

\* Group(n) retires one instruction after the other.
LEMMA GroupRounds ==
    ASSUME NEW N \in Nat
    PROVE  Group(N) = [k \in 0 .. N |-> IF k = 0 THEN Start ELSE Retire(Group(N)[k - 1])]
<1> DEFINE Upto(n, r) == r = [k \in 0 .. n |-> IF k = 0 THEN Start ELSE Retire(r[k - 1])]
<1>1. \E r : Upto(N, r)
    <2> DEFINE S == {n \in 0 .. N : \E r : Upto(n, r)}
    <2>1. 0 \in S
        <3>1. Upto(0, [k \in 0 .. 0 |-> Start])
            OBVIOUS
        <3>2. 0 \in 0 .. N
            OBVIOUS
        <3> HIDE DEF Upto
        <3> QED BY <3>1, <3>2
    <2>2. ASSUME NEW n \in 0 .. N - 1, n \in S
          PROVE  n + 1 \in S
        <3>1. PICK r : Upto(n, r)
            BY <2>2, Zenon
        <3> DEFINE q == [k \in 0 .. n + 1 |-> IF k <= n THEN r[k] ELSE Retire(r[n])]
        <3>2. ASSUME NEW k \in 0 .. n + 1
              PROVE  q[k] = IF k = 0 THEN Start ELSE Retire(q[k - 1])
            <4>1. CASE k <= n
                <5>1. r[k] = (IF k = 0 THEN Start ELSE Retire(r[k - 1]))
                    BY <3>1, <4>1
                <5>2. k # 0 => k - 1 \in 0 .. n + 1 /\ k - 1 <= n
                    BY <4>1
                <5> QED BY <4>1, <5>1, <5>2
            <4>2. CASE k = n + 1
                <5>1. /\ n + 1 \in 0 .. n + 1 /\ ~ (n + 1 <= n) /\ n \in 0 .. n + 1
                      /\ n + 1 # 0 /\ (n + 1) - 1 = n
                    OBVIOUS
                <5> QED BY <4>2, <5>1
            <4> QED BY <4>1, <4>2
        <3>3. Upto(n + 1, q)
            <4>1. q = [k \in 0 .. n + 1 |-> q[k]]
                OBVIOUS
            <4> HIDE DEF q
            <4> QED BY <3>2, <4>1
        <3>4. n + 1 \in 0 .. N
            OBVIOUS
        <3> HIDE DEF Upto, q
        <3> QED BY <3>3, <3>4
    <2>3. \A n \in 0 .. N : n \in S
        <3> HIDE DEF S
        <3> QED BY <2>1, <2>2, Rounds
    <2>4. N \in 0 .. N
        OBVIOUS
    <2> HIDE DEF Upto
    <2> QED BY <2>3, <2>4
<1>2. Group(N) = (CHOOSE r : Upto(N, r))
    BY DEF Group, Start
<1>3. Upto(N, CHOOSE r : Upto(N, r))
    <2> HIDE DEF Upto
    <2> QED BY <1>1, Zenon
<1> QED BY <1>2, <1>3

Arch(s) == [pc |-> s.pc, regs |-> s.regs, mem |-> s.mem]

\* A store that commits is in the queue, and in the core's memory.
LEMMA StoreRetired ==
    ASSUME NEW prog \in DOMAIN Programs, NEW s, Good(prog, s),
           NEW q \in Seq(Stores), NEW m \in [Addrs -> Vals], Overlaid(q, m) = s.mem,
           Op(prog, s.pc) = "store",
           NEW x, x = [addr |-> ISA!InstAt(prog, s.pc).imm,
                       value |-> ISA!Exec(prog, s).mem[ISA!InstAt(prog, s.pc).imm]]
    PROVE  x \in Stores /\ Overlaid(Append(q, x), m) = ISA!Exec(prog, s).mem
<1> DEFINE i == ISA!InstAt(prog, s.pc)
           v == ISA!Source(i, s.regs)
           next == ISA!Exec(prog, s)
           a == i.imm
<1>1. /\ s.pc \in ISA!TextPCs(prog) /\ s.regs \in [Regs -> Vals] /\ s.mem \in [Addrs -> Vals]
    BY DEF Good
<1>2. i \in Instructions /\ Executable(i)
    BY <1>1, TextOf
<1>3. v \in Vals /\ a \in Addrs
    BY <1>1, <1>2, ResultsTyped DEF Executable, Op
<1>4. next.mem = [s.mem EXCEPT ![a] = v]
    BY DEF ISA!Exec, ISA!WriteMem, Op
<1>5. x = [addr |-> a, value |-> next.mem[a]]
    OBVIOUS
<1> HIDE DEF i, v, next, a
<1>6. next.mem[a] = v
    BY <1>1, <1>3, <1>4
<1>7. x \in Stores /\ x.addr = a /\ x.value = v
    BY <1>3, <1>5, <1>6 DEF Stores
<1>8. Overlaid(Append(q, x), m) = StoreIn(x, Overlaid(q, m))
    BY <1>7, OverlaidAppend
<1> QED BY <1>4, <1>7, <1>8 DEF StoreIn, next

\* The core, checker and store queue after instructions of the program.
InGroup(prog, s, q, m) ==
    /\ s.lanes \in Seq(Lanes) /\ s.stores \in Seq(Stores)
    /\ s.regs \in [Regs -> Vals]
    /\ Overlaid(q \o s.stores, m) = s.mem

\* What retiring an instruction of the program does.
LEMMA RetireKeeps ==
    ASSUME program \in DOMAIN Programs, netSim \in BOOLEAN,
           NEW s, NEW q \in Seq(Stores), NEW m \in [Addrs -> Vals],
           InGroup(program, s, q, m),
           Following(program, Verified(s.lanes), Arch(s)),
           Op(program, s.pc) # "trap",
           NEW t, t = Retire(s)
    PROVE  /\ InGroup(program, t, q, m)
           /\ Arch(t) = ISA!Exec(program, Arch(s))
           /\ Following(program, Verified(t.lanes), Arch(t))
<1> DEFINE a == Arch(s)
           i == ISA!InstAt(program, s.pc)
           next == ISA!Exec(program, a)
           x == [addr |-> i.imm, value |-> next.mem[i.imm]]
           rdst == ISA!Results(i, s.regs, s.mem)
<1>1. a.pc = s.pc /\ a.regs = s.regs /\ a.mem = s.mem
    BY DEF Arch
<1>2. Good(program, a)
    <2>1. Linked(program, Verified(s.lanes).fs, a, 0) /\ Verified(s.lanes).fs.db.length > 0
        BY DEF Following, At
    <2> HIDE DEF a
    <2> QED BY <2>1, LinkedGood
<1>3. /\ s.lanes \in Seq(Lanes) /\ s.stores \in Seq(Stores) /\ Overlaid(q \o s.stores, m) = s.mem
    BY DEF InGroup
<1>4. Retire(s) = RetireProgram(s)
    <2>1. s.pc \in ISA!TextPCs(program)
        BY <1>1, <1>2 DEF Good
    <2>2. ~ (s.pc < InitLen)
        BY <2>1, TextOf, Constants
    <2> QED BY <2>2 DEF Retire
<1>5. ISA!Exec(program, s) = next
    BY <1>1 DEF ISA!Exec
<1>6. /\ t.pc = next.pc /\ t.regs = next.regs /\ t.mem = next.mem
      /\ t.stores = (IF i.op = "store" THEN Append(s.stores, x) ELSE s.stores)
      /\ t.lanes = s.lanes \o LanesOf(s.pc, rdst)
    <2> DEFINE stores2 == IF i.op = "store" THEN Append(s.stores, x) ELSE s.stores
               lanes2 == s.lanes \o LanesOf(s.pc, rdst)
    <2>1. t = [pc |-> next.pc, regs |-> next.regs, mem |-> next.mem,
               stores |-> stores2, lanes |-> lanes2]
        <3> HIDE DEF a
        <3> QED BY <1>4, <1>5, Zenon DEF RetireProgram
    <2> HIDE DEF next, stores2, lanes2
    <2>2. /\ t.pc = next.pc /\ t.regs = next.regs /\ t.mem = next.mem
          /\ t.stores = stores2 /\ t.lanes = lanes2
        BY <2>1
    <2> QED BY <2>2 DEF stores2, lanes2
<1>7. Arch(t) = next
    <2>1. next = [pc |-> next.pc, regs |-> next.regs, mem |-> next.mem]
        BY DEF ISA!Exec
    <2> HIDE DEF next
    <2> QED BY <1>6, <2>1 DEF Arch
<1>8. t.lanes \in Seq(Lanes) /\ Following(program, Verified(t.lanes), next)
    <2> DEFINE l == s.lanes
               more == t.lanes
    <2>1. l \in Seq(Lanes) /\ Following(program, Verified(l), a) /\ Op(program, a.pc) # "trap"
        BY <1>1, <1>3
    <2>2. more = l \o LanesOf(a.pc, ISA!Results(ISA!InstAt(program, a.pc), a.regs, a.mem))
        BY <1>1, <1>6
    <2> HIDE DEF l, more, a
    <2>3. more \in Seq(Lanes) /\ Following(program, Verified(more), ISA!Exec(program, a))
        BY <2>1, <2>2, InstructionVerified
    <2> QED BY <2>3 DEF more
<1>9. t.stores \in Seq(Stores) /\ Overlaid(q \o t.stores, m) = t.mem
    <2>1. CASE i.op = "store"
        <3> DEFINE p == q \o s.stores
        <3>1. p \in Seq(Stores) /\ Overlaid(p, m) = a.mem
            BY <1>1, <1>3
        <3>2. Op(program, a.pc) = "store" /\ i = ISA!InstAt(program, a.pc)
            BY <1>1, <2>1 DEF Op
        <3>3. x = [addr |-> ISA!InstAt(program, a.pc).imm,
                   value |-> ISA!Exec(program, a).mem[ISA!InstAt(program, a.pc).imm]]
            BY <3>2
        <3>4. x \in Stores /\ Overlaid(Append(p, x), m) = next.mem
            <4> HIDE DEF p, x, a, i
            <4> QED BY <1>2, <3>1, <3>2, <3>3, StoreRetired
        <3>5. q \o Append(s.stores, x) = Append(p, x) /\ Append(s.stores, x) \in Seq(Stores)
            <4> HIDE DEF x
            <4> QED BY <1>3, <3>4
        <3> HIDE DEF p, x, next
        <3> QED BY <1>6, <2>1, <3>4, <3>5
    <2>2. CASE i.op # "store"
        <3>1. next.mem = a.mem
            BY <1>1, <2>2 DEF ISA!Exec, ISA!WriteMem
        <3> QED BY <1>1, <1>3, <1>6, <2>2, <3>1
    <2> QED BY <2>1, <2>2
<1>10. t.regs \in [Regs -> Vals]
    <2> HIDE DEF a
    <2>1. ISA!Exec(program, a).regs \in [Regs -> Vals]
        BY <1>2, ExecTyped
    <2> QED BY <1>6, <2>1
<1> HIDE DEF next
<1> QED BY <1>7, <1>8, <1>9, <1>10 DEF InGroup, next

\* A group of instructions of the program: the core, the checker and the memory
\* stay together instruction by instruction.
LEMMA ProgramGroup ==
    ASSUME program \in DOMAIN Programs, netSim \in BOOLEAN,
           stq \in Seq(Stores), vmem \in [Addrs -> Vals], dregs \in [Regs -> Vals],
           Following(program, Checker, [pc |-> dpc, regs |-> dregs, mem |-> CoreMemory]),
           NEW N \in Nat, NEW at, at = Group(N), IsGroup(at, N)
    PROVE  /\ at[0] = Start
           /\ \A k \in 0 .. N : /\ InGroup(program, at[k], stq, vmem)
                                /\ Following(program, Verified(at[k].lanes), Arch(at[k]))
           /\ \A k \in 0 .. N - 1 : /\ InText(at[k].pc) /\ Op(program, at[k].pc) # "trap"
                                    /\ Arch(at[k + 1]) = ISA!Exec(program, Arch(at[k]))
<1>1. at = [k \in 0 .. N |-> IF k = 0 THEN Start ELSE Retire(at[k - 1])]
    BY GroupRounds
<1>2. at[0] = Start
    BY <1>1
<1>3. \A k \in 0 .. N - 1 : CanRetire(at[k].pc)
    BY DEF IsGroup
<1> DEFINE Fine(s) == /\ InGroup(program, s, stq, vmem)
                      /\ Following(program, Verified(s.lanes), Arch(s))
           S == {k \in 0 .. N : Fine(at[k])}
<1>4. 0 \in S
    <2>1. /\ Start.lanes = << >> /\ Start.stores = << >> /\ Start.regs = dregs
          /\ Arch(Start) = [pc |-> dpc, regs |-> dregs, mem |-> CoreMemory]
          /\ Start.mem = CoreMemory
        BY DEF Start, Arch
    <2>2. stq \o << >> = stq
        OBVIOUS
    <2>3. << >> \in Seq(Lanes) /\ << >> \in Seq(Stores)
        OBVIOUS
    <2>4. InGroup(program, Start, stq, vmem)
        BY <2>1, <2>2, <2>3 DEF InGroup, CoreMemory
    <2>5. Following(program, Verified(Start.lanes), Arch(Start))
        BY <2>1, VerifiedNone
    <2>6. 0 \in 0 .. N
        OBVIOUS
    <2> QED BY <1>2, <2>4, <2>5, <2>6
<1>5. ASSUME NEW s, Fine(s), CanRetire(s.pc)
      PROVE  InText(s.pc) /\ Op(program, s.pc) # "trap"
    <2>1. Linked(program, Verified(s.lanes).fs, Arch(s), 0) /\ Verified(s.lanes).fs.db.length > 0
        BY <1>5 DEF Following, At
    <2>2. Good(program, Arch(s))
        BY <2>1, LinkedGood
    <2>3. s.pc \in ISA!TextPCs(program)
        BY <2>2 DEF Good, Arch
    <2>4. ~ (s.pc < InitLen)
        <3>1. ISA!TextPCs(program) = TextBase .. ExitPC(program) /\ ExitPC(program) \in Nat
            BY TextOf
        <3>2. TextBase \in Nat /\ InitLen \in Nat /\ TextBase >= InitLen
            BY Constants
        <3>3. s.pc \in TextBase .. ExitPC(program)
            BY <2>3, <3>1
        <3> HIDE DEF Fine, S
        <3> QED BY <3>1, <3>2, <3>3
    <2> QED BY <1>5, <2>3, <2>4 DEF CanRetire, IsTrap, InText, Op
<1>6. ASSUME NEW k \in 0 .. N - 1, Fine(at[k])
      PROVE  /\ Fine(at[k + 1])
             /\ InText(at[k].pc) /\ Op(program, at[k].pc) # "trap"
             /\ Arch(at[k + 1]) = ISA!Exec(program, Arch(at[k]))
    <2> DEFINE s == at[k]
               t == at[k + 1]
    <2>1. t = Retire(s)
        <3>1. k + 1 \in 0 .. N /\ k + 1 # 0 /\ (k + 1) - 1 = k
            OBVIOUS
        <3> QED BY <1>1, <3>1
    <2>2. Fine(s) /\ CanRetire(s.pc)
        BY <1>3, <1>6
    <2> HIDE DEF s, t
    <2>3. InText(s.pc) /\ Op(program, s.pc) # "trap"
        BY <1>5, <2>2
    <2>4. /\ InGroup(program, t, stq, vmem)
          /\ Arch(t) = ISA!Exec(program, Arch(s))
          /\ Following(program, Verified(t.lanes), Arch(t))
        BY <2>1, <2>2, <2>3, RetireKeeps
    <2> QED BY <2>3, <2>4 DEF s, t
<1>7. \A k \in 0 .. N : k \in S
    <2>1. ASSUME NEW k \in 0 .. N - 1, k \in S PROVE k + 1 \in S
        <3>1. Fine(at[k]) /\ k + 1 \in 0 .. N
            BY <2>1
        <3>2. Fine(at[k + 1])
            BY <1>6, <3>1
        <3> HIDE DEF Fine
        <3> QED BY <3>1, <3>2
    <2> HIDE DEF S
    <2> QED BY <1>4, <2>1, Rounds
<1>8. ASSUME NEW k \in 0 .. N - 1
      PROVE  /\ InText(at[k].pc) /\ Op(program, at[k].pc) # "trap"
             /\ Arch(at[k + 1]) = ISA!Exec(program, Arch(at[k]))
    <2>1. Fine(at[k])
        BY <1>7
    <2> QED BY <1>6, <2>1
<1> QED BY <1>2, <1>7, <1>8

\* A run of the program is a step of Isa.
LEMMA StepsRounds ==
    ASSUME NEW N \in Nat, NEW h,
           h = [k \in 0 .. N |-> IF k = 0 THEN [pc |-> fs.arch_PC, regs |-> aregs, mem |-> amem]
                                 ELSE ISA!Exec(program, h[k - 1])],
           \A k \in 0 .. N - 1 : InText(h[k].pc) /\ Op(program, h[k].pc) # "trap",
           fs'.arch_PC = h[N].pc, aregs' = h[N].regs, amem' = h[N].mem, program' = program
    PROVE  ISA!Steps(N)
<1> DEFINE base == [pc |-> fs.arch_PC, regs |-> aregs, mem |-> amem]
           Is(r) == r = [k \in 0 .. N |-> IF k = 0 THEN base ELSE ISA!Exec(program, r[k - 1])]
           at == CHOOSE r : Is(r)
<1>1. Is(h)
    OBVIOUS
<1>2. Is(at)
    <2> HIDE DEF Is
    <2> QED BY <1>1, Zenon
<1>3. at = [k \in 0 .. N |-> IF k = 0 THEN base ELSE ISA!Exec(program, at[k - 1])]
    BY <1>2
<1>4. ISA!Steps(N) <=>
          /\ \A k \in 0 .. N - 1 : at[k].pc \in ISA!TextPCs(program)
                                   /\ ISA!InstAt(program, at[k].pc).op # "trap"
          /\ fs'.arch_PC = at[N].pc /\ aregs' = at[N].regs /\ amem' = at[N].mem
          /\ program' = program
    BY Zenon DEF ISA!Steps
<1> DEFINE S == {k \in 0 .. N : at[k] = h[k]}
<1> HIDE DEF at
<1>5. 0 \in S
    <2>1. 0 \in 0 .. N
        OBVIOUS
    <2> QED BY <1>3, <2>1
<1>6. ASSUME NEW k \in 0 .. N - 1, k \in S PROVE k + 1 \in S
    <2>1. k + 1 \in 0 .. N /\ k + 1 # 0 /\ (k + 1) - 1 = k
        OBVIOUS
    <2>2. at[k + 1] = ISA!Exec(program, at[k]) /\ h[k + 1] = ISA!Exec(program, h[k])
        BY <1>3, <2>1
    <2> QED BY <1>6, <2>1, <2>2
<1>7. \A k \in 0 .. N : at[k] = h[k]
    <2>1. \A k \in 0 .. N : k \in S
        <3> HIDE DEF S
        <3> QED BY <1>5, <1>6, Rounds
    <2> QED BY <2>1
<1>8. /\ N \in 0 .. N /\ \A k \in 0 .. N - 1 : k \in 0 .. N
    OBVIOUS
<1> QED BY <1>4, <1>7, <1>8 DEF InText, Op

-----------------------------------------------------------------------------
(* The register set-up routine                                             *)

\* A register is loaded in two halves.
LEMMA Halves ==
    ASSUME NEW x \in Vals
    PROVE  /\ Half * (x \div Half) \in Vals
           /\ Half * (x \div Half) + (x % Half) = x
<1>1. /\ NumVals \in Nat /\ NumVals > 0 /\ NumVals % 2 = 0 /\ x \in 0 .. NumVals - 1
    BY CoSimAssumption, Constants
<1> DEFINE h == Half
<1>2. h \in Nat /\ h >= 1 /\ NumVals = 2 * h
    BY <1>1 DEF Half
<1> HIDE DEF h
<1>3. CASE x < h
    <2>1. x \div h = 0 /\ x % h = x
        BY <1>1, <1>2, <1>3
    <2> QED BY <1>1, <1>2, <2>1, Constants DEF h
<1>4. CASE x >= h
    <2>1. x \div h = 1
        BY <1>1, <1>2, <1>4
    <2>2. x % h = x - h
        BY <1>1, <1>2, <1>4, <2>1
    <2>3. h * (x \div h) = h
        BY <1>2, <2>1
    <2> QED BY <1>1, <1>2, <2>2, <2>3, Constants DEF h
<1> QED BY <1>1, <1>2, <1>3, <1>4

\* Registers r after the instructions of the routine before pc p.
Loaded(p, r, image) ==
    \A n \in Regs : /\ 2 * n <= p => r[n] = image[n]
                    /\ p = 2 * n - 1 => r[n] = Half * (image[n] \div Half)

\* The core within the routine.
InLoop(s, p, image) ==
    /\ s = [pc |-> s.pc, regs |-> s.regs, mem |-> s.mem, stores |-> s.stores, lanes |-> s.lanes]
    /\ s.pc = p /\ s.regs \in [Regs -> Vals] /\ Loaded(p, s.regs, image)
    /\ s.stores = << >> /\ s.lanes \in Seq(Lanes)

\* An instruction of the routine loads half of a register, and is one lane.
LEMMA RoutineStep ==
    ASSUME NEW p \in 0 .. InitLen - 2, NEW image \in [Regs -> Vals], routine.image = image,
           NEW s, InLoop(s, p, image), NEW t, t = Retire(s)
    PROVE  /\ InLoop(t, p + 1, image)
           /\ Len(t.lanes) = Len(s.lanes) + 1 /\ t.mem = s.mem
<1> DEFINE r == p \div 2 + 1
           v == IF p % 2 = 0 THEN Half * (image[r] \div Half) ELSE s.regs[r] + (image[r] % Half)
           rdst == <<[n |-> r, value |-> v]>>
           lanes2 == s.lanes \o LanesOf(p, rdst)
<1>1. /\ InitLen = 2 * NumRegs + 1 /\ NumRegs \in Nat /\ Regs = 1 .. NumRegs
      /\ p \in Nat /\ p <= 2 * NumRegs - 1
    <2>1. InitLen = 2 * NumRegs + 1 /\ NumRegs \in Nat /\ Regs = 1 .. NumRegs
        BY Constants, Zenon
    <2> HIDE DEF r, v, rdst, lanes2
    <2> QED BY <2>1
<1>2. /\ s = [pc |-> s.pc, regs |-> s.regs, mem |-> s.mem, stores |-> s.stores, lanes |-> s.lanes]
      /\ s.pc = p /\ s.regs \in [Regs -> Vals] /\ Loaded(p, s.regs, image)
      /\ s.stores = << >> /\ s.lanes \in Seq(Lanes)
    BY DEF InLoop
<1>3. r \in Regs
    BY <1>1
<1>4. image[r] \in Vals
    BY <1>3
<1>5. v \in Vals /\ v = (IF p % 2 = 0 THEN Half * (image[r] \div Half) ELSE image[r])
    <2>1. /\ Half * (image[r] \div Half) \in Vals
          /\ Half * (image[r] \div Half) + (image[r] % Half) = image[r]
        <3> DEFINE x == image[r]
        <3>1. x \in Vals
            BY <1>4
        <3> HIDE DEF x
        <3>2. Half * (x \div Half) \in Vals /\ Half * (x \div Half) + (x % Half) = x
            BY <3>1, Halves
        <3> QED BY <3>2 DEF x
    <2>2. CASE p % 2 = 0
        BY <2>1, <2>2
    <2>3. CASE p % 2 # 0
        <3>1. p = 2 * r - 1
            BY <1>1, <2>3
        <3>2. s.regs[r] = Half * (image[r] \div Half)
            <4> HIDE DEF r
            <4> QED BY <1>2, <1>3, <3>1 DEF Loaded
        <3>3. v = image[r]
            BY <2>1, <2>3, <3>2
        <3> QED BY <1>4, <2>3, <3>3
    <2> QED BY <2>2, <2>3
<1>6. t = [s EXCEPT !.pc = p + 1, !.regs[r] = v, !.lanes = lanes2]
    <2>1. p < InitLen /\ p # InitLen - 1
        BY <1>1
    <2>2. t = RetireRoutine(s)
        BY <1>2, <2>1 DEF Retire
    <2> QED BY <1>2, <2>1, <2>2 DEF RetireRoutine
<1>7. lanes2 \in Seq(Lanes) /\ Len(lanes2) = Len(s.lanes) + 1
    <2>1. rdst \in Seq(Operands) /\ Len(rdst) \in {0, 1} /\ p \in Int
        <3> HIDE DEF r, v
        <3> QED BY <1>1, <1>3, <1>5 DEF Operands
    <2> HIDE DEF rdst
    <2>2. PICK x \in Lanes : LanesOf(p, rdst) = <<x>>
        BY <2>1, OneLane
    <2> QED BY <1>2, <2>2
<1> HIDE DEF lanes2, v, r
<1>8. /\ t.pc = p + 1 /\ t.regs = [s.regs EXCEPT ![r] = v] /\ t.mem = s.mem
      /\ t.stores = s.stores /\ t.lanes = lanes2
      /\ t = [pc |-> t.pc, regs |-> t.regs, mem |-> t.mem, stores |-> t.stores, lanes |-> t.lanes]
    <2> DEFINE regs2 == [s.regs EXCEPT ![r] = v]
    <2>1. t = [pc |-> p + 1, regs |-> regs2, mem |-> s.mem, stores |-> s.stores, lanes |-> lanes2]
        <3>1. t = [s EXCEPT !.pc = p + 1, !.regs = regs2, !.lanes = lanes2]
            BY <1>6
        <3> HIDE DEF regs2
        <3> QED BY <1>2, <3>1
    <2> HIDE DEF regs2
    <2>2. /\ t.pc = p + 1 /\ t.regs = regs2 /\ t.mem = s.mem
          /\ t.stores = s.stores /\ t.lanes = lanes2
        BY <2>1
    <2> QED BY <2>1, <2>2 DEF regs2
<1>9. t.regs \in [Regs -> Vals] /\ t.regs[r] = v /\ \A n \in Regs : n # r => t.regs[n] = s.regs[n]
    BY <1>2, <1>3, <1>5, <1>8
<1>10. Loaded(p + 1, t.regs, image)
    <2> SUFFICES ASSUME NEW n \in Regs
                 PROVE  /\ 2 * n <= p + 1 => t.regs[n] = image[n]
                        /\ p + 1 = 2 * n - 1 => t.regs[n] = Half * (image[n] \div Half)
        BY DEF Loaded
    <2>1. /\ 2 * n <= p => s.regs[n] = image[n]
          /\ p = 2 * n - 1 => s.regs[n] = Half * (image[n] \div Half)
        BY <1>2 DEF Loaded
    <2>2. n \in Nat
        BY <1>1
    <2>3. CASE n = r
        <3>1. p % 2 = 0 => ~ (2 * n <= p + 1) /\ v = Half * (image[n] \div Half)
            BY <1>1, <1>5, <2>3 DEF r
        <3>2. p % 2 # 0 => ~ (p + 1 = 2 * n - 1) /\ v = image[n]
            BY <1>1, <1>5, <2>3 DEF r
        <3> QED BY <1>9, <2>3, <3>1, <3>2
    <2>4. CASE n # r
        <3>1. 2 * n <= p + 1 => 2 * n <= p
            BY <1>1, <2>2, <2>4 DEF r
        <3>2. ~ (p + 1 = 2 * n - 1)
            BY <1>1, <2>2, <2>4 DEF r
        <3> QED BY <1>9, <2>1, <2>4, <3>1, <3>2
    <2> QED BY <2>3, <2>4
<1> QED BY <1>2, <1>7, <1>8, <1>9, <1>10 DEF InLoop

\* A group of instructions of the routine; the jump ends it.
LEMMA RoutineGroup ==
    ASSUME dpc \in 0 .. InitLen - 1, dregs \in [Regs -> Vals],
           NEW image \in [Regs -> Vals], routine.image = image, Loaded(dpc, dregs, image),
           NEW N \in Nat \ {0}, NEW at, at = Group(N), IsGroup(at, N)
    PROVE  /\ at[N].stores = << >> /\ Len(at[N].lanes) = N
           /\ at[N].regs \in [Regs -> Vals] /\ dpc + N <= InitLen
           /\ dpc + N < InitLen => at[N].pc = dpc + N /\ Loaded(dpc + N, at[N].regs, image)
           /\ dpc + N = InitLen => at[N].pc = routine.target /\ at[N].regs = image
<1>1. at = [k \in 0 .. N |-> IF k = 0 THEN Start ELSE Retire(at[k - 1])]
    BY GroupRounds
<1>2. /\ InitLen = 2 * NumRegs + 1 /\ NumRegs \in Nat /\ Regs = 1 .. NumRegs
      /\ InitLen \in Nat /\ dpc \in Nat /\ N \in Nat /\ N >= 1
    BY Constants
<1> DEFINE Fine(s, k) == /\ dpc + k <= InitLen - 1
                         /\ InLoop(s, dpc + k, image) /\ Len(s.lanes) = k
           S == {k \in 0 .. N - 1 : Fine(at[k], k)}
<1>3. \A k \in 0 .. N - 1 : k > 0 => at[k - 1].pc # InitLen - 1
    BY DEF IsGroup
<1>4. 0 \in S
    <2>1. at[0] = Start /\ 0 \in 0 .. N - 1 /\ dpc + 0 = dpc
        BY <1>1, <1>2
    <2>2. /\ Start = [pc |-> Start.pc, regs |-> Start.regs, mem |-> Start.mem,
                      stores |-> Start.stores, lanes |-> Start.lanes]
          /\ Start.pc = dpc /\ Start.regs = dregs /\ Start.stores = << >> /\ Start.lanes = << >>
        BY DEF Start
    <2>3. Len(<< >>) = 0 /\ << >> \in Seq(Lanes)
        OBVIOUS
    <2>4. InLoop(Start, dpc, image)
        BY <2>2, <2>3 DEF InLoop
    <2>5. Fine(Start, 0)
        BY <1>2, <2>1, <2>2, <2>3, <2>4
    <2> HIDE DEF Fine
    <2> QED BY <2>1, <2>5
<1>5. ASSUME NEW k \in 0 .. N - 1, k \in S, at[k].pc # InitLen - 1
      PROVE  Fine(at[k + 1], k + 1)
    <2> DEFINE s == at[k]
               t == at[k + 1]
               p == dpc + k
    <2>1. t = Retire(s)
        <3>1. k + 1 \in 0 .. N /\ k + 1 # 0 /\ (k + 1) - 1 = k
            OBVIOUS
        <3> QED BY <1>1, <3>1
    <2>2. p <= InitLen - 1 /\ InLoop(s, p, image) /\ Len(s.lanes) = k
        BY <1>5
    <2>3. s.pc = p
        BY <2>2 DEF InLoop
    <2>4. p \in 0 .. InitLen - 2 /\ p + 1 = dpc + (k + 1) /\ p + 1 <= InitLen - 1
        <3> HIDE DEF s
        <3>1. p # InitLen - 1
            BY <1>5, <2>3 DEF s
        <3> QED BY <1>2, <2>2, <3>1
    <2> HIDE DEF s, t, p
    <2>5. InLoop(t, p + 1, image) /\ Len(t.lanes) = Len(s.lanes) + 1
        BY <2>1, <2>2, <2>4, RoutineStep
    <2> QED BY <2>2, <2>4, <2>5 DEF t
<1>6. \A k \in 0 .. N - 1 : k \in S
    <2>1. N - 1 \in Nat
        BY <1>2
    <2>2. ASSUME NEW k \in 0 .. (N - 1) - 1, k \in S PROVE k + 1 \in S
        <3>1. k \in 0 .. N - 1 /\ k + 1 \in 0 .. N - 1 /\ k + 1 > 0 /\ (k + 1) - 1 = k
            BY <1>2
        <3>2. at[k].pc # InitLen - 1
            BY <1>3, <3>1
        <3>3. Fine(at[k + 1], k + 1)
            BY <1>5, <2>2, <3>1, <3>2
        <3> HIDE DEF Fine
        <3> QED BY <3>1, <3>3
    <2> HIDE DEF S
    <2> QED BY <1>4, <2>1, <2>2, Rounds
<1> DEFINE s == at[N - 1]
           t == at[N]
<1>7. /\ dpc + (N - 1) <= InitLen - 1 /\ InLoop(s, dpc + (N - 1), image) /\ Len(s.lanes) = N - 1
      /\ N - 1 \in S
    <2>1. N - 1 \in 0 .. N - 1
        BY <1>2
    <2>2. N - 1 \in S
        <3> HIDE DEF S
        <3> QED BY <1>6, <2>1
    <2> QED BY <2>2
<1>8. /\ s = [pc |-> s.pc, regs |-> s.regs, mem |-> s.mem, stores |-> s.stores, lanes |-> s.lanes]
      /\ s.pc = dpc + (N - 1) /\ s.regs \in [Regs -> Vals]
      /\ Loaded(dpc + (N - 1), s.regs, image) /\ s.stores = << >> /\ s.lanes \in Seq(Lanes)
    BY <1>7 DEF InLoop
<1>9. CASE s.pc = InitLen - 1
    <2> DEFINE lanes2 == s.lanes \o LanesOf(s.pc, << >>)
    <2>1. t = [s EXCEPT !.pc = routine.target, !.lanes = lanes2]
        <3>1. t = Retire(s)
            <4>1. N \in 0 .. N /\ N # 0
                BY <1>2
            <4> QED BY <1>1, <4>1
        <3>2. s.pc < InitLen
            <4> HIDE DEF s
            <4> QED BY <1>2, <1>9
        <3> HIDE DEF t
        <3> QED BY <1>9, <3>1, <3>2 DEF Retire, RetireRoutine
    <2>2. Len(lanes2) = N
        <3>1. << >> \in Seq(Operands) /\ Len(<< >>) \in {0, 1}
            OBVIOUS
        <3>2. s.pc \in Int
            BY <1>2, <1>8
        <3> HIDE DEF s
        <3>3. PICK x \in Lanes : LanesOf(s.pc, << >>) = <<x>>
            <4>1. \A p \in Int : \A rdst \in Seq(Operands) : Len(rdst) \in {0, 1} =>
                     \E x \in Lanes : LanesOf(p, rdst) = <<x>>
                BY OneLane
            <4> QED BY <3>1, <3>2, <4>1, Zenon
        <3>4. s.lanes \in Seq(Lanes) /\ Len(s.lanes) = N - 1 /\ x \in Lanes
            BY <1>7, <1>8
        <3> DEFINE l == s.lanes
        <3>5. Len(l \o <<x>>) = Len(l) + 1
            <4>1. l \in Seq(Lanes) /\ x \in Lanes
                BY <3>4
            <4> HIDE DEF l
            <4> QED BY <4>1
        <3>6. lanes2 = l \o <<x>>
            BY <3>3
        <3>7. Len(l) = N - 1
            BY <3>4
        <3> HIDE DEF l, lanes2
        <3> QED BY <1>2, <3>5, <3>6, <3>7
    <2>3. s.regs = image
        <3>1. \A n \in Regs : 2 * n <= dpc + (N - 1)
            BY <1>2, <1>8, <1>9
        <3>2. \A n \in Regs : s.regs[n] = image[n]
            BY <1>8, <3>1 DEF Loaded
        <3> HIDE DEF s
        <3> QED BY <1>8, <3>2
    <2> HIDE DEF s, t, lanes2
    <2>4. t.pc = routine.target /\ t.regs = s.regs /\ t.stores = s.stores /\ t.lanes = lanes2
        BY <1>8, <2>1
    <2>5. dpc + N = InitLen
        BY <1>2, <1>8, <1>9
    <2> QED BY <1>2, <1>8, <2>2, <2>3, <2>4, <2>5 DEF t
<1>10. CASE s.pc # InitLen - 1
    <2>1. N - 1 \in 0 .. N - 1 /\ (N - 1) + 1 = N
        BY <1>2
    <2>2. Fine(at[(N - 1) + 1], (N - 1) + 1)
        <3> HIDE DEF Fine, S
        <3> QED BY <1>5, <1>7, <1>10, <2>1
    <2>3. /\ dpc + N <= InitLen - 1 /\ InLoop(t, dpc + N, image) /\ Len(t.lanes) = N
        BY <2>1, <2>2
    <2>4. /\ t.pc = dpc + N /\ t.regs \in [Regs -> Vals] /\ Loaded(dpc + N, t.regs, image)
          /\ t.stores = << >>
        BY <2>3 DEF InLoop
    <2>5. dpc + N <= InitLen /\ dpc + N # InitLen
        BY <1>2, <2>3
    <2> QED BY <2>3, <2>4, <2>5
<1> QED BY <1>9, <1>10

-----------------------------------------------------------------------------
(* The inductive invariant                                                 *)

Typed ==
    /\ program \in DOMAIN Programs /\ netSim \in BOOLEAN
    /\ fs \in Simulators /\ RingOK(fs.db)
    /\ vmem \in [Addrs -> Vals] /\ LOGICAL_REG \in [Regs -> Vals]
    /\ skip_instructions \in 0 .. InitLen
    /\ lastCommitPC \in Int /\ numMismatches \in 0 .. StopAfterMismatch + 1
    /\ status \in {"running", "finish", "exit", "assert"}
    /\ ~netSim /\ status = "running" => numMismatches <= StopAfterMismatch
    /\ dregs \in [Regs -> Vals] /\ aregs \in [Regs -> Vals] /\ amem \in [Addrs -> Vals]
    /\ stq \in Seq(Stores) /\ Len(stq) <= MaxStq

\* The state the debug buffer continues from.
Now == [pc |-> fs.arch_PC, regs |-> aregs, mem |-> amem]

\* The buffer holds the program from there on, and the checker has no complaint.
Checked ==
    /\ At(program, Checker, Now, 0)
    /\ numMismatches = 0 /\ status \in {"running", "finish"}

\* The core's memory is the program's, too.
Synced == Checked /\ lastCommitPC # fs.arch_PC /\ CoreMemory = amem

\* A call has been answered: the memory may have lost the word that it filled, if
\* a store to it was still on its way.
CalledOnce ==
    /\ Checked
    /\ \A a \in Addrs : CoreMemory[a] = amem[a] \/ (overtaken /\ a = CallBuf)

\* The core is in the routine, which loads the registers of that state, and the
\* checker skips the rest of the routine; or the core is in that state.
InRoutine ==
    /\ dpc \in 0 .. InitLen - 1 /\ skip_instructions = InitLen - dpc
    /\ routine = [image |-> aregs, target |-> fs.arch_PC]
    /\ Loaded(dpc, dregs, aregs)
InProgram == skip_instructions = 0 /\ dpc = fs.arch_PC /\ dregs = aregs

IInv ==
    /\ beyond \in Nat
    /\ beyond <= 1 => Typed
    /\ ~faulted /\ beyond = 0 => Synced /\ (InRoutine \/ InProgram)
    /\ ~faulted /\ beyond = 1 => CalledOnce
    /\ faulted /\ beyond <= 1 => numMismatches > 0

\* Nothing is claimed of a core that goes on behind a call, and each of its steps
\* counts.
LEMMA IInvBeyond ==
    ASSUME IInv, beyond # 0, beyond' = beyond + 1
    PROVE  IInv' /\ ~ (beyond' <= 1)
<1>1. beyond \in Nat
    BY DEF IInv
<1>2. beyond' \in Nat /\ ~ (beyond' <= 1) /\ beyond' # 0 /\ beyond' # 1
    BY <1>1
<1> QED BY <1>2 DEF IInv

\* What the running core and the checker have in common.
LEMMA RunningFollows ==
    ASSUME Synced, status = "running"
    PROVE  Following(program, Checker, Now)
<1>1. Checker.status = status /\ Checker.mismatches = numMismatches /\ Checker.last = lastCommitPC
    BY DEF Checker
<1>2. Now.pc = fs.arch_PC
    BY DEF Now
<1> QED BY <1>1, <1>2 DEF Synced, Checked, Following, Right

\* The program is where an instruction of its text is next.
LEMMA NowGood ==
    ASSUME Synced
    PROVE  Good(program, Now) /\ InText(fs.arch_PC)
<1>1. At(program, Checker, Now, 0)
    BY DEF Synced, Checked
<1>2. Linked(program, Checker.fs, Now, 0) /\ Checker.fs.db.length > 0
    BY <1>1 DEF At
<1>3. Good(program, Now)
    BY <1>2, LinkedGood
<1>4. Now.pc = fs.arch_PC
    BY DEF Now
<1> QED BY <1>3, <1>4 DEF Good, InText

\* A core in the text of the program is not in the routine, which lies before it.
LEMMA AtProgram ==
    ASSUME IInv, Running, InText(dpc), beyond = 0
    PROVE  InProgram /\ dpc \in Int /\ ~ (dpc < InitLen)
<1>1. program \in DOMAIN Programs /\ (InRoutine \/ InProgram)
    BY DEF IInv, Running, Typed
<1>2. dpc \in TextBase .. ExitPC(program) /\ ExitPC(program) \in Nat
    BY <1>1, TextOf DEF InText
<1>3. dpc \in Int /\ ~ (dpc < InitLen)
    BY <1>2, Constants
<1>4. ~InRoutine
    BY <1>3, Constants DEF InRoutine
<1> QED BY <1>1, <1>3, <1>4

\* A new checker state, in the variables.
LEMMA NewChecker ==
    ASSUME NEW c, NEW s, At(program, c, s, 0), s = Arch(s), SetChecker(c), program' = program
    PROVE  /\ At(program, Checker, Now, 0)' /\ Now' = s
           /\ fs' \in Simulators /\ RingOK(fs'.db)
           /\ lastCommitPC' = c.last /\ lastCommitPC' \in Int
           /\ numMismatches' = c.mismatches /\ numMismatches' \in 0 .. StopAfterMismatch + 1
           /\ status' = c.status /\ status' \in {"running", "finish", "exit", "assert"}
           /\ aregs' = s.regs /\ amem' = s.mem /\ fs'.arch_PC = s.pc
           /\ aregs' \in [Regs -> Vals] /\ amem' \in [Addrs -> Vals]
<1>1. /\ c \in Checkers /\ Linked(program, c.fs, s, 0) /\ c.aregs = s.regs /\ c.amem = s.mem
    BY DEF At
<1>2. /\ fs' = c.fs /\ lastCommitPC' = c.last /\ numMismatches' = c.mismatches
      /\ status' = c.status /\ aregs' = c.aregs /\ amem' = c.amem
    BY DEF SetChecker
<1>3. /\ c.fs \in Simulators /\ RingOK(c.fs.db) /\ c.fs.arch_PC = s.pc
    BY <1>1 DEF Linked
<1>4. /\ c.last \in Int /\ c.mismatches \in 0 .. StopAfterMismatch + 1
      /\ c.status \in {"running", "finish", "exit", "assert"}
      /\ c.aregs \in [Regs -> Vals] /\ c.amem \in [Addrs -> Vals]
      /\ c = [fs |-> c.fs, last |-> c.last, mismatches |-> c.mismatches,
              status |-> c.status, aregs |-> c.aregs, amem |-> c.amem]
    BY <1>1 DEF Checkers
<1>5. Checker' = c
    <2>1. Checker' = [fs |-> fs', last |-> lastCommitPC', mismatches |-> numMismatches',
                      status |-> status', aregs |-> aregs', amem |-> amem']
        BY DEF Checker
    <2> QED BY <1>2, <1>4, <2>1
<1>6. Now' = s
    <2>1. Now' = [pc |-> fs'.arch_PC, regs |-> aregs', mem |-> amem']
        BY DEF Now
    <2>2. s = [pc |-> s.pc, regs |-> s.regs, mem |-> s.mem]
        BY DEF Arch
    <2> QED BY <1>1, <1>2, <1>3, <2>1, <2>2
<1>7. At(program, Checker, Now, 0)'
    BY <1>5, <1>6
<1> QED BY <1>1, <1>2, <1>3, <1>4, <1>6, <1>7

-----------------------------------------------------------------------------
(* The start of a job                                                      *)

\* The loader leaves both sides at the start of the program.
LEMMA InitIInv == Init => IInv /\ fs.arch_PC = TextBase
<1> SUFFICES ASSUME Init PROVE IInv /\ fs.arch_PC = TextBase
    OBVIOUS
<1> DEFINE loaded == [pc |-> TextBase, regs |-> ISA!ZeroRegs, mem |-> InitMem,
                      blocked |-> FALSE, db |-> NewBuffer, arch_PC |-> TextBase]
           base == [pc |-> TextBase, regs |-> ISA!ZeroRegs, mem |-> InitMem]
<1>1. /\ program \in DOMAIN Programs /\ netSim \in NetSims
      /\ fs = run_ahead(loaded) /\ vmem = InitMem
      /\ LOGICAL_REG = ISA!ZeroRegs
      /\ routine = [image |-> ISA!ZeroRegs, target |-> TextBase]
      /\ skip_instructions = InitLen /\ lastCommitPC = -1 /\ numMismatches = 0
      /\ status = "running" /\ dpc = 0
      /\ dregs \in {[r \in Regs |-> v] : v \in Vals}
      /\ stq = << >> /\ aregs = ISA!ZeroRegs /\ amem = InitMem
      /\ ~faulted /\ beyond = 0
    BY DEF Init
<1>2. ISA!ZeroRegs \in [Regs -> Vals] /\ InitMem \in [Addrs -> Vals]
    BY Constants DEF ISA!ZeroRegs, Regs
<1>3. NewBuffer \in Buffers(Entries)
    <2>1. Garbage \in Entries
        <3>1. << >> \in Seq(Operands) /\ <<0, 0>> \in Pairs
            BY Constants DEF Pairs
        <3> QED BY <3>1, Constants DEF Garbage, Entries
    <2>2. 0 \in Slots /\ DEBUG_SIZE - 1 \in Slots /\ 0 \in 0 .. DEBUG_SIZE
        BY Constants DEF Slots
    <2> HIDE DEF Garbage
    <2> QED BY <2>1, <2>2 DEF NewBuffer, Buffers
<1>4. TextBase \in ISA!TextPCs(program) /\ TextBase # ExitPC(program) /\ TextBase \in Int
    BY <1>1, TextOf, Constants
<1>5. loaded \in Simulators
    BY <1>2, <1>3, <1>4 DEF Simulators
<1>6. Good(program, base)
    BY <1>2, <1>4 DEF Good
<1>7. Linked(program, loaded, base, 0)
    <2> DEFINE st == [k \in 0 .. DEBUG_SIZE |-> base]
               f == loaded
    <2>1. f.db.length = 0 /\ RingOK(f.db)
        BY NewBufferIsEmpty
    <2>2. base \in States /\ Ahead(f) = base /\ ~f.blocked /\ f.arch_PC = base.pc /\ f \in Simulators
        BY <1>2, <1>4, <1>5 DEF States, Ahead
    <2> HIDE DEF f, base
    <2>3. st \in [0 .. DEBUG_SIZE -> States] /\ st[0] = base
        BY <2>2, Constants
    <2> HIDE DEF st
    <2>4. Chain(program, f, base, st)
        BY <2>1, <2>2, <2>3 DEF Chain
    <2>5. Stops(program, f, st, 0)
        BY <1>6, <2>1, <2>2 DEF Stops
    <2>6. Linked(program, f, base, 0)
        BY <2>1, <2>2, <2>4, <2>5 DEF Linked
    <2> QED BY <2>6 DEF f
<1>8. /\ Linked(program, fs, base, 0) /\ fs.db.length > 0
    <2> DEFINE f == loaded
    <2>1. Linked(program, f, base, 0) /\ fs = run_ahead(f) /\ 0 \in {0, 1}
        BY <1>1, <1>7
    <2> HIDE DEF f, base
    <2>2. Linked(program, fs, base, 0)
        BY <1>1, <2>1, RunAheadKeeps
    <2>3. fs.blocked \/ fs.db.length = DEBUG_SIZE
        BY <1>1, <2>1, RunAheadKeeps
    <2>4. fs.blocked => fs.db.length > 0
        BY <2>2 DEF Linked, Stops
    <2> QED BY <2>2, <2>3, <2>4, Constants
<1>9. fs \in Simulators /\ RingOK(fs.db) /\ fs.arch_PC = base.pc
    BY <1>8 DEF Linked
<1>10. Typed
    <2>1. dregs \in [Regs -> Vals]
        BY <1>1
    <2>2. stq \in Seq(Stores) /\ Len(stq) <= MaxStq
        BY <1>1, Constants
    <2>3. skip_instructions \in 0 .. InitLen /\ numMismatches \in 0 .. StopAfterMismatch + 1
          /\ netSim \in BOOLEAN /\ -1 \in Int /\ numMismatches <= StopAfterMismatch
        BY <1>1, Constants
    <2> QED BY <1>1, <1>2, <1>9, <2>1, <2>2, <2>3 DEF Typed
<1>11. Synced
    <2>1. Now = base
        BY <1>1, <1>9 DEF Now
    <2>2. /\ Checker \in Checkers /\ Checker.fs = fs /\ Checker.aregs = aregs /\ Checker.amem = amem
        BY <1>1, <1>10 DEF Typed, Checker, Checkers
    <2>3. At(program, Checker, Now, 0)
        BY <1>1, <1>8, <2>1, <2>2 DEF At
    <2>4. lastCommitPC # fs.arch_PC
        BY <1>1, <1>9, Constants
    <2>5. CoreMemory = amem
        BY <1>1, <1>2, OverlaidEmpty DEF CoreMemory
    <2> QED BY <1>1, <2>3, <2>4, <2>5 DEF Synced, Checked
<1>12. InRoutine
    <2>1. Loaded(0, dregs, aregs)
        BY Constants DEF Loaded
    <2>2. dpc \in 0 .. InitLen - 1 /\ skip_instructions = InitLen - dpc
        BY <1>1, Constants
    <2> QED BY <1>1, <1>9, <2>1, <2>2 DEF InRoutine
<1> QED BY <1>1, <1>9, <1>10, <1>11, <1>12 DEF IInv

-----------------------------------------------------------------------------
(* The steps                                                               *)

\* Nothing happens.
LEMMA IInvUnchanged ==
    ASSUME IInv, UNCHANGED vars
    PROVE  IInv'
<1>1. UNCHANGED <<program, netSim, dpc, dregs, stq, fs, lastCommitPC, numMismatches, status,
                  aregs, amem, routine, LOGICAL_REG, vmem, skip_instructions, faulted, beyond,
                  overtaken>>
    BY DEF vars, given, coreVars, checkVars, routineVars, history
<1>2. Typed => Typed'
    BY <1>1 DEF Typed
<1>3. /\ Synced => Synced'
      /\ CalledOnce => CalledOnce'
    BY <1>1 DEF Synced, CalledOnce, Checked, Now, Checker, CoreMemory
<1>4. /\ InRoutine => InRoutine'
      /\ InProgram => InProgram'
    BY <1>1 DEF InRoutine, InProgram
<1> QED BY <1>1, <1>2, <1>3, <1>4 DEF IInv

\* A store leaves the queue.
LEMMA WriteStoreKeeps ==
    ASSUME IInv, WriteStore
    PROVE  IInv'
<1>1. /\ Running /\ stq # << >>
      /\ vmem' = StoreIn(Head(stq), vmem) /\ stq' = Tail(stq)
      /\ UNCHANGED <<program, netSim, dpc, dregs, fs, lastCommitPC, numMismatches, status,
                     aregs, amem, routine, LOGICAL_REG, skip_instructions, faulted, beyond,
                     overtaken>>
    BY DEF WriteStore, given, checkVars, routineVars, history
<1>2. ~faulted /\ beyond \in Nat
    BY <1>1 DEF IInv, Running
<1>3. SUFFICES ASSUME beyond <= 1 PROVE IInv'
    <2>1. ~ (beyond <= 1) => ~ (beyond' <= 1) /\ beyond' # 0 /\ beyond' # 1
        BY <1>1, <1>2
    <2> QED BY <1>1, <1>2, <2>1 DEF IInv
<1>4. Typed
    BY <1>3 DEF IInv
<1>5. stq \in Seq(Stores) /\ vmem \in [Addrs -> Vals] /\ Len(stq) <= MaxStq
    BY <1>4 DEF Typed
<1>6. /\ vmem' \in [Addrs -> Vals] /\ Overlaid(stq', vmem') = Overlaid(stq, vmem)
    BY <1>1, <1>5, OverlaidTail
<1>7. stq' \in Seq(Stores) /\ Len(stq') <= MaxStq
    BY <1>1, <1>5, Constants
<1>8. Typed'
    BY <1>1, <1>4, <1>6, <1>7 DEF Typed
<1>9. CoreMemory' = CoreMemory
    BY <1>6 DEF CoreMemory
<1>10. /\ Synced => Synced'
       /\ CalledOnce => CalledOnce'
    BY <1>1, <1>9 DEF Synced, CalledOnce, Checked, Now, Checker
<1>11. /\ InRoutine => InRoutine'
       /\ InProgram => InProgram'
    BY <1>1 DEF InRoutine, InProgram
<1> QED BY <1>1, <1>2, <1>8, <1>10, <1>11 DEF IInv

\* The program ends.
LEMMA ExitKeeps ==
    ASSUME IInv, Running, status' = "finish",
           UNCHANGED <<fs, lastCommitPC, numMismatches, aregs, amem, vmem, routineVars,
                       skip_instructions, dpc, dregs, beyond, overtaken, given, stq, faulted>>
    PROVE  IInv'
<1>1. UNCHANGED <<program, netSim, dpc, dregs, stq, fs, lastCommitPC, numMismatches,
                  aregs, amem, routine, LOGICAL_REG, vmem, skip_instructions, faulted, beyond,
                  overtaken>>
    BY DEF given, routineVars
<1>2. ~faulted /\ beyond \in Nat
    BY DEF IInv, Running
<1>3. SUFFICES ASSUME beyond <= 1 PROVE IInv'
    <2>1. ~ (beyond <= 1) => ~ (beyond' <= 1) /\ beyond' # 0 /\ beyond' # 1
        BY <1>1, <1>2
    <2> QED BY <1>1, <1>2, <2>1 DEF IInv
<1>4. Typed
    BY <1>3 DEF IInv
<1>5. Typed'
    BY <1>1, <1>4 DEF Typed
<1>6. Checked => Checked'
    <2> SUFFICES ASSUME Checked PROVE Checked'
        OBVIOUS
    <2>1. Checker' \in Checkers /\ Checker'.fs = Checker.fs /\ Checker'.aregs = Checker.aregs
          /\ Checker'.amem = Checker.amem
        BY <1>1, <1>4 DEF Typed, Checker, Checkers
    <2>2. Now' = Now
        BY <1>1 DEF Now
    <2>3. At(program, Checker', Now, 0)
        BY <2>1 DEF Checked, At
    <2>4. At(program, Checker, Now, 0)'
        BY <1>1, <2>2, <2>3
    <2> QED BY <1>1, <2>4 DEF Checked
<1>7. CoreMemory' = CoreMemory
    BY <1>1 DEF CoreMemory
<1>8. /\ Synced => Synced'
      /\ CalledOnce => CalledOnce'
    BY <1>1, <1>6, <1>7 DEF Synced, CalledOnce
<1>9. /\ InRoutine => InRoutine'
      /\ InProgram => InProgram'
    BY <1>1 DEF InRoutine, InProgram
<1> QED BY <1>1, <1>2, <1>5, <1>8, <1>9 DEF IInv

\* The core commits instructions of the routine.
LEMMA CommitRoutine ==
    ASSUME IInv, beyond = 0, NEW n \in 1 .. COMMIT_WIDTH, Commit(n), InRoutine
    PROVE  IInv' /\ UNCHANGED <<program, fs, aregs, amem>>
<1> DEFINE at == Group(n)
           lanes == at[n].lanes
<1>1. /\ Running /\ IsGroup(at, n)
      /\ dpc' = at[n].pc /\ dregs' = at[n].regs
      /\ stq' = stq \o at[n].stores
      /\ VERIFY_INSTRUCTIONS(lanes)
      /\ beyond' = 0
      /\ UNCHANGED <<program, netSim, routine, LOGICAL_REG, vmem, faulted, overtaken>>
    BY DEF Commit, StepOn, given, routineVars
<1>2. Typed /\ Synced /\ ~faulted
    BY <1>1 DEF IInv, Running
<1>3. /\ dpc \in 0 .. InitLen - 1 /\ skip_instructions = InitLen - dpc
      /\ routine = [image |-> aregs, target |-> fs.arch_PC]
      /\ Loaded(dpc, dregs, aregs)
      /\ dregs \in [Regs -> Vals] /\ aregs \in [Regs -> Vals]
    BY <1>2 DEF InRoutine, Typed
<1>4. routine.image = aregs /\ routine.target = fs.arch_PC
    BY <1>3
<1>5. n \in Nat \ {0} /\ InitLen \in Nat /\ dpc \in Nat /\ dpc <= InitLen - 1
    BY <1>3, Constants
<1>6. /\ at[n].stores = << >> /\ Len(lanes) = n
      /\ at[n].regs \in [Regs -> Vals] /\ dpc + n <= InitLen
      /\ dpc + n < InitLen => at[n].pc = dpc + n /\ Loaded(dpc + n, at[n].regs, aregs)
      /\ dpc + n = InitLen => at[n].pc = routine.target /\ at[n].regs = aregs
    <2>1. at = Group(n)
        OBVIOUS
    <2> HIDE DEF at
    <2>2. /\ dpc \in 0 .. InitLen - 1 /\ dregs \in [Regs -> Vals] /\ aregs \in [Regs -> Vals]
          /\ routine.image = aregs /\ Loaded(dpc, dregs, aregs)
          /\ n \in Nat \ {0} /\ at = Group(n) /\ IsGroup(at, n)
        BY <1>1, <1>3, <1>4, <1>5, <2>1
    <2>3. /\ at[n].stores = << >> /\ Len(at[n].lanes) = n
          /\ at[n].regs \in [Regs -> Vals] /\ dpc + n <= InitLen
          /\ dpc + n < InitLen => at[n].pc = dpc + n /\ Loaded(dpc + n, at[n].regs, aregs)
          /\ dpc + n = InitLen => at[n].pc = routine.target /\ at[n].regs = aregs
        BY <2>2, RoutineGroup, Zenon
    <2> QED BY <2>3, Zenon
<1> HIDE DEF at
<1>7. /\ skip_instructions' = skip_instructions - n
      /\ UNCHANGED <<fs, lastCommitPC, numMismatches, status, aregs, amem>>
    <2>1. skip_instructions # 0
        BY <1>3, <1>5
    <2> QED BY <1>1, <1>6, <2>1 DEF VERIFY_INSTRUCTIONS, checkVars
<1>8. stq' = stq
    <2>1. stq \in Seq(Stores)
        BY <1>2 DEF Typed
    <2> QED BY <1>1, <1>6, <2>1
<1>9. skip_instructions' = InitLen - (dpc + n) /\ skip_instructions' \in 0 .. InitLen
    BY <1>3, <1>5, <1>6, <1>7
<1>10. Typed'
    BY <1>1, <1>2, <1>6, <1>7, <1>8, <1>9 DEF Typed
<1>11. Synced'
    BY <1>1, <1>2, <1>7, <1>8 DEF Synced, Checked, Now, Checker, CoreMemory
<1>12. InRoutine' \/ InProgram'
    <2>1. CASE dpc + n < InitLen
        <3>1. dpc' = dpc + n /\ dpc' \in 0 .. InitLen - 1 /\ Loaded(dpc', dregs', aregs')
            BY <1>1, <1>5, <1>6, <1>7, <2>1
        <3> QED BY <1>1, <1>3, <1>7, <1>9, <3>1 DEF InRoutine
    <2>2. CASE dpc + n = InitLen
        <3>1. skip_instructions' = 0
            BY <1>5, <1>9, <2>2
        <3> QED BY <1>1, <1>4, <1>6, <1>7, <2>2, <3>1 DEF InProgram
    <2> QED BY <1>5, <1>6, <2>1, <2>2
<1> QED BY <1>1, <1>2, <1>7, <1>10, <1>11, <1>12 DEF IInv

\* The core commits instructions of the program.
LEMMA CommitProgram ==
    ASSUME IInv, beyond = 0, NEW n \in 1 .. COMMIT_WIDTH, Commit(n), InProgram
    PROVE  IInv' /\ ISA!Steps(n)
<1> DEFINE at == Group(n)
           lanes == at[n].lanes
           c == Verified(lanes)
           s == Arch(at[n])
<1>1. /\ Running /\ IsGroup(at, n)
      /\ dpc' = at[n].pc /\ dregs' = at[n].regs
      /\ stq' = stq \o at[n].stores
      /\ VERIFY_INSTRUCTIONS(lanes)
      /\ beyond' = 0
      /\ UNCHANGED <<program, netSim, routine, LOGICAL_REG, vmem, faulted, overtaken>>
    BY DEF Commit, StepOn, given, routineVars
<1>2. Typed /\ Synced /\ ~faulted /\ status = "running"
    BY <1>1 DEF IInv, Running
<1>3. /\ program \in DOMAIN Programs /\ netSim \in BOOLEAN
      /\ stq \in Seq(Stores) /\ vmem \in [Addrs -> Vals] /\ dregs \in [Regs -> Vals]
    BY <1>2 DEF Typed
<1>4. [pc |-> dpc, regs |-> dregs, mem |-> CoreMemory] = Now
    BY <1>2 DEF InProgram, Synced, Now
<1>5. n \in Nat
    BY Constants
<1>6. /\ at[0] = Start
      /\ \A k \in 0 .. n : /\ InGroup(program, at[k], stq, vmem)
                           /\ Following(program, Verified(at[k].lanes), Arch(at[k]))
      /\ \A k \in 0 .. n - 1 : /\ InText(at[k].pc) /\ Op(program, at[k].pc) # "trap"
                               /\ Arch(at[k + 1]) = ISA!Exec(program, Arch(at[k]))
    <2>1. Following(program, Checker, [pc |-> dpc, regs |-> dregs, mem |-> CoreMemory])
        BY <1>2, <1>4, RunningFollows
    <2>2. at = Group(n)
        OBVIOUS
    <2> HIDE DEF at
    <2> QED BY <1>1, <1>3, <1>5, <2>1, <2>2, ProgramGroup
<1> HIDE DEF at
<1>7. n \in 0 .. n
    BY <1>5
<1>8. /\ InGroup(program, at[n], stq, vmem) /\ Following(program, c, s)
    BY <1>6, <1>7
<1>9. SetChecker(c) /\ skip_instructions' = skip_instructions /\ skip_instructions = 0
    BY <1>1 DEF VERIFY_INSTRUCTIONS, InProgram
<1>10. s.pc = at[n].pc /\ s.regs = at[n].regs /\ s.mem = at[n].mem /\ s = Arch(s)
    BY DEF Arch
<1> HIDE DEF c, s
<1>11. /\ At(program, Checker, Now, 0)' /\ Now' = s
       /\ fs' \in Simulators /\ RingOK(fs'.db)
       /\ lastCommitPC' = c.last /\ lastCommitPC' \in Int
       /\ numMismatches' = c.mismatches /\ numMismatches' \in 0 .. StopAfterMismatch + 1
       /\ status' = c.status /\ status' \in {"running", "finish", "exit", "assert"}
       /\ aregs' = s.regs /\ amem' = s.mem /\ fs'.arch_PC = s.pc
       /\ aregs' \in [Regs -> Vals] /\ amem' \in [Addrs -> Vals]
    BY <1>1, <1>8, <1>9, <1>10, NewChecker DEF Following
<1>12. /\ Overlaid(stq', vmem') = at[n].mem /\ stq' \in Seq(Stores) /\ Len(stq') <= MaxStq
       /\ dregs' \in [Regs -> Vals]
    <2>1. /\ at[n].stores \in Seq(Stores) /\ at[n].regs \in [Regs -> Vals]
          /\ Overlaid(stq \o at[n].stores, vmem) = at[n].mem
        BY <1>8 DEF InGroup
    <2>2. Len(stq) + Len(at[n].stores) <= MaxStq
        BY <1>1 DEF IsGroup
    <2>3. Len(stq \o at[n].stores) = Len(stq) + Len(at[n].stores)
        BY <1>3, <2>1
    <2> QED BY <1>1, <1>3, <2>1, <2>2, <2>3
<1>13. numMismatches' = 0 /\ status' = "running" /\ lastCommitPC' # fs'.arch_PC
    BY <1>8, <1>11 DEF Following, Right
<1>14. Synced' /\ Typed'
    <2>1. CoreMemory' = amem'
        BY <1>10, <1>11, <1>12 DEF CoreMemory
    <2>2. numMismatches' <= StopAfterMismatch
        BY <1>13, Constants
    <2>3. Typed'
        BY <1>1, <1>2, <1>9, <1>11, <1>12, <2>2 DEF Typed
    <2> QED BY <1>11, <1>13, <2>1, <2>3 DEF Synced, Checked
<1>15. InProgram'
    BY <1>1, <1>9, <1>10, <1>11 DEF InProgram
<1>16. IInv'
    BY <1>1, <1>2, <1>14, <1>15 DEF IInv
<1>17. ISA!Steps(n)
    <2> DEFINE h == [k \in 0 .. n |-> Arch(at[k])]
    <2>1. ASSUME NEW k \in 0 .. n
          PROVE  h[k] = IF k = 0 THEN [pc |-> fs.arch_PC, regs |-> aregs, mem |-> amem]
                        ELSE ISA!Exec(program, h[k - 1])
        <3>1. CASE k = 0
            <4>1. Arch(Start) = [pc |-> dpc, regs |-> dregs, mem |-> CoreMemory]
                BY DEF Arch, Start
            <4>2. Now = [pc |-> fs.arch_PC, regs |-> aregs, mem |-> amem]
                BY DEF Now
            <4> QED BY <1>4, <1>6, <3>1, <4>1, <4>2
        <3>2. CASE k # 0
            <4>1. k - 1 \in 0 .. n - 1 /\ k - 1 \in 0 .. n /\ (k - 1) + 1 = k
                BY <1>5, <3>2
            <4> QED BY <1>6, <3>2, <4>1
        <3> QED BY <3>1, <3>2
    <2>2. h = [k \in 0 .. n |-> h[k]]
        OBVIOUS
    <2>3. h[n] = s
        BY <1>7 DEF s
    <2>4. ASSUME NEW k \in 0 .. n - 1
          PROVE  InText(h[k].pc) /\ Op(program, h[k].pc) # "trap"
        <3>1. k \in 0 .. n
            BY <1>5
        <3>2. h[k].pc = at[k].pc
            BY <3>1 DEF Arch
        <3> QED BY <1>6, <3>2
    <2> HIDE DEF h
    <2>5. h = [k \in 0 .. n |-> IF k = 0 THEN [pc |-> fs.arch_PC, regs |-> aregs, mem |-> amem]
                                ELSE ISA!Exec(program, h[k - 1])]
        BY <2>1, <2>2
    <2> QED BY <1>1, <1>5, <1>11, <2>3, <2>4, <2>5, StepsRounds
<1> QED BY <1>16, <1>17

\* What can be wrong with the lane of an instruction is seen.
LEMMA WrongSeen ==
    ASSUME NEW s, NEW rdst, NEW x, x.pc = s.pc, ~x.fission, Len(rdst) \in {0, 1},
           Len(rdst) = 1 => x.dest = rdst[1].n /\ x.value = rdst[1].value,
           Len(rdst) = 0 => x.dest = 0,
           program \in DOMAIN Programs, s.pc \in Int, s.pc # lastCommitPC,
           NEW wrong \in Wrong(x)
    PROVE  /\ wrong.pc \in Int /\ wrong.pc # lastCommitPC /\ ~wrong.fission
           /\ \/ wrong.pc # s.pc
              \/ Len(rdst) > 0 /\ (wrong.dest # rdst[1].n \/ wrong.value # rdst[1].value)
<1> DEFINE A == [pc : {p \in ISA!TextPCs(program) : p \notin {x.pc, lastCommitPC}},
                 dest : {x.dest}, value : {x.value}, fission : {FALSE}]
           B == {Lane(x.pc, d, x.value, FALSE) : d \in Regs \ {x.dest}}
           C == {Lane(x.pc, x.dest, v, FALSE) : v \in Vals \ {x.value}}
<1>1. wrong \in A \/ (x.dest # 0 /\ (wrong \in B \/ wrong \in C))
    BY DEF Wrong
<1>2. CASE wrong \in A
    <2>1. wrong.pc \in ISA!TextPCs(program) /\ wrong.pc # x.pc /\ wrong.pc # lastCommitPC
          /\ ~wrong.fission
        BY <1>2
    <2> QED BY <2>1, TextOf, Constants
<1>3. CASE x.dest # 0 /\ wrong \in B
    <2>1. PICK d \in Regs \ {x.dest} : wrong = Lane(x.pc, d, x.value, FALSE)
        BY <1>3
    <2>2. wrong.pc = x.pc /\ wrong.dest = d /\ ~wrong.fission
        BY <2>1 DEF Lane
    <2>3. Len(rdst) = 1 /\ Len(rdst) > 0
        BY <1>3
    <2> QED BY <2>1, <2>2, <2>3
<1>4. CASE x.dest # 0 /\ wrong \in C
    <2>1. PICK v \in Vals \ {x.value} : wrong = Lane(x.pc, x.dest, v, FALSE)
        BY <1>4
    <2>2. wrong.pc = x.pc /\ wrong.value = v /\ ~wrong.fission
        BY <2>1 DEF Lane
    <2>3. Len(rdst) = 1 /\ Len(rdst) > 0
        BY <1>4
    <2> QED BY <2>1, <2>2, <2>3
<1> QED BY <1>1, <1>2, <1>3, <1>4

\* The core commits an instruction of the program wrongly: one message.
LEMMA CommitFaultyKeeps ==
    ASSUME IInv, beyond = 0, CommitFaulty
    PROVE  IInv' /\ ISA!Steps(1)
<1> DEFINE lanes == Group(1)[1].lanes
           s == Now
           next == ISA!Exec(program, s)
           rdst == ISA!Results(ISA!InstAt(program, dpc), aregs, amem)
<1>1. /\ Running /\ InText(dpc) /\ CanRetire(dpc) /\ Len(lanes) = 1
      /\ faulted' = TRUE /\ beyond' = 0
      /\ UNCHANGED <<program, netSim, dpc, dregs, stq, routine, LOGICAL_REG, vmem, overtaken>>
    BY DEF CommitFaulty, StepOn, given, coreVars, routineVars
<1>2. PICK wrong \in Wrong(lanes[1]) : VERIFY_INSTRUCTIONS(<<wrong>>)
    BY DEF CommitFaulty
<1>3. Typed /\ Synced /\ ~faulted /\ status = "running" /\ (InRoutine \/ InProgram)
    BY <1>1 DEF IInv, Running
<1>4. /\ program \in DOMAIN Programs /\ netSim \in BOOLEAN
      /\ aregs \in [Regs -> Vals] /\ amem \in [Addrs -> Vals] /\ lastCommitPC \in Int
    BY <1>3 DEF Typed
<1>5. InProgram /\ dpc \in ISA!TextPCs(program) /\ dpc \in Int /\ ~ (dpc < InitLen)
    BY <1>1, AtProgram DEF InText
<1>6. skip_instructions = 0 /\ dpc = fs.arch_PC /\ dregs = aregs
    BY <1>5 DEF InProgram
<1>7. s.pc = dpc /\ s.regs = aregs /\ s.mem = amem /\ s = Arch(s)
    BY <1>6 DEF Now, Arch
<1>8. Op(program, s.pc) # "trap"
    BY <1>1, <1>5, <1>7 DEF CanRetire, IsTrap, Op
<1>9. Good(program, s) /\ Following(program, Checker, s)
    BY <1>3, NowGood, RunningFollows
<1>10. s.pc # lastCommitPC
    BY <1>3, <1>6, <1>7 DEF Synced
<1>11. rdst \in Seq(Operands) /\ Len(rdst) \in {0, 1, 2}
    BY <1>4, <1>5, TextOf, ResultsTyped
<1>12. lanes = LanesOf(dpc, rdst)
    <2>1. Group(1)[1] = Retire(Start)
        <3>1. 1 \in Nat /\ 0 \in 0 .. 1 /\ 1 \in 0 .. 1 /\ 1 # 0 /\ 1 - 1 = 0
            OBVIOUS
        <3>2. Group(1) = [k \in 0 .. 1 |-> IF k = 0 THEN Start ELSE Retire(Group(1)[k - 1])]
            BY <3>1, GroupRounds
        <3> QED BY <3>1, <3>2
    <2>2. Start.pc = dpc /\ Start.regs = aregs /\ Start.mem = amem /\ Start.lanes = << >>
        BY <1>3, <1>6 DEF Start, Synced
    <2>3. Retire(Start) = RetireProgram(Start)
        BY <1>5, <2>2 DEF Retire
    <2>4. RetireProgram(Start).lanes = << >> \o LanesOf(dpc, rdst)
        BY <2>2 DEF RetireProgram
    <2>5. LanesOf(dpc, rdst) \in Seq(Lanes)
        BY <1>5, <1>11, LanesTyped
    <2> HIDE DEF rdst
    <2> QED BY <2>1, <2>3, <2>4, <2>5
<1> HIDE DEF lanes, rdst
<1>13. Len(rdst) \in {0, 1}
    <2>1. CASE Len(rdst) = 2
        <3>1. PICK x, y \in Lanes : LanesOf(dpc, rdst) = <<x, y>>
            BY <1>5, <1>11, <2>1, TwoLanes
        <3>2. Len(<<x, y>>) = 2
            OBVIOUS
        <3> QED BY <1>1, <1>12, <3>1, <3>2
    <2> QED BY <1>11, <2>1
<1>14. PICK x \in Lanes : /\ LanesOf(dpc, rdst) = <<x>> /\ x.pc = dpc /\ ~x.fission
                          /\ Len(rdst) = 1 => x.dest = rdst[1].n /\ x.value = rdst[1].value
                          /\ Len(rdst) = 0 => x.dest = 0
    BY <1>5, <1>11, <1>13, OneLane
<1>15. lanes[1] = x
    BY <1>12, <1>14
<1>16. /\ wrong.pc \in Int /\ wrong.pc # lastCommitPC /\ ~wrong.fission
       /\ \/ wrong.pc # s.pc
          \/ Len(rdst) > 0 /\ (wrong.dest # rdst[1].n \/ wrong.value # rdst[1].value)
    <2>1. wrong \in Wrong(x) /\ x.pc = s.pc /\ s.pc \in Int
        BY <1>2, <1>5, <1>7, <1>14, <1>15
    <2> HIDE DEF s
    <2> QED BY <1>4, <1>10, <1>13, <1>14, <2>1, WrongSeen
<1>17. \A e \in Entries : Records(program, e, s) => e.a_pc = s.pc /\ e.a_rdst = rdst
    BY <1>7 DEF Records, rdst
<1> DEFINE c == Verified(<<wrong>>)
           l == NetSimLane(<<wrong>>, 1)
<1>18. c = VerifyOne(Checker, <<wrong>>, 1)
    <2>1. /\ << >> \in Seq({wrong}) /\ wrong \in {wrong}
          /\ Append(<< >>, wrong) = <<wrong>> /\ Len(<< >>) + 1 = 1
        OBVIOUS
    <2>2. Verified(Append(<< >>, wrong))
            = VerifyOne(Verified(<< >>), Append(<< >>, wrong), Len(<< >>) + 1)
        BY <2>1, VerifiedAppend
    <2> QED BY <2>1, <2>2, VerifiedNone
<1>19. At(program, Checker, s, 0) /\ Right(Checker) /\ Checker.last = lastCommitPC
    BY <1>9 DEF Following, Checker
<1>20. <<wrong>>[1] = wrong
    OBVIOUS
<1> HIDE DEF c, s, next
<1>21. Told(program, c, s, wrong.pc, 1)
    <2>1. CASE ~netSim
        <3>1. c = VerifyLane(Checker, wrong)
            BY <1>18, <1>20, <2>1 DEF VerifyOne
        <3>2. \A e \in Entries : Records(program, e, s) => 1 = (IF Differs(wrong, e) THEN 1 ELSE 0)
            BY <1>16, <1>17 DEF Differs
        <3> QED BY <1>4, <1>8, <1>16, <1>19, <3>1, <3>2, LaneVerified
    <2>2. CASE netSim
        <3>1. c = VerifyNetSimLane(Checker, l)
            BY <1>18, <2>2 DEF VerifyOne
        <3>2. /\ l.pc = wrong.pc /\ l.dest = wrong.dest /\ l.value = wrong.value
              /\ ~l.fission /\ ~l.later /\ ~l.second
            <4> DEFINE w == <<wrong>>
            <4>1. w[1] = wrong /\ ~w[1].fission
                BY <1>16, <1>20
            <4>2. l = NetSimLane(w, 1)
                OBVIOUS
            <4> HIDE DEF w, l
            <4>3. l.pc = w[1].pc /\ l.dest = w[1].dest /\ l.value = w[1].value
                BY <4>2 DEF NetSimLane
            <4>4. l.fission = w[1].fission
                BY <4>2 DEF NetSimLane
            <4>6. l.later <=> 1 > 1
                BY <4>2 DEF NetSimLane
            <4>5. l.second <=> (1 > 1 /\ w[1 - 1].fission)
                BY <4>2 DEF NetSimLane
            <4> QED BY <4>1, <4>3, <4>4, <4>5, <4>6
        <3> HIDE DEF l
        <3>3. \A e \in Entries : Records(program, e, s) => 1 = (IF NetSimDiffers(l, e) THEN 1 ELSE 0)
            BY <1>16, <1>17, <3>2 DEF NetSimDiffers
        <3>4. Told(program, c, s, l.pc, 1)
            BY <1>4, <1>8, <1>16, <1>19, <2>2, <3>1, <3>2, <3>3, NetSimLaneVerified
        <3> QED BY <3>2, <3>4
    <2> QED BY <1>4, <2>1, <2>2
<1>22. /\ At(program, c, next, 0) /\ c.mismatches = 1
       /\ ~netSim /\ c.status = "running" => c.mismatches <= StopAfterMismatch
    BY <1>21 DEF Told, next
<1>23. SetChecker(c) /\ skip_instructions' = skip_instructions
    BY <1>2, <1>6 DEF VERIFY_INSTRUCTIONS, c
<1>24. next = Arch(next)
    BY DEF next, Arch, ISA!Exec
<1>25. /\ fs' \in Simulators /\ RingOK(fs'.db)
       /\ lastCommitPC' \in Int
       /\ numMismatches' = c.mismatches /\ numMismatches' \in 0 .. StopAfterMismatch + 1
       /\ status' = c.status /\ status' \in {"running", "finish", "exit", "assert"}
       /\ aregs' = next.regs /\ amem' = next.mem /\ fs'.arch_PC = next.pc
       /\ aregs' \in [Regs -> Vals] /\ amem' \in [Addrs -> Vals]
    BY <1>1, <1>22, <1>23, <1>24, NewChecker
<1>26. Typed'
    <2>1. ~netSim' /\ status' = "running" => numMismatches' <= StopAfterMismatch
        BY <1>1, <1>22, <1>25
    <2> QED BY <1>1, <1>3, <1>23, <1>25, <2>1 DEF Typed
<1>27. IInv'
    BY <1>1, <1>22, <1>25, <1>26 DEF IInv
<1>28. ISA!Steps(1)
    <2> DEFINE h == [k \in 0 .. 1 |-> IF k = 0 THEN s ELSE next]
    <2>1. s = [pc |-> fs.arch_PC, regs |-> aregs, mem |-> amem]
        BY DEF s, Now
    <2>2. h[0] = s /\ h[1] = next /\ 1 \in Nat
        OBVIOUS
    <2>3. h = [k \in 0 .. 1 |-> IF k = 0 THEN [pc |-> fs.arch_PC, regs |-> aregs, mem |-> amem]
                                ELSE ISA!Exec(program, h[k - 1])]
        <3>1. ASSUME NEW k \in 0 .. 1, k # 0 PROVE k = 1 /\ k - 1 = 0
            BY <3>1
        <3>2. \A k \in 0 .. 1 : k # 0 => next = ISA!Exec(program, h[k - 1])
            BY <2>2, <3>1 DEF next
        <3> QED BY <2>1, <3>2
    <2>4. \A k \in 0 .. 1 - 1 : InText(h[k].pc) /\ Op(program, h[k].pc) # "trap"
        <3>1. \A k \in 0 .. 1 - 1 : k = 0
            OBVIOUS
        <3> HIDE DEF h
        <3> QED BY <1>1, <1>7, <1>8, <2>2, <3>1
    <2> HIDE DEF h
    <2> QED BY <1>1, <1>25, <2>2, <2>3, <2>4, StepsRounds
<1> QED BY <1>27, <1>28

-----------------------------------------------------------------------------
(* A system call                                                           *)

\* A functional simulator whose next entry is a system call waits for it.
LEMMA CallWindow ==
    ASSUME NEW prog \in DOMAIN Programs, NEW f, NEW s, Linked(prog, f, s, 0), f.db.length > 0,
           Op(prog, s.pc) = "trap"
    PROVE  /\ f \in Simulators /\ RingOK(f.db) /\ f.arch_PC = s.pc
           /\ f.blocked /\ f.db.length = 1
           /\ Good(prog, s) /\ Records(prog, Window(f.db)[1], s)
           /\ f.pc = s.pc + 1 /\ f.regs = s.regs /\ f.mem = s.mem
<1>1. /\ f \in Simulators /\ RingOK(f.db) /\ f.arch_PC = s.pc
    BY DEF Linked
<1>2. PICK st : Chain(prog, f, s, st) /\ Stops(prog, f, st, 0)
    BY DEF Linked
<1>3. f.db.length \in Nat
    BY <1>1, LengthOf
<1>4. 1 \in 1 .. f.db.length /\ 1 - 1 = 0
    BY <1>3
<1>5. st[1 - 1] = s
    BY <1>2, <1>4 DEF Chain
<1>6. /\ Good(prog, s) /\ Records(prog, Window(f.db)[1], s)
      /\ st[1] = ISA!Exec(prog, s)
    BY <1>2, <1>4, <1>5 DEF Chain
<1>7. f.db.length = 1 /\ f.blocked
    <2>1. (1 = 1 /\ 0 = 1) \/ (1 = f.db.length /\ f.blocked)
        BY <1>2, <1>4, <1>5 DEF Stops
    <2> QED BY <2>1
<1>8. Ahead(f) = ISA!Exec(prog, s)
    BY <1>2, <1>6, <1>7 DEF Chain
<1>9. ISA!Exec(prog, s).pc = s.pc + 1 /\ ISA!Exec(prog, s).regs = s.regs
      /\ ISA!Exec(prog, s).mem = s.mem
    BY <1>6, ExecTyped
<1>10. f.pc = s.pc + 1 /\ f.regs = s.regs /\ f.mem = s.mem
    BY <1>8, <1>9 DEF Ahead
<1> QED BY <1>1, <1>6, <1>7, <1>10

\* A call in state s is answered with v and w; h is the simulator that goes on
\* from there, and t what the answer leaves for the call to be taken from.
Answered(prog, s, v, w, called, h, t) ==
    /\ Linked(prog, h, t, 1) /\ h.db.length > 0
    /\ called.regs = [s.regs EXCEPT ![SysReg] = v]
    /\ called.mem = [s.mem EXCEPT ![CallBuf] = w]
    /\ called.regs \in [Regs -> Vals] /\ called.mem \in [Addrs -> Vals]

\* Once a call that is not the last is answered the simulator may go on.
LEMMA CallAnswered ==
    ASSUME NEW prog \in DOMAIN Programs, NEW f, NEW s, Linked(prog, f, s, 0), f.db.length > 0,
           Op(prog, s.pc) = "trap", s.regs[SysReg] # ExitCode,
           NEW v \in Vals, NEW w \in Vals,
           NEW called, called = trap_now(f, v, w),
           NEW h, h = [called EXCEPT !.blocked = FALSE],
           NEW t, t = [pc |-> s.pc, regs |-> called.regs, mem |-> called.mem]
    PROVE  Answered(prog, s, v, w, called, h, t)
<1> DEFINE r == [s.regs EXCEPT ![SysReg] = v]
           m == [s.mem EXCEPT ![CallBuf] = w]
<1>1. /\ f \in Simulators /\ RingOK(f.db) /\ f.arch_PC = s.pc
      /\ f.blocked /\ f.db.length = 1
      /\ Good(prog, s) /\ Records(prog, Window(f.db)[1], s)
      /\ f.pc = s.pc + 1 /\ f.regs = s.regs /\ f.mem = s.mem
    BY CallWindow
<1>2. /\ s.pc \in ISA!TextPCs(prog) /\ s.regs \in [Regs -> Vals] /\ s.mem \in [Addrs -> Vals]
    BY <1>1 DEF Good
<1>3. r \in [Regs -> Vals] /\ m \in [Addrs -> Vals]
    BY <1>2, Constants
<1>4. called = [f EXCEPT !.regs = r, !.mem = m]
    BY <1>1 DEF trap_now
<1> HIDE DEF r, m
<1>5. /\ called.pc = f.pc /\ called.regs = r /\ called.mem = m /\ called.db = f.db
      /\ called.arch_PC = f.arch_PC /\ called \in Simulators
    BY <1>1, <1>3, <1>4 DEF Simulators
<1>6. /\ h.pc = f.pc /\ h.regs = r /\ h.mem = m /\ h.db = f.db
      /\ h.arch_PC = f.arch_PC /\ ~h.blocked /\ h \in Simulators
    BY <1>5 DEF Simulators
<1>7. t.pc = s.pc /\ t.regs = r /\ t.mem = m
    BY <1>5
<1>8. s.pc \in TextBase .. ExitPC(prog) - 1 /\ s.pc + 1 \in ISA!TextPCs(prog)
      /\ s.pc + 1 # ExitPC(prog) /\ s.pc \in Int /\ ExitPC(prog) \in Nat
    <2> DEFINE p == s.pc
               x == ExitPC(prog)
    <2>1. p # x
        BY <1>1 DEF Good
    <2>2. p # x - 1
        BY EndOf DEF Op
    <2>3. ISA!TextPCs(prog) = TextBase .. x /\ x \in Nat
        BY TextOf
    <2>4. p \in TextBase .. x /\ TextBase \in Nat
        BY <1>2, <2>3, Constants
    <2> HIDE DEF p, x
    <2>5. /\ p \in TextBase .. x - 1 /\ p + 1 \in TextBase .. x /\ p + 1 # x /\ p \in Int
        BY <2>1, <2>2, <2>3, <2>4
    <2> QED BY <2>3, <2>5 DEF p, x
<1>9. Good(prog, t)
    BY <1>2, <1>3, <1>7, <1>8 DEF Good
<1>10. /\ ISA!Exec(prog, t).pc = t.pc + 1 /\ ISA!Exec(prog, t).regs = t.regs
       /\ ISA!Exec(prog, t).mem = t.mem
       /\ ISA!Exec(prog, s).pc = s.pc + 1
    <2>1. Op(prog, t.pc) = "trap"
        BY <1>7
    <2>2. ISA!Exec(prog, s).pc = s.pc + 1
        BY <1>1, ExecTyped
    <2>3. ISA!Exec(prog, t).pc = t.pc + 1
        BY <1>9, <2>1, ExecTyped
    <2>4. ISA!Exec(prog, t).regs = t.regs /\ ISA!Exec(prog, t).mem = t.mem
        BY <1>9, <2>1, ExecTyped
    <2> QED BY <2>2, <2>3, <2>4
<1>11. Ahead(h) = ISA!Exec(prog, t)
    <2>1. ISA!Exec(prog, t) = [pc |-> ISA!Exec(prog, t).pc, regs |-> ISA!Exec(prog, t).regs,
                               mem |-> ISA!Exec(prog, t).mem]
        BY DEF ISA!Exec
    <2> QED BY <1>1, <1>6, <1>7, <1>10, <2>1 DEF Ahead
<1>12. Records(prog, Window(f.db)[1], t)
    <2> DEFINE i == ISA!InstAt(prog, s.pc)
               e == Window(f.db)[1]
    <2>1. i.op = "trap" /\ ISA!InstAt(prog, t.pc) = i
        BY <1>7 DEF Op
    <2>2. e.a_pc = s.pc /\ e.a_next_pc = ISA!Exec(prog, s).pc /\ e.a_inst = i
          /\ e.a_rdst = ISA!Results(i, s.regs, s.mem)
        BY <1>1 DEF Records
    <2>3. ISA!Results(i, s.regs, s.mem) = << >> /\ ISA!Results(i, t.regs, t.mem) = << >>
        BY <2>1 DEF ISA!Results
    <2>4. e.a_next_pc = ISA!Exec(prog, t).pc
        BY <1>7, <1>10, <2>2
    <2> HIDE DEF i, e
    <2>5. Records(prog, e, t)
        BY <1>7, <2>1, <2>2, <2>3, <2>4 DEF Records
    <2> QED BY <2>5 DEF e
<1> DEFINE st == [k \in 0 .. DEBUG_SIZE |-> IF k = 0 THEN t ELSE Ahead(h)]
<1>13. Chain(prog, h, t, st)
    <2>1. t \in States /\ Ahead(h) \in States
        BY <1>1, <1>2, <1>3, <1>5, <1>6, <1>7, <1>8 DEF States, Ahead
    <2>2. 0 \in 0 .. DEBUG_SIZE /\ 1 \in 0 .. DEBUG_SIZE
        BY Constants
    <2>3. st \in [0 .. DEBUG_SIZE -> States] /\ st[0] = t /\ st[1] = Ahead(h)
        BY <2>1, <2>2
    <2>4. \A k \in 1 .. h.db.length : k = 1 /\ k - 1 = 0
        BY <1>1, <1>6
    <2> HIDE DEF st
    <2> QED BY <1>1, <1>6, <1>9, <1>11, <1>12, <2>3, <2>4 DEF Chain
<1>14. Stops(prog, h, st, 1)
    <2>1. \A k \in 1 .. h.db.length : k = 1
        BY <1>1, <1>6
    <2>2. Good(prog, Ahead(h))
        <3>1. Ahead(h).pc = s.pc + 1 /\ Ahead(h).regs = r /\ Ahead(h).mem = m
            BY <1>1, <1>6 DEF Ahead
        <3> QED BY <1>3, <1>8, <3>1 DEF Good
    <2> HIDE DEF st
    <2> QED BY <1>1, <1>6, <2>1, <2>2 DEF Stops
<1>15. Linked(prog, h, t, 1)
    <2> HIDE DEF st
    <2> QED BY <1>1, <1>6, <1>7, <1>13, <1>14 DEF Linked
<1> QED BY <1>1, <1>3, <1>5, <1>6, <1>15 DEF Answered, r, m

\* The checker after the call at the core's pc is answered.
AfterCall(v, w, called, c, next) ==
    /\ fs.blocked
    /\ At(program, c, next, 0) /\ Right(c) /\ c.last = lastCommitPC
    /\ called.regs = [aregs EXCEPT ![SysReg] = v] /\ aregs[SysReg] # ExitCode
    /\ called.mem = [amem EXCEPT ![CallBuf] = w]
    /\ called.regs \in [Regs -> Vals] /\ called.mem \in [Addrs -> Vals]
    /\ dpc = fs.arch_PC

\* A system call is executed once for both, and taken like an instruction.
LEMMA TrapTold ==
    ASSUME IInv, beyond = 0, Running, IsTrap(dpc), fs.regs[SysReg] # ExitCode,
           NEW v \in Vals, NEW w \in Vals,
           NEW called, called = trap_now(fs, v, w),
           NEW c0, c0 = [Checker EXCEPT !.fs = trap_resume(called), !.aregs = called.regs,
                                        !.amem = called.mem],
           NEW c, c = getRetireInstPC(c0, Lane(dpc, 0, 0, FALSE)),
           NEW next, next = [pc |-> dpc + 1, regs |-> called.regs, mem |-> called.mem]
    PROVE  AfterCall(v, w, called, c, next)
<1> DEFINE s == Now
           h == [called EXCEPT !.blocked = FALSE]
           t == [pc |-> s.pc, regs |-> called.regs, mem |-> called.mem]
           lane == Lane(dpc, 0, 0, FALSE)
           onward == trap_resume(called)
<1>1. Typed /\ Synced /\ ~faulted /\ status = "running" /\ (InRoutine \/ InProgram)
    BY DEF IInv, Running
<1>2. /\ program \in DOMAIN Programs /\ fs \in Simulators
      /\ aregs \in [Regs -> Vals] /\ amem \in [Addrs -> Vals] /\ lastCommitPC \in Int
    BY <1>1 DEF Typed
<1>3. dpc \in ISA!TextPCs(program) /\ Op(program, dpc) = "trap"
    BY DEF IsTrap, InText, Op
<1>4. InText(dpc)
    BY DEF IsTrap
<1>5. skip_instructions = 0 /\ dpc = fs.arch_PC /\ dpc \in Int
    BY <1>4, AtProgram DEF InProgram
<1>6. s.pc = dpc /\ s.regs = aregs /\ s.mem = amem
    BY <1>5 DEF Now
<1>7. Linked(program, fs, s, 0) /\ fs.db.length > 0
    BY <1>1 DEF Synced, Checked, At, Checker
<1> HIDE DEF s
<1>8. Op(program, s.pc) = "trap"
    BY <1>3, <1>6
<1>9. fs.blocked /\ fs.regs = s.regs
    BY <1>2, <1>7, <1>8, CallWindow
<1>10. s.regs[SysReg] # ExitCode
    BY <1>9
<1>11. Answered(program, s, v, w, called, h, t)
    <2>1. h = [called EXCEPT !.blocked = FALSE]
          /\ t = [pc |-> s.pc, regs |-> called.regs, mem |-> called.mem]
        OBVIOUS
    <2> HIDE DEF h, t
    <2> QED BY <1>2, <1>7, <1>8, <1>10, <2>1, CallAnswered
<1>12. Linked(program, h, t, 1) /\ h.db.length > 0
    BY <1>11 DEF Answered
<1>13. /\ called.regs = [s.regs EXCEPT ![SysReg] = v]
       /\ called.mem = [s.mem EXCEPT ![CallBuf] = w]
       /\ called.regs \in [Regs -> Vals] /\ called.mem \in [Addrs -> Vals]
    BY <1>11 DEF Answered
<1>14. t.pc = dpc /\ t.regs = called.regs /\ t.mem = called.mem /\ Op(program, t.pc) = "trap"
    BY <1>3, <1>6
<1>15. onward = run_ahead(h)
    BY DEF trap_resume
<1> HIDE DEF h, t, onward
<1>16. Linked(program, onward, t, 1) /\ onward.db.length > 0 /\ onward \in Simulators
    <2>1. Linked(program, onward, t, 1)
        BY <1>2, <1>12, <1>15, RunAheadKeeps
    <2>2. onward.db.length >= h.db.length
        BY <1>2, <1>12, <1>15, RunAheadKeeps
    <2>3. h \in Simulators /\ onward \in Simulators
        BY <1>12, <2>1 DEF Linked
    <2>4. h.db.length \in Nat /\ onward.db.length \in Nat
        BY <2>3, LengthOf
    <2> QED BY <1>12, <2>1, <2>2, <2>3, <2>4
<1>17. Good(program, t)
    BY <1>12, LinkedGood
<1>18. /\ c0 \in Checkers /\ c0.fs = onward /\ c0.aregs = t.regs /\ c0.amem = t.mem
       /\ c0.last = lastCommitPC /\ c0.mismatches = 0 /\ c0.status = "running"
    <2>1. c0 = [Checker EXCEPT !.fs = onward, !.aregs = called.regs, !.amem = called.mem]
        BY DEF onward
    <2>2. Checker \in Checkers /\ Checker.last = lastCommitPC /\ Checker.mismatches = 0
          /\ Checker.status = "running"
        BY <1>1 DEF Synced, Checked, At, Checker
    <2> QED BY <1>13, <1>14, <1>16, <2>1, <2>2 DEF Checkers
<1>19. At(program, c0, t, 1) /\ Right(c0)
    BY <1>16, <1>18 DEF At, Right
<1>20. \A e \in Entries : Records(program, e, t) => 0 = (IF Differs(lane, e) THEN 1 ELSE 0)
    <2> SUFFICES ASSUME NEW e \in Entries, Records(program, e, t) PROVE ~Differs(lane, e)
        OBVIOUS
    <2>1. e.a_pc = t.pc /\ e.a_rdst = ISA!Results(ISA!InstAt(program, t.pc), t.regs, t.mem)
        BY DEF Records
    <2>2. e.a_rdst = << >>
        BY <1>14, <2>1 DEF ISA!Results, Op
    <2>3. Len(e.a_rdst) = 0 /\ lane.pc = dpc
        BY <2>2 DEF Lane
    <2> HIDE DEF lane
    <2> QED BY <1>14, <2>1, <2>3 DEF Differs
<1>21. c = getRetireInstPC(c0, lane)
    OBVIOUS
<1> HIDE DEF lane
<1>22. Told(program, c, t, c0.last, 0)
    BY <1>2, <1>19, <1>20, <1>21, Retired
<1>23. ISA!Exec(program, t) = next
    <2>1. ISA!Exec(program, t).pc = t.pc + 1
        BY <1>2, <1>14, <1>17, ExecTyped
    <2>2. ISA!Exec(program, t).regs = t.regs /\ ISA!Exec(program, t).mem = t.mem
        BY <1>2, <1>14, <1>17, ExecTyped
    <2>3. ISA!Exec(program, t) = [pc |-> ISA!Exec(program, t).pc, regs |-> ISA!Exec(program, t).regs,
                                  mem |-> ISA!Exec(program, t).mem]
        BY DEF ISA!Exec
    <2> QED BY <1>14, <2>1, <2>2, <2>3
<1>24. At(program, c, next, 0) /\ Right(c) /\ c.last = lastCommitPC
    BY <1>18, <1>22, <1>23 DEF Told
<1> QED BY <1>5, <1>6, <1>9, <1>10, <1>13, <1>24 DEF AfterCall

\* The answer is written to both memories.  A store that is still in the queue is
\* in the core's memory already, so it can differ at the word of the answer only.
LEMMA AnsweredMemory ==
    ASSUME amem \in [Addrs -> Vals], CoreMemory = amem, NEW w,
           NEW m, m = [amem EXCEPT ![CallBuf] = w]
    PROVE  \A a \in Addrs :
               Overlaid(stq, m)[a] = m[a] \/ (PendingTo(stq, CallBuf) # {} /\ a = CallBuf)
<1> SUFFICES ASSUME NEW a \in Addrs
             PROVE  Overlaid(stq, m)[a] = m[a] \/ (PendingTo(stq, CallBuf) # {} /\ a = CallBuf)
    OBVIOUS
<1>1. Overlaid(stq, m)[a] = IF PendingTo(stq, a) = {} THEN m[a]
                            ELSE stq[Max(PendingTo(stq, a))].value
    BY DEF Overlaid
<1>2. amem[a] = IF PendingTo(stq, a) = {} THEN vmem[a]
                ELSE stq[Max(PendingTo(stq, a))].value
    BY DEF Overlaid, CoreMemory
<1>3. a # CallBuf => m[a] = amem[a]
    OBVIOUS
<1> QED BY <1>1, <1>2, <1>3

\* A system call is answered; the core goes on behind it.
LEMMA TrapKeeps ==
    ASSUME IInv, beyond = 0, Running, IsTrap(dpc), fs.regs[SysReg] # ExitCode,
           NEW v \in Vals, NEW w \in Vals, Trap(v, w), UNCHANGED <<given, stq, faulted>>
    PROVE  IInv' /\ ISA!SystemCall
<1> DEFINE called == trap_now(fs, v, w)
           c0 == [Checker EXCEPT !.fs = trap_resume(called), !.aregs = called.regs,
                                 !.amem = called.mem]
           c == getRetireInstPC(c0, Lane(dpc, 0, 0, FALSE))
           next == [pc |-> dpc + 1, regs |-> called.regs, mem |-> called.mem]
<1>1. /\ Typed /\ Synced /\ ~faulted /\ status = "running"
      /\ UNCHANGED <<program, netSim, stq, faulted>>
    BY DEF IInv, Running, given
<1>2. /\ fs.blocked
      /\ At(program, c, next, 0) /\ Right(c) /\ c.last = lastCommitPC
      /\ called.regs = [aregs EXCEPT ![SysReg] = v] /\ aregs[SysReg] # ExitCode
      /\ called.mem = [amem EXCEPT ![CallBuf] = w]
      /\ called.regs \in [Regs -> Vals] /\ called.mem \in [Addrs -> Vals]
      /\ dpc = fs.arch_PC
    <2>1. /\ called = trap_now(fs, v, w)
          /\ c0 = [Checker EXCEPT !.fs = trap_resume(called), !.aregs = called.regs,
                                  !.amem = called.mem]
          /\ c = getRetireInstPC(c0, Lane(dpc, 0, 0, FALSE))
          /\ next = [pc |-> dpc + 1, regs |-> called.regs, mem |-> called.mem]
        OBVIOUS
    <2> HIDE DEF called, c0, c, next
    <2>2. AfterCall(v, w, called, c, next)
        BY <2>1, TrapTold
    <2> QED BY <2>2 DEF AfterCall
<1>3. /\ vmem' = called.mem
      /\ overtaken' = (PendingTo(stq, CallBuf) # {})
      /\ beyond' = beyond + 1
      /\ SetChecker(c)
      /\ LOGICAL_REG' = called.regs
      /\ skip_instructions' = InitLen
      /\ dregs' \in [Regs -> {dregs[r] : r \in Regs}]
    <2>1. fs.blocked
        BY <1>2
    <2> QED BY <2>1, Zenon DEF Trap, SetUp, Restart
<1>4. next.pc = dpc + 1 /\ next.regs = called.regs /\ next.mem = called.mem /\ next = Arch(next)
    BY DEF Arch
<1> HIDE DEF called, c0, c, next
<1>5. /\ At(program, Checker, Now, 0)'
      /\ fs' \in Simulators /\ RingOK(fs'.db)
      /\ lastCommitPC' = c.last /\ lastCommitPC' \in Int
      /\ numMismatches' = c.mismatches /\ numMismatches' \in 0 .. StopAfterMismatch + 1
      /\ status' = c.status /\ status' \in {"running", "finish", "exit", "assert"}
      /\ aregs' = next.regs /\ amem' = next.mem /\ fs'.arch_PC = next.pc
      /\ aregs' \in [Regs -> Vals] /\ amem' \in [Addrs -> Vals]
    BY <1>1, <1>2, <1>3, <1>4, NewChecker
<1>6. dregs' \in [Regs -> Vals]
    <2>1. dregs \in [Regs -> Vals]
        BY <1>1 DEF Typed
    <2>2. {dregs[r] : r \in Regs} \subseteq Vals
        BY <2>1
    <2> QED BY <1>3, <2>2
<1>7. numMismatches' = 0 /\ status' = "running"
    BY <1>2, <1>5 DEF Right
<1>8. Typed'
    <2>1. skip_instructions' = InitLen
        BY <1>3
    <2>2. skip_instructions' \in 0 .. InitLen
        BY <2>1, Constants
    <2>3. numMismatches' <= StopAfterMismatch
        BY <1>7, Constants
    <2> QED BY <1>1, <1>2, <1>3, <1>5, <1>6, <2>2, <2>3 DEF Typed
<1>9. CalledOnce'
    <2>1. \A a \in Addrs : Overlaid(stq, called.mem)[a] = called.mem[a]
                            \/ (PendingTo(stq, CallBuf) # {} /\ a = CallBuf)
        <3>1. amem \in [Addrs -> Vals] /\ CoreMemory = amem
            BY <1>1 DEF Typed, Synced
        <3>2. called.mem = [amem EXCEPT ![CallBuf] = w]
            BY <1>2
        <3> QED BY <3>1, <3>2, AnsweredMemory
    <2>2. CoreMemory' = Overlaid(stq, called.mem) /\ amem' = called.mem
        <3>1. vmem' = called.mem /\ stq' = stq /\ amem' = called.mem
            BY <1>1, <1>3, <1>4, <1>5
        <3> QED BY <3>1 DEF CoreMemory
    <2>3. \A a \in Addrs : CoreMemory'[a] = amem'[a] \/ (overtaken' /\ a = CallBuf)
        BY <1>3, <2>1, <2>2
    <2> QED BY <1>5, <1>7, <2>3 DEF CalledOnce, Checked
<1>10. IInv'
    BY <1>1, <1>3, <1>8, <1>9 DEF IInv
<1>11. ISA!SystemCall
    <2>1. fs.arch_PC \in ISA!TextPCs(program) /\ ISA!InstAt(program, fs.arch_PC).op = "trap"
        BY <1>2 DEF IsTrap, InText
    <2>2. aregs' = [aregs EXCEPT ![SysReg] = v] /\ amem' = [amem EXCEPT ![CallBuf] = w]
        BY <1>2, <1>4, <1>5
    <2>3. fs'.arch_PC = fs.arch_PC + 1
        BY <1>2, <1>4, <1>5
    <2> QED BY <1>1, <1>2, <2>1, <2>2, <2>3 DEF ISA!SystemCall, Vals
<1> QED BY <1>10, <1>11

-----------------------------------------------------------------------------
(* The theorems                                                            *)

\* A step of Isa, or of the core behind an answered call.
Follows == beyond' <= 1 => ISA!Next

\* A step of the testbench keeps the invariant, and is a step of Isa or none until
\* the core goes on behind a call.
LEMMA StepRefines ==
    ASSUME IInv, [Next]_vars
    PROVE  IInv' /\ [Follows]_(ISA!vars)
<1> DEFINE stutters == UNCHANGED <<program, fs, aregs, amem>>
<1>1. stutters => UNCHANGED ISA!vars
    BY DEF ISA!vars
<1> HIDE DEF stutters
<1>2. ASSUME beyond # 0, beyond' = beyond + 1
      PROVE  IInv' /\ [Follows]_(ISA!vars)
    BY <1>2, IInvBeyond DEF Follows
<1>3. ASSUME NEW n \in 1 .. COMMIT_WIDTH, Commit(n)
      PROVE  IInv' /\ [Follows]_(ISA!vars)
    <2>1. CASE beyond # 0
        BY <1>2, <1>3, <2>1 DEF Commit, StepOn
    <2>2. CASE beyond = 0 /\ InRoutine
        <3>1. IInv' /\ stutters
            BY <1>3, <2>2, CommitRoutine DEF stutters
        <3> QED BY <1>1, <3>1
    <2>3. CASE beyond = 0 /\ InProgram
        <3>1. IInv' /\ ISA!Steps(n)
            BY <1>3, <2>3, CommitProgram
        <3> QED BY <3>1 DEF ISA!Next, Follows
    <2>4. beyond = 0 => InRoutine \/ InProgram
        BY <1>3 DEF IInv, Commit, Running
    <2> QED BY <2>1, <2>2, <2>3, <2>4
<1>4. CASE CommitFaulty
    <2>1. CASE beyond # 0
        BY <1>2, <1>4, <2>1 DEF CommitFaulty, StepOn
    <2>2. CASE beyond = 0
        <3>1. IInv' /\ ISA!Steps(1) /\ 1 \in 1 .. COMMIT_WIDTH
            BY <1>4, <2>2, CommitFaultyKeeps, Constants
        <3> QED BY <3>1 DEF ISA!Next, Follows
    <2> QED BY <2>1, <2>2
<1>5. CASE WriteStore
    <2>1. IInv' /\ stutters
        BY <1>5, WriteStoreKeeps DEF WriteStore, given, checkVars, stutters
    <2> QED BY <1>1, <2>1
<1>6. CASE HANDLE_EXCEPTION
    <2>1. Running /\ IsTrap(dpc) /\ UNCHANGED <<given, stq, faulted>>
        BY <1>6 DEF HANDLE_EXCEPTION
    <2>2. CASE status' = "finish" /\ UNCHANGED <<fs, lastCommitPC, numMismatches, aregs, amem,
                   vmem, routineVars, skip_instructions, dpc, dregs, beyond, overtaken>>
        <3>1. IInv' /\ stutters
            BY <2>1, <2>2, ExitKeeps DEF given, stutters
        <3> QED BY <1>1, <3>1
    <2>3. ASSUME fs.regs[SysReg] # ExitCode, NEW v \in Vals, NEW w \in Vals, Trap(v, w)
          PROVE  IInv' /\ [Follows]_(ISA!vars)
        <3>1. CASE beyond # 0
            BY <1>2, <2>3, <3>1 DEF Trap
        <3>2. CASE beyond = 0
            <4>1. IInv' /\ ISA!SystemCall
                BY <2>1, <2>3, <3>2, TrapKeeps
            <4> QED BY <4>1 DEF ISA!Next, Follows
        <3> QED BY <3>1, <3>2
    <2> QED BY <1>6, <2>2, <2>3 DEF HANDLE_EXCEPTION
<1>7. CASE UNCHANGED vars
    <2>1. IInv' /\ stutters
        BY <1>7, IInvUnchanged DEF vars, given, checkVars, stutters
    <2> QED BY <1>1, <2>1
<1> QED BY <1>3, <1>4, <1>5, <1>6, <1>7 DEF Next, Ended

\* Until the core goes on behind a call the invariant relates the memories.
LEMMA IInvMemory == IInv => MemorySync
<1> SUFFICES ASSUME IInv, ~faulted, ~resumed PROVE /\ amem = Undone(fs)
                                                   /\ \A a \in Addrs :
                                                        \/ CoreMemory[a] = amem[a]
                                                        \/ overtaken /\ a = CallBuf
    BY DEF MemorySync
<1>1. /\ Typed /\ Checked
      /\ \A a \in Addrs : CoreMemory[a] = amem[a] \/ (overtaken /\ a = CallBuf)
    <2>1. beyond \in Nat /\ beyond <= 1
        BY DEF IInv, resumed
    <2>2. beyond = 0 \/ beyond = 1
        BY <2>1
    <2> QED BY <2>1, <2>2 DEF IInv, Synced, CalledOnce
<1> DEFINE s == Now
<1>2. program \in DOMAIN Programs /\ Linked(program, fs, s, 0) /\ s.mem = amem
    BY <1>1 DEF Typed, Checked, At, Checker, Now
<1> HIDE DEF s
<1>3. Undone(fs) = s.mem
    BY <1>2, UndoneIsBase
<1> QED BY <1>1, <1>2, <1>3

\* Until then it types the state.
LEMMA IInvTypes == IInv => (~resumed => TypeOK)
<1> SUFFICES ASSUME IInv, ~resumed PROVE TypeOK
    OBVIOUS
<1>1. beyond \in Nat /\ beyond <= 1
    BY DEF IInv, resumed
<1>2. Typed
    BY <1>1 DEF IInv
<1>3. skip_instructions \in Int /\ skip_instructions <= InitLen /\ skip_instructions >= 0
    BY <1>2, Constants DEF Typed
<1>4. numMismatches \in Nat
    BY <1>2, Constants DEF Typed
<1> QED BY <1>2, <1>3, <1>4 DEF Typed, TypeOK, Simulators

\* It keeps the checker silent.
LEMMA IInvInStep == IInv => InStep
<1> SUFFICES ASSUME IInv, ~faulted, ~resumed
             PROVE  numMismatches = 0 /\ status \notin {"exit", "assert"}
    BY DEF InStep
<1>1. beyond \in Nat /\ beyond <= 1
    BY DEF IInv, resumed
<1>2. beyond = 0 \/ beyond = 1
    BY <1>1
<1>3. Checked
    BY <1>2 DEF IInv, Synced, CalledOnce
<1> QED BY <1>3 DEF Checked

\* A lane that was wrong has been reported.
LEMMA IInvFaultReported == IInv => FaultReported
<1> SUFFICES ASSUME IInv, faulted, ~resumed PROVE numMismatches > 0
    BY DEF FaultReported
<1>1. beyond <= 1
    BY DEF IInv, resumed
<1> QED BY <1>1 DEF IInv

\* The invariant of the testbench, for every program, every size of the debug
\* buffer and the store queue, and every number of lanes.
LEMMA Invariant == Spec => []IInv
<1>1. Init => IInv
    BY InitIInv
<1>2. IInv /\ [Next]_vars => IInv'
    BY StepRefines
<1> QED BY <1>1, <1>2, PTL DEF Spec

\* Types, until the core goes on behind a system call.  The window of the debug
\* buffer is a window, whatever the order of run-ahead and get_instr.
THEOREM Types == Spec => [](~resumed => TypeOK)
BY Invariant, IInvTypes, PTL

\* A core that is right is not reported, up to the first answered call and in
\* answering it: no comparison of $getRetireInstPC differs, and the functional
\* simulator always has the entry asked for.
THEOREM NoFalseAlarm == Spec => []InStep
BY Invariant, IInvInStep, PTL

\* The memory of the instructions taken is the functional simulator's memory with
\* its before-images put back, and the core's memory is the same up to a call; the
\* call can set it apart at one word only, that of a store it overtakes.
THEOREM MemoriesAgree == Spec => []MemorySync
BY Invariant, IInvMemory, PTL

\* Until a call is answered a wrong pc, destination or value is reported in the
\* cycle it commits.
THEOREM NoMissedFault == Spec => []FaultReported
BY Invariant, IInvFaultReported, PTL

\* The checker takes the program in order, up to the first answered call and with
\* it, each instruction once.
THEOREM Refinement == Spec => ImplementsIsa
<1>1. Init => ISA!Init
    <2> SUFFICES ASSUME Init PROVE ISA!Init
        OBVIOUS
    <2> QED BY InitIInv DEF Init, ISA!Init
<1>2. IInv /\ [Next]_vars => [beyond' <= 1 => ISA!Next]_(ISA!vars)
    BY StepRefines DEF Follows
<1> QED BY <1>1, <1>2, Invariant, PTL DEF Spec, ImplementsIsa
=============================================================================
