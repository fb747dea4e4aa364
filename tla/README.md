# A TLA+ verification of the AnyCore superscalar core

The repository holds the RTL of AnyCore (SystemVerilog, `src/src/`), an
out-of-order superscalar core for the PISA instruction set, with its
testbenches (`src/src/testbenches/`), a functional simulator in C++ that runs
beside it (`src/simulation/functional-sim/`), its synthesis flow
(`src/physical-design/`) and test programs (`src/pisa-tests/`).

The project models two halves of it. The first is the RTL: one step of a model
is one edge of the clock, and paths are relative to `src/src/`. The second is
what checks the RTL: the functional simulator, the VPI calls by which the
testbench reaches it, and the testbench's checker; there a step is a call, and
paths are relative to `src/simulation/functional-sim/`, with `lib.src/` short
for `libss-vpi/lib.src/`.

## 1. Inventory

Instructions flow in bundles: FetchStage1 and 2 -> Decode -> InstructionBuffer
-> InstBufRename -> Rename -> RenameDispatch -> Dispatch, which writes the
active list, the issue queue and the load and store queues in one cycle. They
then issue, execute and write back out of order, and commit in order from the
head of the active list. Everything is one clock domain; what makes the core
concurrent is that some thirty blocks each update their registers in the same
cycle, from values of the cycle before, and agree only through shared
conditions (`stall`, `recoverFlag`, `exceptionFlag`, `commitSt`).

| Component | State | Operations | Hard behaviour | What makes it correct |
|---|---|---|---|---|
| Free list (`rename/SpecFreeList.sv`) | ring, head, tail, count | pop a bundle, push a commit group, rewind, reset | pops and pushes overlap; rewind trusts what lies behind the head | every physical register held exactly once |
| Maps (`rename/RenameMapTable.sv`, `retire/ArchMapTable.sv`) | speculative map, committed map, repair FSM | rename, group commit, repair over several cycles | double writers in a bundle or a group; rename must wait for the repair | speculative map = committed map + writers in flight |
| Active list (`retire/ActiveList.sv`) | pointers, count, RAMs of data, flags, ready and violation bits, flag registers | dispatch, write-back, commit vector, flush | out-of-order bits in reused slots; split instructions; count reset a cycle before pointers | in-order retirement of executed, unviolated instructions |
| Control queue (`fetch/CtrlQueue.sv`) | three pointers, count, committed bits | reserve, commit a group, update the predictor one a cycle, recover | commits outrun updates; empty and full look alike; system calls | pointers, count and bits agree; fetch resumes; every committed entry updates |
| Store queue (`lsu/LSUControl.sv`, `lsu/LDX_path_structured.sv`) | head, tail, commit pointer, count, valid, committed and address bits, CAMs | dispatch, execute, commit, write one, flush | the head is written while a flush rebuilds everything | committed stores leave once, in order |
| Load queue (`lsu/STX_path_structured.sv`, `lsu/LDX_path_structured.sv`) | CAMs, windows of younger/older entries, replay | forward, disambiguate, detect violation, replay | stale last-store index, full queue masks, replay of split loads | a load commits the value of the youngest older store |
| Issue queue (`issue/`) | entries, ready bits, free list of entries, shift registers | dispatch, wake up, select, free | register reuse against late broadcasts | nothing issues before its sources are there |
| Instruction buffer (`decode/InstructionBuffer.sv`) | ring, count | write up to 2 x FETCH_WIDTH, read DISPATCH_WIDTH | group wrap-around | a FIFO |
| Fetch (`fetch/FetchStage1.sv`, `RAS.sv`, `BTB.sv`) | PC, return stack, predictors | redirect, predict, push/pop | priority of redirects; stack restored at recovery | fetch follows the last redirect |
| Data cache (`dcache/DCache_controller.sv`) | MSHR, store buffer | miss, fill, write-through | second miss under the first, late fills | only with `DATA_CACHE`, off in all of `configs/` |
| Power manager (`fabscalar/PowerManager.sv`) | FSM | drain, consolidate, reconfigure | overlap with work in flight | only in `DYNAMIC_CONFIG` builds |

The functional simulator and the testbench around the core:

| Component | State | Operations | Hard behaviour | What makes it correct |
|---|---|---|---|---|
| Debug buffer (`include/debug.h`) | ring of executed instructions, head, tail, length | start, push operands, address and instruction, first, pop | an entry is filled piecewise through the tail; old fields stay in reused slots | a FIFO whose pointers and length agree |
| Functional execution (`lib.src/func_sim.cc`, `include/Thread.h`, `ss.cc`) | pc, registers, committed pc, instruction count, blocked | execute one, run ahead, get instruction, stop at a trap, resume, skip | runs up to a buffer ahead of the core | what the buffer gives is the program in order |
| Unaligned access (`include/I_hate_these_instructions.h`) | none | LWL, LWR, SWL, SWR | shifts and masks by the address | a pair of them is an unaligned word access |
| Checker and testbench (`testbenches/simulate.sv`, `simulate_power.sv`, `vpi/src/getRetireInstPC*.cpp`) | lanes to skip, last committed pc, mismatches | verify a commit group, handle a system call, set registers up | commits lag execution; split instructions; two memories and three register states | a right core is never reported, a wrong one is at once |
| System calls (`lib.src/syscall.cc`, `lib.src/main_misc.cc`, `include/Thread.h`) | registers of a thread, break, shared region, lock bytes, host descriptors, errno | 44 codes, among them fork, test-and-set and unlock with wake-up | failures of the host; shared bytes; errno as a result | a call stores only where it was told; one holder of a lock |
| Simulated memory (`include/memory.h`, `lib.src/memory.cc`, `vpi/src/veri_memory.cc`) | table of blocks, text table | access by bytes, halves, words; copy; ports of the testbench | blocks appear at first access; a copy replaces everything | a flat byte memory |
| Loader and start-up (`lib.src/loader.cc`, `vpi/src/read_config.cc`, `lib.src/misc.cc`, `vpi/src/initializeSim.cpp`) | segments, options, stack | read config, load, copy text, decode, skip, start | order of copying and decoding; malformed inputs | arguments in place, both texts agree, good inputs start |
| Checkpoints (`include/checkpoint.h`, `include/Thread.h`) | file of the state and of traps | save, record a trap, restore, replay a trap | a second process; records cut short | a replay follows its recording |

How they interact:

* Dispatch reads the counts of the active list, issue queue and load and store
  queues and stalls everything in front of it (`Dispatch.sv` 185-196, 253-257).
* The active list pushes commit packets to the committed map, which frees
  registers into the free list in the same cycle; it counts committed control
  instructions for the control queue and committed loads and stores for the LSU.
* `recoverFlag` (misprediction, load violation) and `exceptionFlag` (system
  call) are registers of the active list: the decision is taken in one cycle,
  when `alCount` is cleared, and every other block flushes in the next.
* After `recoverFlag` the committed map is copied over the speculative one,
  `N_REPAIR_PACKETS` entries a cycle for `N_REPAIR_CYCLES` cycles, while
  `repairFlag` holds the register in front of rename.

* The testbench calls `$initialize_sim`, copies the functional simulator's
  memory and starts the core on a routine that loads the registers. Every lane
  the core commits is compared with the next entry of the debug buffer
  (`$getRetireInstPC`), which is filled by running ahead. Stores of the core
  reach the testbench's memory through its ports.
* When a system call is at the head of the active list, the testbench has the
  functional simulator serve it (`$handleTrap`), copies its memory over the
  core's, rewrites the routine, and lets both go on (`HANDLE_EXCEPTION` in
  `simulate.sv`).

All the components, modelled or not, with the reason, are in `PROJECT.json`
under `components`; the places where this code can go wrong in a way a test
hardly reaches are there under `hazards`, each with its line.

## 2. Modules

| Module | Models | Notes |
|---|---|---|
| `RenameCore` | free list, both maps, repair engine, InstBufRename, RenameDispatch, the active list as a sequence | one action per kind of cycle: `Cycle`, `FlushDecision`, `Recover`, `Exception` |
| `RegisterRenaming` | what renaming promises, abstractly | no list, no pointers, no repair |
| `RenameCoreProofs` | TLAPS proofs about `RenameCore` | for all constants |
| `ActiveList` | the active list with its RAMs and commit vector | write-backs in any order, violations from a ghost of the memory order |
| `InOrderRetire` | what retirement promises, abstractly | a window in program order |
| `CtrlQueue` | the control queue and the register in front of FetchStage2 | two ghosts for what the core has in flight |
| `StoreQueue` | store queue control and storage | ghosts for program order |
| `DebugBuffer` | the debug buffer, as operators on one record | used by `CoSim` |
| `Isa` | what the debug buffer promises, abstractly: the program in order | also supplies the instruction semantics to both sides of `CoSim` |
| `CoSim` | core, functional simulator, checker and testbench | composes `DebugBuffer` and `Isa` |
| `Syscall` | system calls, threads, shared memory and locks | one action per case of `ss_syscall` |
| `TargetMemory`, `Loader` | block table and ports; config file, executable, stack, predecoding | operators, used by `Boot` |
| `Boot` | start-up, checkpoints, skip, the ports at work | a recording process and a simulating one |
| `FlatMemory` | what the memory ports promise, abstractly | |
| `Unaligned` | LWL, LWR, SWL, SWR, with proofs | no state |
| `ActiveListProofs`, `CtrlQueueProofs`, `StoreQueueProofs`, `SyscallProofs` | TLAPS proofs about these modules | for all constants |
| `CoSimProofs` | TLAPS proofs about `DebugBuffer` and `CoSim` | for all programs and sizes |
| `BootProofs` | TLAPS proofs about `TargetMemory`, `Loader` and `Boot` | for all programs, jobs, recordings and sizes |
| `MC*` | the instances TLC checks | sizes in the `.cfg` files |

### RenameCore

`freeList`, `freeListHead`, `freeListTail` and `freeListCnt` are the RAM and
registers of SpecFreeList; `rmt` and `amt` the RAMs of the two maps;
`instBufRen` and `renDis` the pipeline registers, of which the model keeps the
ready bit and the destinations of the instructions that write a register. `al`
is the active list as a sequence of register writers, `alCount` the number of
all instructions in it. `repairState` and `repairCounter` are the FSM of
ArchMapTable.

Every cycle the whole design updates at once, so an action conjoins the update
of each block: `Commit` (committed map, freed registers, tail), `FreeListPop`,
`RMTWrite`, `RenameDispatch`, `InstBufRename`, `RepairEngine` and `Dispatched`.
What drives them from outside is chosen freely: the offered bundle, whether
dispatch stalls for a queue other than the active list, how many of the oldest
instructions commit, and whether a flush is decided. `Recover` and `Exception`
are the cycles in which the registered flags are high; the second resets both
maps and the free list, as the reset inputs in `FABSCALAR.sv` 793-795 and
`ArchMapTable.sv` 162 do. The single control bit that makes the protocol work
is `repairFlag` in the stall of InstBufRename.

Abstracted: sources, opcodes, PCs; lanes without a destination inside a bundle
(the RTL compacts them by its `phyDest` and write-address case tables, the
model numbers the writers directly); physical partitions that a DYNAMIC_CONFIG
build can switch off; the extra path by which RegisterConsolidate reads the
committed map.

### ActiveList

Slots carry a kind (`branch`, which also stands for plain instructions,
`load`, `store`, `syscall`, and the `first` and `second` half of a split
instruction). `commitVector_f`, `commitVector`, `violateFlag` and the corner
case of a pair whose second half violated are translated lane by lane. A step
dispatches a bundle, writes back any set of instructions in flight that the
pipes allow, and commits. Nothing of the memory system is here: when a load
executes, the ghost `conflicts` records an arbitrary set of older unexecuted
stores it should have waited for; when one of these stores executes, the bit of
the oldest such load is set, as STX_path_structured computes it. So the list is
checked against every outcome the LSU could report, and "never retires a wrong
load" means: provided the LSU reports the oldest violating load of each store.
It does (`STX_path_structured.sv` 520-533), though the comments beside it say the
youngest; and a system call is flushed without committing (`ActiveList.sv`
834-839), though the comment at 793-796 says it commits first. The model and
`InOrderRetire` follow the code (findings 7 and 8).

Two properties of the code are assumed and come from its surroundings: decode
emits the halves of a pair next to each other (`Decode_PISA.sv` 348-365 and the
like), and an instruction writes back once.

### CtrlQueue

The counters are modelled with their width: the queue has `2^SIZE_CTI_LOG`
entries and pointers wrap by themselves. `ctrlCount` is the number of control
instructions in Fetch1Fetch2, which holds its bundle while the queue is full.
The ghosts `inflight` and `pending` say what the program says: control
instructions fetched and not committed, committed and not yet used as an update.

### StoreQueue

Execution fills an entry in any order, at most one a cycle; committing asks
that the store has executed. `recoverFlag` stands for `recoverFlag |
exceptionFlag`: the LSU does the same for both. Loads, forwarding and the
partial-match stall are not here.

### CoSim, DebugBuffer and Isa

`fs` is the thread of the functional simulator (pc, registers, memory, blocked,
debug buffer `db`, committed pc). `run_ahead` fills the buffer until it is full
or the thread is blocked at a trap; `getRetireInstPC` takes an entry and
compares. `DebugBuffer` keeps the ring with its stale fields: `start` resets
the operands only, so an entry holds the address and the memory image of an
older instruction if nothing overwrites them.

The core is what it commits: `Commit(n)` retires n instructions of the program
or of the set-up routine, at most `COMMIT_WIDTH` lanes; an instruction with two
destinations takes two lanes, as the split instructions of Decode do. Its
stores wait in `stq` and reach `vmem` later. `CommitFaulty` commits one unsplit
instruction with a wrong pc, destination or value. `HANDLE_EXCEPTION` is the
task of the testbench, with an arbitrary answer of the host (what the calls do
is `Syscall`). `netSim` selects the checker of `simulate_power.sv`, which sees
the pc of the first lane only.

What the code computes by loops over a queue is written in closed form where
the loop has one: `Undone` takes, for each word, the before-image of the oldest
store in the buffer, `Overlaid` the value of the youngest store in the store
queue, and `Destinations` pushes the one or two results of an instruction. What
really iterates (`run_ahead`, `Group`, `Verified`) is a recursive function over
its rounds.

History variables: `aregs` and `amem` are the state after the instructions
taken from the buffer; `faulted` says that the core was wrong; `beyond` counts
the steps of the core from the first answered call on; `overtaken` says that at
this call a store to the word it fills was still to be written.

A system call other than exit parts the two sides, and the model follows the
code there. `HANDLE_EXCEPTION` rewrites the routine and sets `skip_instructions`
to its length once more (`init_registers`, called at `simulate.sv` 672), but
`Restart` is what the RTL does: fetch goes on behind the call (`ActiveList.sv`
1119, `FetchStage1.sv` 580-583), the routine is not run again, and the rename map
is reset, so that a register holds what some register held. From there the
checker skips lanes of the program itself, and lanes and entries are no longer
those of the same instruction. What is promised therefore ends when the core
goes on behind the first answered call (`resumed`); serving the call is included.
What happens after it is the subject of two runs that expect a violation,
`cosim_trap` and `cosim_skip`; `MaxBeyond` bounds how long it is followed.

`ProgramsAssumption` says which programs are meant. A program ends with the
system call for exit, with its code set by the instruction before it, and no
branch leads to that call; no branch leads to itself, which the checker needs
(section 6). `CoSimAssumption` has, besides the types, that the text lies above
the set-up routine and that a commit group fits the store queue.

Abstracted: words for bytes (a doubleword is two), 32 bits to `NumVals`
values, five opcodes (add, load, load pair, store, branch) and the trap. Two
assumptions about the core come from its RTL: a system call does not retire
with others, and the jump that ends the routine is the last of its commit
group (it is mispredicted, and the active list commits a mispredicted branch
last).

### Syscall

A thread is in user mode, trapped, or served; `Trap` stops it with registers
chosen from `Programs`, one action serves each case of `ss_syscall`, and
`Resume` is `trap_resume`. Every host call succeeds or fails with an errno
(`HostAnswers`); `Serve` refuses a copy that `mem_access` would refuse, which
is fatal. `Cell(t, a)` is the byte an address means: that of the thread or,
inside its declared region, the shared one. `Unlock` contains the wake-up
of `main_misc.cc`, thread by thread in one step as in the code.

Memory keeps lock bytes only; for all else `wrote` records which addresses the
last call stored to. A structure is one address wide. A program unlocks only a
lock it was told it has (`Disciplined`), which is what lock users do and what
the exclusion of the lock rests on.

### TargetMemory, Loader and Boot

`TargetMemory` has the table of blocks, created by the first access (`Touch`),
and copying, which leaves the destination with the source's blocks and no
other. `WriteBytes` stores a string of bytes in as many blocks as it takes. A
fetch through the unchecked macros of an address whose block is absent, or that
is beyond the table, gets what a null pointer gives (`NullFetch`). `Loader` turns a config file, a job and an executable into a thread, in
the order of the code: sections before segments (text is writable until then; an
empty section of the file is fatal), arguments, registers, predecoding.

`Boot` runs the process: config, load, copy of the text for the core, decode,
restore, skip, then the core's fetches and accesses through the ports while the
functional simulator runs ahead and traps are handled. Failures end the process
in a stage of their own (fatal, exit, assert, panic, crash), so that what a
malformed input leads to is seen. With `recording`, an earlier process skips,
saves a checkpoint and records its traps until it stops anywhere; its main
program is not in the repository and is taken from the interface of
`checkpoint.h`. A trap record compares and restores the registers a call may
change (`TrapRegs`); the others come from the execution. Reading memory that a constructor leaves uninitialised, or a
trap record that was cut short, is a choice between going on and a crash.

Four assumptions say what is started. `ImagesAssumption`: the entry of a program
is at an instruction boundary of the simulated memory, its text with the slack
behind it ends below the data, its sections do not overlap, and a section the
loader skips has no bytes. `InputsAssumption`: the words of a job are not empty,
as `tokenize` makes them; a checkpoint is a file of its own and exists once a
recording has written it; and what is skipped is within the bound of the run.
`CodesAssumption`: opcodes and calls have numbers of their own.
`PortsAssumption`: the ports are used for bytes in the table, words and halves
at addresses of their alignment. One more is in `Pointer`: a program's pointers
are to its data and stack, so it does not store in its text, which the
functional simulator holds decoded and the core does not. The lines of a config
file, the missing files and the failing headers are not restricted.

### Unaligned

A word is four bytes and a mask the set of bytes it keeps; the four macros are
translated with `WL_SIZE` and `WR_SIZE` of the little-endian build.

## 3. What is checked

Runs are listed in `PROJECT.json`; each property is stated above its
definition. Every property of a passing run has a mutant: an operator in the
module, marked `Mutant of`, that changes a definition as a plausible bug would;
with it the property fails.

| Run | Question | Bounds |
|---|---|---|
| `rename` | Is any register lost or held twice, is the free list rewindable, does a source read its youngest writer, does the design implement abstract renaming? Does a repair of several cycles finish before anything renames? Does rename out of registers get some? Does the invariant of the proofs hold? | 5 physical, 2 logical registers, 2-wide rename and commit, active list of 3, one repair packet, two repair cycles |
| `active_list` | Do the bits in the RAMs belong to what is in flight, does a ready head always leave, is retirement in order? | 3 slots, dispatch 2, commit 3, two write-backs a cycle |
| `ctrl_queue` | Do pointers, count and bits agree; does fetch resume; do updates happen? | ring of 4, two fetched and two committed a cycle |
| `ctrl_queue_updates` | Does every committed control instruction update the predictor? (no: finding 1) | as above |
| `store_queue` | Are pointers, count and bits one queue, do committed stores survive and leave in order? | 3 entries, two dispatched and two committed a cycle, two values |
| `store_queue_flush` | Is every write to the cache the oldest retired store? (no: finding 2) | as above |
| `cosim` | Up to the first answered call: is a right core ever reported, a wrong one missed? Do the memories agree? Is the buffer the program in order? Does the simulation end or get behind the call? | 3 programs, 3 registers, 4 values, 4 words, buffer of 4, commit 2, store queue of 2, both checkers, `MaxBeyond` 2 |
| `cosim_trap` | Does the core go on with the functional simulator's registers after a system call? (no: finding 4) | as above, RTL core only |
| `cosim_skip` | Does the count of lanes to skip end at zero? (no: finding 5) | a program with a call in a loop, RTL core only, `MaxBeyond` 6 |
| `syscall` | Do calls store only where told, do the simulator's streams stay open, has a lock one holder, does a granted break cover its request? | 16 addresses, pages of 4, 5 descriptors, 3 threads, 4 sets of programs |
| `syscall_unlock` | Does an unlock release a lock nobody else waits for? (no: finding 3) | 1 thread |
| `boot` | Do the two texts agree, does a replay follow its recording, are arguments in place, are the ports a flat memory, do good inputs start? | bytes of 16 values, 7 blocks of 16, 8 executables, good and malformed configs, recordings that stop anywhere, 10 instructions, 3 port calls |

Why these bounds are enough to be interesting. With two lanes a bundle or a
commit group can write one register twice, and pointers wrap inside it. Three
slots of free list and two lanes give a free list that is "empty" with a
register left. An active list of three, filled also by instructions that write
no register, stalls dispatch and leaves a renamed bundle waiting, so that
in-flight work sits in both `al` and `renDis`; two repair cycles leave one in
which the map is half repaired. The
active list of three with dispatch of two and commit of three has pairs across
bundles, across the end of the list and at the edge of the commit width, and
enough slots for two loads younger than a store. A control queue of four with
two commits a cycle keeps committed entries pending through a flush. A debug
buffer of four is shorter than every program of `cosim`, so that it wraps,
fills, and empties at traps; one program fills the buffer of a call right
before it, and makes two calls in a row; the set-up routine has seven instructions, an odd
number, so that commit groups straddle its end. `MaxBeyond` of 6 lets a group of two meet
an odd count of lanes to skip in `cosim_skip`. Three threads of `syscall` let
two wait for the lock of the third. The blocks of `boot` include one that is
absent until a port, a store or a system call touches it, and recordings stop
before, in and after a trap.

The models of the RTL need no bound on their counters: the queues' own sizes
bound them. `CoSim` has one bound, `MaxBeyond` (steps of the core after an
answered call); no property of `cosim` speaks of a state it cuts off. `boot` has two bounds, `MaxInsn` (instructions of a process) and
`MaxOps` (calls of the ports). The model constants are small where the proofs
are not: what is proved holds for all of them.

No symmetry is used. Deadlock is checked in every run but the two of
`MCSyscall`, where the simulator really stops, by an exit, a panic or a failed
assertion, and a program may have no further call to make. `CoSim` and `Boot`
have an explicit step of a simulation that has ended, so that being stuck
before that is a deadlock.

### Fairness

* `rename`: the flush cycle that follows a flag (it is the next cycle in
  the RTL); the oldest instruction commits in the end (the back end executes
  everything that was dispatched); dispatch does not refuse a bundle for ever
  when the active list has room. Weak fairness on each is enough. Nothing is
  assumed about flushes, about the bundles offered, or about the repair, which
  advances with the clock. `FreeListRefills` does not follow from fairness
  alone: it fails if pushes made during a stall are not counted.
* `ctrl_queue`: the clock ticks (weak fairness of `Tick`, an ordinary cycle),
  the cycle of a flag follows it, and a control instruction in flight commits
  or is flushed in the end. Nothing obliges the core to flush, which would
  unblock a queue that is stuck, nor is the update forced: it happens in every
  cycle in which `updateEn` is high.
* `store_queue`: the clock ticks and the cycle of the flag follows it. Again no
  flush is forced, and dispatch and commit may stop for ever.
* `cosim`: as long as the simulation runs, something happens (`Ticks`): the
  clock of the testbench does not stop and a core that can commit, write a
  store or trap does one of these. It is weak fairness of the whole next-state
  relation, with `ENABLED` written out as "the simulation runs"; that a running
  simulation always has a step is what the deadlock check shows. Which of the
  enabled steps is taken is not constrained, so a core that only commits, or
  writes every store at once, is included. `Finishes` holds because the programs'
  loops are finite; a simulation that the model leaves at a fault counts as
  ended, and one that goes on behind a call has shown that checker, run-ahead
  and call did not wait for each other.
* `boot`: a process goes on while it starts up (`GoesOn`), again weak fairness
  of the start-up as a whole. The ports and the functional simulator at work
  are not forced.
* `syscall` checks no liveness. `Spec` has the weak fairness of serving and
  resuming, which the testbench does in the cycle of the trap.

## 4. Refinement

All four are proved for all constants as well as checked.

* `ImplementsRenaming`: `RenameCore` implements `RegisterRenaming` with
  `committed <- amt` and `inflight <- al \o renDis.dest`, or the empty sequence
  while a flag is pending. The abstract step demands that new writers get
  registers used by nothing that is committed or in flight, that commits move
  the youngest of a group into the map, and that a flush throws away exactly the
  rest.
* `ImplementsInOrderRetire`: `ActiveList` implements `InOrderRetire` with the
  window read from head to head + alCount. The abstract step demands program
  order, that what leaves has executed and is neither wrong nor mispredicted nor
  a system call, that a pair leaves whole, and that the list empties only
  for the oldest instruction or the pair it begins. Two comments in the RTL
  describe something else (findings 7 and 8).
* `ImplementsIsa`: `CoSim` implements `Isa` with the committed pc of the
  functional simulator and the state rebuilt from the entries taken (`aregs`,
  `amem`). The abstract step executes up to a commit group of the program in
  order, or a system call with any answer. The refinement is stated up to the
  first answered call, that step included: behind it the checker takes entries
  for lanes of other instructions (findings 4 and 5). It is what makes the comparison
  with the debug buffer mean anything: the destinations, the values and the
  memory images recorded while running ahead are those of the program.
* `PortsAreFlat`: `Boot` implements `FlatMemory` with the blocks of the
  testbench's memory read as one array, an absent block as zeros. Creating a
  block is then a stutter, a copy makes the array the functional simulator's
  (above the set-up routine), and a read is little-endian with its extension.

## 5. What is proved

Eight modules hold proofs, each for every value of the constants that meets the
named assumptions of the module it is about. TLC checks the same formulas on
the instances above. A theorem that a refinement holds shows that the initial
states map to initial states and that every step maps to a step or a stutter,
under the inductive invariant of the module; the abstract specifications of the
four refinements state no fairness.

### Renaming (`RenameCoreProofs`)

From `WidthAssumption`, `SizeAssumption` and `RepairAssumption` (the repair
cycles cover the map):

| Theorem | Statement |
|---|---|
| `Inductive` | `Spec => []IInv` |
| `Typing` | `Spec => []TypeOK` |
| `Conservation` | `Spec => []RegistersConserved` |
| `Order` | `Spec => []InFlightBehindHead` |
| `Quiet` | `Spec => []QuietWhileRepairing` |
| `Overlay` | `Spec => []SpeculativeMapIsOverlay` |
| `Refinement` | `Spec => ImplementsRenaming` |

`RegistersConserved` is not inductive: a commit writes into slots behind the
head the registers that the committed map gives up, and that they differ from
the rest of the list follows only because the registers of the retiring
instructions are those in the slots being overwritten. That is
`InFlightBehindHead`, which in turn needs that the count never exceeds the
list (`TypeOK`) and, for the step of a recovery and the cycles of a repair, that
a flag finds an empty active list and that nothing enters while the engine runs
(`QuietWhileRepairing`, `FlushFindsNothing`). Their conjunction `IInv` is
inductive and is checked by TLC in `rename`. The proof of conservation
treats a group commit as a permutation: each freed register and each new entry
of the map has a unique origin among the old slots and the old map, by cases on
whether a later writer of the group overwrites it (`dontWriteAMT`). The proof
has one lemma per action and, under it, one step per conjunct.

`SpeculativeMapIsOverlay` says that the map a source is read from is the
committed map under the writers in flight, the youngest of each register first.
It is stable under renaming, which adds a youngest writer, and under committing,
which moves the oldest from the one side to the other; both are inductions over
the writers, carried out through the least writer at which the two sides
differ. A repair does not keep it but restores it: `RepairedSoFar` says that
after k cycles the first k packets of the map are the committed ones, so that
after the last cycle all are, by `RepairAssumption`. The refinement then needs
little more: that a renamed destination is used by nothing else is conservation,
and that commits move the youngest of a group is the overlay on the committed
side.

### Active list (`ActiveListProofs`)

From `ListAssumption`: `Typing` (`TypeOK`), `NoStale` (`NoStaleBits`),
`OneReason` (`OneFlag`), `WrongNeverCommits`, which says that no load of a
commit group has read too early, `PairsStayTogether` (`PairInv`), `HeadNeverBlocked`
(`ReadyHeadLeaves`) and `RetiresInOrder` (`ImplementsInOrderRetire`).

Neither of the first two properties about bits is inductive. A violation bit is
set on a load found by a store, and if that load committed in the same cycle the
bit would be left behind in a free slot. It cannot, by `ConflictsOpen`: a load
that has read too early is in flight, and either a marked load that is no
younger stops the head, or all the stores it should have waited for are still to
execute, and are older. The step uses that a store and a load do not write back
in one cycle (`OneMemoryPipe`), for a load that executes with the store it
depends on would find its conflict already settled. `OneFlag` needs
`BitsFitKinds`: a violation bit is on a load or a half, an executed
misprediction on a branch. `ConflictsOpen` holds between flushes only, as the
count is cleared a cycle before the RAMs.

The last three need what the list looks like around split instructions.
`Paired`: what follows a first half in the list is a second half, also across
the end of the RAMs; it has to survive that halves commit and are overwritten by
others. `MarkedAreWrong`: a violation bit is on a load that has read too early,
so that a flush at a marked head is one the abstract list allows. `FlushIsEmpty`:
a flag finds the list empty, so the abstract step of a flush is the one before it.

### Control queue (`CtrlQueueProofs`)

From `QueueAssumption`: `Typing` (`TypeOK`) and `Agreement` (`QueueAgrees`). The
number of pending updates is read off the distance of two pointers, so it must
be known that the distance never is a full round. `NeverAllPending` is that
fact: until a system call every cycle with a pending entry updates one, so
however large the commit groups, one place stays free. After a system call the
bits are gone (finding 1), entries can be pending for ever, and what survives is
`BitsBounded`: no more bits than pending entries.

### Store queue (`StoreQueueProofs`)

From `QueueAssumption`, which asks that a bundle and a commit group fit the
queue: `Typing` (`TypeOK`), `Agreement` (`QueueAgrees`), `AddressKept`
(`CommittedHaveAddress`) and `InOrder` (`WritesInOrder`).

The code keeps the same queue four times, in pointers, count, valid and
committed bits, and contents; an ordinary cycle changes each by windows of slot
numbers, a flush recomputes the bits. The invariant restates all of them by the
distance of a slot from the head (`fromHead`): `Pointers`, `Bits`, `Addresses`,
`Contents`. The head that a flush has written and erased (finding 2) shifts the
contents by one entry, `erased`, until the next cycle writes it again. The lemma
`Windows` translates a window of slot numbers into one of distances, once for
dispatch, commit and write.

### System calls (`SyscallProofs`)

From `MachineAssumption` and `ProgramsAssumption` (what programs may put in
registers), for any number of threads, locks and descriptors:
`Types` (`TypeOK`), `MutualExclusion` (`LockHasOneHolder`), `StreamsStayOpen`
(`StdStreamsOpen`), `StoresNamed` (`OnlyNamedMemory`) and `BreaksCover`
(`BreakCoversRequest`): a granted break covers what was asked for and the old
one, also when rounding up to a page wraps around, which needs that the data
ends at least a page below the end of the address space. The types are an
invariant of their own (`TypesInductive`), as the results of 44 calls have to be
words and descriptors whatever the host answers, and calls use each other's
results. Exclusion needs `UnlockersHold`: a thread that has trapped holds the
lock if its call is an unlock. What has to be shown is that no other thread's
step takes the lock away between the trap and its
service, a fork of the holder included.

### Debug buffer and unaligned accesses

`CoSimProofs` begins with what makes the debug buffer a FIFO, for each operation,
every power of two and any entries: `NewBufferIsEmpty`, `StartAppends`,
`PushesTouchYoungest`, `PopTakesOldest`. `Unaligned` proves for every address,
memory and register that the pairs LWL/LWR and SWL/SWR, in either order, are an
unaligned load (`UnalignedLoad`) and store (`UnalignedStore`).

### Co-simulation (`CoSimProofs`)

From `CoSimAssumption`, `ProgramsAssumption` and `DebugSizeAssumption`, for every
set of such programs, every size of buffer and store queue, every commit width,
and for cores and netlists:

| Theorem | Statement |
|---|---|
| `Types` | `Spec => [](~resumed => TypeOK)` |
| `NoFalseAlarm` | `Spec => []InStep` |
| `MemoriesAgree` | `Spec => []MemorySync` |
| `NoMissedFault` | `Spec => []FaultReported` |
| `Refinement` | `Spec => ImplementsIsa` |

There is no assumption about where the core goes after a call: the properties
themselves end when it goes on behind the first one (`resumed`). They include
the call: what is taken, compared and copied when it is served.

The argument is about one object, the window of the debug buffer read as a piece
of the program's execution. `Chain` says there is a sequence of states of the
program, one before each entry and one after the last, such that each entry
records what its instruction does in its state; `Stops`, that the last state is
the functional simulator's and that a system call can only be the last
entry, which is when the simulator is blocked. `Linked` is both, from the
committed state on. `RunAheadKeeps`: running ahead extends the chain at the young
end. `TakeKeeps`: taking an entry shortens it at the old end, and the entry is
what the program does next, so the comparison cannot differ and the assertion
about the pc holds. `UndoneIsBase`: undoing the stores of the window from
the last state gives the memory of the first, because the before-image of the
oldest store to a doubleword is what that doubleword was.

The core moves along the same chain. `Synced` says that the state of the checker
is the first of the chain and its memory the testbench's under the store queue
(`Overlaid`); `InProgram`, that the core is there too; `InRoutine`, that it is in
the set-up routine, which loads the registers of that state half by half
(`Loaded`) and has as many lanes left as are to be skipped. `IInv` says this
until the first call is answered: `Typed`, `Synced` and one of the two, and of a
core that was wrong, that it has been reported. A commit group is an induction
over its instructions, each of which takes one entry for one lane or two. Its
next pc must not be the pc of the last lane (`Synced`), or it would pass for the
second half of a split: no instruction is followed by itself (`NotAgain`).

The call itself is a step of its own. `AnsweredMemory`: the copy is the
functional simulator's memory, and the store queue over it differs in the word
filled at most, because every other pending store has the value that is there
already. `TrapKeeps`: taking the entry of the call keeps the chain, from the
answered state on, so that `CalledOnce` holds behind it. When the core goes on
from there nothing is claimed any more (`IInvBeyond`).

`run_ahead`, a commit group and the checker are loops, and induction over their
rounds is done through the least round at which the claim fails (`Least`,
`Rounds`).

### Start-up, checkpoints and memory (`BootProofs`)

From `TargetMemoryAssumption`, `LoaderAssumption` and the four assumptions of `Boot`,
for every set of programs, config files, jobs and recordings, any number and
length of arguments, and every size of block, table, segments and stack:

| Theorem | Statement |
|---|---|
| `Inductive` | `Spec => []IInv` |
| `Typing` | `Spec => []TypeOK` |
| `TextsStay` | `Spec => []TextsAgree` |
| `Replays` | `Spec => []ReplayFollowsRecording` |
| `ArgumentsAreThere` | `Spec => []ArgumentsInPlace` |
| `FlatMemoryIsImplemented` | `Spec => PortsAreFlat` |

The proof goes from addresses up. `WriteBytesWrites` says what a store does to
every byte of the table, in whichever blocks it lies; `CopyIsMaster`, that a copy
has the bytes of the source; `WordOf` and `NumOf` are inverse as long as the
table is below the largest word, which is the last conjunct of
`TargetMemoryAssumption`. A `Write` of the loader either stores all its bytes or marks
the load as failed (`Wrote`), and everything after it is said of loads that have
not failed. The loops over sections and over the strings of the stack are
recursive functions of the round, so that induction is once more over the
least round that fails: `FirstLoaded` has the bytes of the sections loaded so
far, which stay because sections are apart; `Vector` has the pointers and
strings placed so far, each between the end of the pointers and the next free
byte, so that neither a later pointer nor a later string can be written over them.
`NewThreadIsFresh` sums up what a thread is that was not refused (`Fresh`), and
`DecodeIs`, by cases on whether an address is one of an instruction, what
decoding makes of it.

`IInv` has one part for each thing a later stage relies on:

* `Roles`, `Working`, `Early`: which process may be in which stage, in which mode
  its traps are taken, and that the ports are untouched until the core starts.
* `LoadedText`, `CopiedText`, `DecodedText`, `FetchedText`: the text as it was
  loaded, the testbench's copy of it, the decoded one of the functional
  simulator, which after a restore is that of the recorded program, and the last
  instruction fetched. A step keeps them if it keeps the text (`TextKept`),
  which for a system call and a patch follows from where pointers point and
  for a fetch from where an instruction starts.
* `HeadInv`, `RecordedInv`, `RecordingInv`, `ReplayInv`: what makes a replay
  follow. `History` relates the states that were recorded to the trap records in
  the file: every step between two of them is an instruction or a record with
  the number of that instruction, and no two records have the same number
  (`Apart`). A replaying process is at such a state, or, while it is blocked,
  one step behind a trap (`Follows`).

`ReplayFollowsRecording` alone is not inductive, for the state in the file and
the records in it must be known to belong to the states; and `restore_trap`
must take the record of this trap and no other: it checks the number of the
instruction against the record at its position, and with `Apart` that is the
record the step of the recording wrote. An instruction has the same effect for both because it
depends on the architected state alone (`ArchExecutes`). `PortsAreFlat` follows
step by step: a read or a write in one block is one in the flat memory, and
all other steps either leave every byte, or are the copy.

### Only model-checked

* Liveness, which is out of the prover's reach: `FreeListRefills`,
  `FetchResumes`, `UpdatesUntilException`, `CommittedLeaves`, `Finishes` and
  `StartsUp`.
* The five runs that expect a violation, which are counterexamples.

## 6. Findings

1. `CtrlQueue.sv` 499: a system call resets the RAM of committed bits but not
   the pointers. Entries that were committed and had not yet updated the
   predictor keep their place and lose their bit, so the head stops there, while
   FetchStage2.sv 92-93 says that committed control instructions are popped and
   update the BTB and the predictor. Seen by `ctrl_queue_updates`;
   `UpdatesUntilException` shows that before a system call all is well.
   Programs stay correct, since the queue carries hints, but entries stay
   reserved until the pointers have gone round.
2. `LSUControl.sv` 161-163: the condition that would keep the head of the store
   queue from being written in the cycle of a flush is commented out. The store
   is written and its entry erased, but the pointer and the bits follow the
   flush branch and keep it: the next cycle writes an erased entry, a byte of
   zero to address 0. Seen by `store_queue_flush`; `WritesInOrder` shows that
   this is the only write out of order.
3. `lib.src/syscall.cc` 1812: the unlock call "resets the lock", but a thread
   that once failed to get that lock keeps its address in `lockaddr`, so the
   wake-up of `main_misc.cc` finds the caller among the waiters and hands the
   lock back to it. Nobody else waits, and the lock stays taken. Seen by
   `syscall_unlock` with one thread; exclusion is not affected
   (`MutualExclusion`).
4. `simulate.sv` 683: after a system call the registers of the functional
   simulator "should be copied to the Register File" (676-677), but the calls
   that do it are commented out; the routine that would load them is rewritten
   at address 0, and the core resumes behind the call (`ActiveList.sv` 1119).
   Its rename map was reset by the exception, so the registers are whatever the
   reset map names. Seen by `cosim_trap`.

5. `simulate.sv` 3762: "when SCRATCH PAD is bypassed, skip the required number of
   instructions" (3758), two per register and one for the jump of the routine
   (3985). The count is set again at every system call (672, 3986), but the core
   does not run the routine again (finding 4): what is skipped are instructions
   of the program, which are not verified and stay in the debug buffer. And the
   count goes down by whole commit groups. The routine's jump ends a group, so
   that after it the count is zero; in the program no group need end there, and
   a count that has passed zero never equals it again: nothing is verified for the
   rest of the simulation. Seen by `cosim_skip`. This is why the properties of
   `cosim` end where the core goes on behind an answered call.
6. `simulate.sv` 648-653: "the memory state of the timing simulator is now stale.
   Copy values from the functional simulator." The copy does not wait for the
   store queue. If a store older than the call is still there and the call
   answers at the same address, as reading into a buffer just cleared does, the
   store is written over the answer and the core later reads the older value.
   `MemorySync` of `cosim` says exactly that: behind the call the two memories
   differ at most in the word the call filled, and only if a store to it was
   pending (`overtaken`). Without that disjunct it fails for the third program in
   the step of the call.
7. `STX_path_structured.sv` 377 and 510 say that the youngest load that violated
   is marked. The code at 520-533 marks the oldest, which is what
   `ImplementsInOrderRetire` needs: the mutant `violatingYoungest` fails it.
8. `ActiveList.sv` 793-796 says that a system call commits and that the recovery
   follows. `commitVector_f` (834-839) keeps it from committing: it is flushed
   with what is behind it, and `InOrderRetire` has it restart.

In findings 7 and 8 the code does what it should and the comments are wrong. One
more was met in the proofs and shows up as an assumption about programs.

* `simulate.sv` 3768-3770: a lane with the pc of the last lane seen is taken
  for the second half of a split, so that a branch to itself would be compared
  once and skipped from then on. The last conjunct of `ProgramsAssumption`
  excludes it. A system call does not change `lastCommitPC`, so a loop of a
  call and a branch back to it has the same effect, but behind a call, where
  nothing is promised.

## 7. Not modelled, and why

Caches are compiled out in every configuration file; predictors hold hints
only; execution is arithmetic on data; the RAM macros, the library cells, the
self test, the serial links and the debug registers have no part in the
protocol of the core. Of the simulator, what nothing calls in the default
build: the predictor tables for the testbench (`gshare_predictor.h`,
`getBpCounter`, `setBpCounter`), the older checker (`checkRetireInst`), the
perfect next pc, the stand-alone main, the loader for BFD builds and the
system calls of `REAL_TIME` builds. The headers of BFD, obstacks and VPI
(`bfd.h`, `obstack.h`, `ecoff.h`, `vpi_user.h`) are vendored.

The load queue, the issue queue, the instruction buffer and fetch have state
that matters and are not modelled yet: section 8. The hazards of
`PROJECT.json` that no property covers are theirs.

`PROJECT.json` gives the reason for each component.

## 8. Plan

Done: `RenameCore` and `ActiveList` with their abstractions; `CtrlQueue`;
`StoreQueue`; the functional simulator from its start-up to its system calls,
its buffer and its checker (`Boot`, `Loader`, `TargetMemory`, `Syscall`,
`DebugBuffer`, `CoSim`, `Isa`, `Unaligned`). Every safety property the passing
runs check is proved for all constants: the invariants of the four modules
of the core, of the system calls, of the buffer, of the co-simulation and of
start-up and checkpoints, and the refinements of renaming, retirement, the
program and the memory.

Left, the most important first:

1. `LoadQueue`: dispatch, execution, violation windows, replay and the partial
   match, composed with `StoreQueue`; abstract specification: a load returns
   the youngest older store to its address. Bounds: two addresses, two loads,
   two stores. Its theorem: windows as masks equal windows by age.
2. `IssueQueue` with its free list and the shift registers: no consumer issues
   before its producer, entries conserved.
3. `InstructionBuffer` against an abstract FIFO; proof of the refinement.
4. `Fetch`: redirects and the return stack through flushes.
5. `DCache`: MSHR, miss under miss, store buffer, against an abstract memory.
6. `PowerManager`: the drain and reconfiguration FSM.
7. Combinational algorithms against reference definitions over bounded inputs:
   select trees, index generation of `DispatchedStore` and `DispatchedLoad`.
