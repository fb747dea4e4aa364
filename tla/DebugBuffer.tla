---------------------------- MODULE DebugBuffer ----------------------------
(***************************************************************************)
(* The debug buffer (include/debug.h): a ring of the instructions that the *)
(* functional simulator has executed and nobody has taken yet.  An entry   *)
(* is filled piecewise while its instruction executes, in the slot `tail`; *)
(* a slot keeps what its last user left in the fields nobody writes.       *)
(*                                                                         *)
(* Source operands, flags and latencies are recorded by the code and left  *)
(* out: no reader of the buffer uses them.                                 *)
(***************************************************************************)
EXTENDS Integers, Sequences

CONSTANT DEBUG_SIZE     \* entries; ACTIVE_SIZE is the same

\* assert(IsPow2(DEBUG_SIZE)): MOD masks, and is % for these sizes only.
ASSUME DebugSizeAssumption ==
    /\ DEBUG_SIZE \in Nat \ {0}
    /\ \E k \in 0 .. DEBUG_SIZE : DEBUG_SIZE = 2 ^ k

Slots == 0 .. DEBUG_SIZE - 1
MOD(a) == a % DEBUG_SIZE

\* new db_t[]: what it holds is never looked at, unless `first` runs on an
\* empty buffer; -1 stands for a pc no instruction has.
Garbage == [a_pc |-> -1, a_next_pc |-> -1, a_inst |-> "none", a_rdst |-> <<>>,
            a_addr |-> 0, real |-> <<0, 0>>, store_data |-> <<0, 0>>]

NewBuffer == [db |-> [i \in Slots |-> Garbage], head |-> 0, tail |-> DEBUG_SIZE - 1, length |-> 0]

\* Does index e lie between head and tail?
is_active(b, e) ==
    /\ b.length > 0
    /\ IF b.head <= b.tail THEN e >= b.head /\ e <= b.tail
                           ELSE e >= b.head \/ e <= b.tail

hungry(b) == b.length < DEBUG_SIZE

----------------------------------------------------------------------------
(* Collecting: start, then the operands, the address and the instruction.  *)

start(b) ==
    LET t == MOD(b.tail + 1) IN
    [b EXCEPT !.length = @ + 1, !.tail = t, !.db[t].a_rdst = <<>>]

\* RDST_OPERAND: destinations, in order.
push_operand_actual(b, n, value) ==
    [b EXCEPT !.db[b.tail].a_rdst = Append(@, [n |-> n, value |-> value])]

\* The doubleword around the address, before a store is performed.
push_address_actual(b, addr, real) ==
    [b EXCEPT !.db[b.tail].a_addr = addr, !.db[b.tail].real = real]

\* Completes the entry; `real` is the doubleword after a store.
push_instr_actual(b, inst, isStore, pc, next_pc, real) ==
    LET e == b.db[b.tail] IN
    [b EXCEPT !.db[b.tail] = [e EXCEPT !.a_inst = inst, !.a_pc = pc, !.a_next_pc = next_pc,
                                       !.store_data = IF isStore THEN real ELSE e.store_data]]

----------------------------------------------------------------------------
(* Consuming                                                               *)

\* What `first` asserts.
FirstHasPC(b, pc) == b.db[b.head].a_pc = pc

\* Mutant of pop: the head is masked with the wrong constant and stays behind.
pop_behind(b) == [b EXCEPT !.length = @ - 1, !.head = MOD(@ + DEBUG_SIZE)]

\* What `pop` asserts, and what it leaves; it returns the entry at the head.
CanPop(b) == b.length > 0
pop(b) == [b EXCEPT !.length = @ - 1, !.head = MOD(@ + 1)]

----------------------------------------------------------------------------

\* The entries between head and tail, oldest first.
Window(b) == [i \in 1 .. b.length |-> b.db[MOD(b.head + i - 1)]]

\* The two pointers and the length describe one window, and is_active agrees.
RingOK(b) ==
    /\ b.head \in Slots /\ b.tail \in Slots
    /\ b.length \in 0 .. DEBUG_SIZE
    /\ b.tail = MOD(b.head + b.length + DEBUG_SIZE - 1)
    /\ \A i \in Slots : is_active(b, MOD(b.head + i)) <=> i < b.length
============================================================================
