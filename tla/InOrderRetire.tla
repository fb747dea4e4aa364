--------------------------- MODULE InOrderRetire ---------------------------
(***************************************************************************)
(* What retirement promises: the instructions in flight leave in program   *)
(* order, each only after it has executed, and none that read a value an   *)
(* older store had yet to write; a mispredicted branch leaves alone and    *)
(* takes everything younger with it; the two halves of an instruction that *)
(* decode split leave together; a system call never leaves, it restarts:   *)
(* ActiveList.sv 834-839; the comment at 793-796 has it commit first.      *)
(***************************************************************************)
EXTENDS Naturals, Sequences

CONSTANT Kinds

\* Instructions in flight, oldest first.  `wrong` and `misp` are settled when
\* the instruction executes.
VARIABLE window

Fresh(kind) == [kind |-> kind, done |-> FALSE, wrong |-> FALSE, misp |-> FALSE]

Arrivals == Seq({Fresh(kind) : kind \in Kinds})

Init == window = <<>>

MayLeave(e) == e.done /\ ~e.wrong /\ ~e.misp /\ e.kind # "syscall"

\* An instruction that has executed no longer changes
Executes(before, after) ==
    /\ after.kind = before.kind
    /\ before.done => after = before
    /\ ~after.done => after = before

\* The oldest k leave, others execute, new ones arrive
Retire(k) ==
    LET rest == Len(window) - k IN
    /\ \A i \in 1 .. k : MayLeave(window[i])
    /\ k > 0 => window[k].kind # "first"
    /\ Len(window') >= rest
    /\ \A i \in 1 .. rest : Executes(window[i + k], window'[i])
    /\ SubSeq(window', rest + 1, Len(window')) \in Arrivals

\* The oldest one, or the second half of the pair it begins, cannot leave
Restarts ==
    /\ window # <<>>
    /\ window[1].done
    /\ \/ window[1].kind = "syscall"
       \/ window[1].misp
       \/ window[1].wrong
       \/ /\ window[1].kind = "first" /\ Len(window) > 1
          /\ window[2].done /\ window[2].wrong
    /\ window' = <<>>

Next == (\E k \in 0 .. Len(window) : Retire(k)) \/ Restarts

Spec == Init /\ [][Next]_window
=============================================================================
