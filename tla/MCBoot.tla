------------------------------- MODULE MCBoot -------------------------------
(***************************************************************************)
(* Model for Boot: bytes of four bits, blocks of sixteen bytes.  Block 0   *)
(* is the routine's, 1 the text, 3 the data, 5 and 6 the stack; 2 and 4    *)
(* are not there at first.                                                 *)
(***************************************************************************)
EXTENDS Boot

Li == 1  Ptr == 2  Sb == 3  Lb == 4  Trap == 5

\* In the binary opcodes have other numbers.
MCmask2op == [b \in 0 .. 15 |-> IF b \in 9 .. 13 THEN b - 8 ELSE 0]
mask(op) == op + 8

Code(insts) == FoldLeft(LAMBDA s, i : s \o <<mask(i[1]), i[2]>>, <<>>, insts)
Executable(insts) ==
    [sections |-> <<[kind |-> "text", addr |-> 16, bytes |-> Code(insts)],
                    [kind |-> "data", addr |-> 48, bytes |-> <<6, 0, 7>>],
                    [kind |-> "bss", addr |-> 52, bytes |-> <<>>]>>,
     dsize |-> 3, bsize |-> 8, entry |-> 16, big_endian |-> FALSE, large |-> FALSE]

\* Reads into the data, and stores in a block that is not there; traps with what
\* was read; reads into a block that is not there; a text that fills its block.
Filter == Executable(<<<<Ptr, 1>>, <<Li, 3>>, <<Trap, 0>>, <<Ptr, 2>>, <<Sb, 0>>, <<Li, 1>>, <<Trap, 0>>>>)
Echo == Executable(<<<<Ptr, 1>>, <<Li, 3>>, <<Trap, 0>>, <<Lb, 0>>, <<Trap, 0>>, <<Li, 1>>, <<Trap, 0>>>>)
Heap == Executable(<<<<Ptr, 2>>, <<Li, 3>>, <<Trap, 0>>, <<Li, 1>>, <<Trap, 0>>>>)
Full == Executable([k \in 1 .. 8 |-> <<Li, k>>])

MCImages ==
    <<Filter, Echo, Heap, Full, [Filter EXCEPT !.big_endian = TRUE],
      [Filter EXCEPT !.sections = SubSeq(@, 1, 1), !.dsize = 0, !.bsize = 0],
      [Filter EXCEPT !.large = TRUE], [Filter EXCEPT !.entry = 0],
      [Filter EXCEPT !.sections[2].bytes = <<>>]>>

Job == 100
Ckpt == 101
Named(v) == [letter |-> "", value |-> v]
Opt(l, v) == [letter |-> l, value |-> v]
Jobs(args) == (Job :> args)
Input(words, newline, args, recording) ==
    [words |-> words, newline |-> newline, jobs |-> Jobs(args), recording |-> recording]
Live(words, newline, args) == Input(words, newline, args, <<>>)
Recording(args, n) == <<[argv |-> args, skip |-> n]>>

Filtered == <<<<1>>, <<5>>>>
MCInputs ==
    {Live(<<Opt("Z", 4), Named(Job)>>, nl, Filtered) : nl \in BOOLEAN}
    \cup {Live(<<Opt("z", 1), Opt("Z", NoValue), Named(k), Opt("-", NoValue), Named(Job)>>, TRUE, <<<<2>>>>)
            : k \in {0, 3, 5}}
    \cup {Live(<<Named(Job)>>, FALSE, args) : args \in
            {<<>>, <<<<10>>>>, <<<<1>>, <<5, 6>>>>, <<<<3>>>>} \cup {<<<<p>>>> : p \in 4 .. 9}}
    \cup {Live(<<Opt("L", NoValue), Named(5), Named(Job)>>, TRUE, Filtered),
          Live(<<Opt("Z", 2)>>, TRUE, Filtered),
          Live(<<Opt("Z", NoValue)>>, TRUE, Filtered),
          Live(<<Opt("z", 0), Opt("Z", 2), Named(Job)>>, TRUE, Filtered),
          Live(<<Opt("Y", Ckpt), Opt("L", 5), Named(Job)>>, TRUE, Filtered)}
    \cup {Input(<<Opt("Y", Ckpt), Opt("Z", n), Named(Job)>>, TRUE, r[1], Recording(r[2], r[3])) :
            n \in {2, 5, 9},
            r \in {<<Filtered, Filtered, 2>>, <<Filtered, Filtered, 4>>, <<<<<<2>>>>, <<<<2>>>>, 1>>,
                   <<Filtered, <<<<2>>>>, 1>>, <<<<<<3>>>>, <<<<3>>>>, 0>>}}
============================================================================
