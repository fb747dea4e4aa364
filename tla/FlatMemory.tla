----------------------------- MODULE FlatMemory -----------------------------
(***************************************************************************)
(* What the testbench expects of its memory ports: one byte per address,   *)
(* little-endian halves and words, zero or sign extension, and             *)
(* $copyMemory, which makes its memory that of the functional simulator.   *)
(***************************************************************************)
EXTENDS Integers, Sequences

CONSTANTS Byte, Addrs,
          RoutineEnd        \* the set-up routine is below this address

VARIABLES bytes,        \* the testbench's memory
          source,       \* the functional simulator's memory
          request,      \* the last call: [n, port, addr, size, signed, data]
          value         \* the last value read, lowest byte first

flatVars == <<bytes, source, request, value>>

Calls(port) == request'.n = request.n + 1 /\ request'.port = port
Touched == {b \in Addrs : b >= request'.addr /\ b < request'.addr + request'.size}

Write ==
    /\ Calls("write")
    /\ bytes' = [b \in Addrs |-> IF b \in Touched THEN request'.data[b - request'.addr + 1]
                                                  ELSE bytes[b]]
    /\ UNCHANGED <<source, value>>

\* The bytes, then copies of the sign or zeros.
Read ==
    LET byte(k) == bytes[request'.addr + k - 1]
        negative == byte(request'.size) >= Byte \div 2
    IN  /\ Calls("read")
        /\ value' = [k \in 1 .. 4 |-> IF k <= request'.size THEN byte(k)
                                      ELSE IF request'.signed /\ negative THEN Byte - 1
                                      ELSE 0]
        /\ UNCHANGED <<bytes, source>>

Copy ==
    /\ Calls("copy")
    /\ \A b \in Addrs : b >= RoutineEnd => bytes'[b] = source'[b]
    /\ UNCHANGED value

Fetch == Calls("fetch") /\ UNCHANGED <<bytes, source, value>>

\* The functional simulator runs on its own memory.
Run == UNCHANGED <<bytes, request, value>>

FlatInit == bytes = [b \in Addrs |-> 0]
FlatNext == Write \/ Read \/ Copy \/ Fetch \/ Run
FlatSpec == FlatInit /\ [][FlatNext]_flatVars
============================================================================
