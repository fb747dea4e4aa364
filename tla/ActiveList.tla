----------------------------- MODULE ActiveList -----------------------------
(***************************************************************************)
(* The active list (retire/ActiveList.sv): a circular list of the          *)
(* instructions in flight, with one RAM of instruction data written at     *)
(* dispatch and three RAMs of bits written at write-back.                  *)
(*                                                                         *)
(* Nothing marks a slot as occupied and dispatch does not clear the bits of*)
(* the slot it fills: an old instruction's bit left behind would be read as*)
(* the new one's.  One step is one edge of the clock.                      *)
(*                                                                         *)
(* The memory order that the LSU watches is a ghost: conflicts[s] is the   *)
(* set of older stores that the load in s should have waited for, and s    *)
(* itself if an older store held only a part of what it reads.             *)
(***************************************************************************)
EXTENDS Naturals, Sequences, FiniteSets, FiniteSetsExt

CONSTANTS SIZE_ACTIVELIST, DISPATCH_WIDTH, COMMIT_WIDTH, ISSUE_WIDTH

ASSUME ListAssumption ==
    /\ DISPATCH_WIDTH \in Nat \ {0}
    /\ ISSUE_WIDTH \in Nat \ {0}
    /\ COMMIT_WIDTH \in Nat /\ COMMIT_WIDTH >= 2
    /\ SIZE_ACTIVELIST \in Nat
    /\ SIZE_ACTIVELIST >= COMMIT_WIDTH
    /\ SIZE_ACTIVELIST > DISPATCH_WIDTH

Slots == 0 .. SIZE_ACTIVELIST - 1

\* "first" and "second" are the halves of an instruction that decode split in
\* two; "branch" also stands for the instructions with nothing special.
Kinds == {"branch", "load", "store", "syscall", "first", "second"}

Loads == {"load", "first", "second"}

VARIABLES headPtr, tailPtr, alCount,
          dataAl,             \* activeList RAM: slot -> kind
          mispredict,         \* ctrlActiveList RAM, bit 0 of the flags
          executed,           \* executedActiveList RAM
          violateBit,         \* ldViolateVector RAM
          mispredFlag_reg, violateFlag_reg, exceptionFlag_reg,
          conflicts           \* ghost, see above

ptrVars  == <<headPtr, tailPtr, alCount>>
ramVars  == <<dataAl, mispredict, executed, violateBit>>
flagVars == <<mispredFlag_reg, violateFlag_reg, exceptionFlag_reg>>
vars     == <<ptrVars, ramVars, flagVars, conflicts>>

-----------------------------------------------------------------------------
Wrap(x) == IF x >= SIZE_ACTIVELIST THEN x - SIZE_ACTIVELIST ELSE x

headAddr(i) == Wrap(headPtr + i)

tailAddr(i) == Wrap(tailPtr + i)

\* How many instructions in flight are older than slot s
age(s) == IF s >= headPtr THEN s - headPtr ELSE s + SIZE_ACTIVELIST - headPtr

InFlight == {s \in Slots : age(s) < alCount}

recoverFlag == mispredFlag_reg \/ violateFlag_reg

flushCycle == recoverFlag \/ exceptionFlag_reg

-----------------------------------------------------------------------------
(* Commit: lane i of the head.  Flags that depend on the kind alone are     *)
(* written with the ready bit that gates every read of them.                *)

commitReady(i) == executed[headAddr(i)]

commitFission(i) == commitReady(i) /\ dataAl[headAddr(i)] = "first"

mispredFlag(i) == commitReady(i) /\ mispredict[headAddr(i)]

exceptionFlag(i) == commitReady(i) /\ dataAl[headAddr(i)] = "syscall"

\* Mutant of violateFlag: without the corner case of a split instruction
violateFlagOfLane(i) == commitReady(i) /\ violateBit[headAddr(i)]

\* Mutant of violateFlag: the corner case for a head that is not split
violateFlagOfNext(i) ==
    \/ commitReady(i) /\ violateBit[headAddr(i)]
    \/ i = 0 /\ commitReady(1) /\ violateBit[headAddr(1)]

violateFlag(i) ==
    \/ commitReady(i) /\ violateBit[headAddr(i)]
    \/ i = 0 /\ commitFission(0) /\ commitReady(1) /\ violateBit[headAddr(1)]

commitVector_f(i) ==
    /\ i < alCount
    /\ commitReady(i)
    /\ ~violateFlag(i)
    /\ ~exceptionFlag(i)
    /\ i > 0 => ~mispredFlag(i) /\ ~mispredFlag(0)

commitVector(i) ==
    /\ commitVector_f(i)
    /\ commitFission(i) => i < COMMIT_WIDTH - 1 /\ commitVector_f(i + 1)

totalCommit ==
    Max({k \in 0 .. COMMIT_WIDTH : \A i \in 0 .. k - 1 : commitVector(i)})

committing == {headAddr(i) : i \in 0 .. totalCommit - 1}

recovers == mispredFlag(0) \/ violateFlag(0) \/ exceptionFlag(0)

-----------------------------------------------------------------------------
(* Dispatch, and the write-backs of a cycle *)

\* Mutant of alStall: off by one
alStallLate == alCount + DISPATCH_WIDTH > SIZE_ACTIVELIST + 1

alStall == alCount + DISPATCH_WIDTH > SIZE_ACTIVELIST

\* Decode emits the second half right after the first
WellPaired(bundle) ==
    LET before(i) == IF i > 1 THEN bundle[i - 1]
                     ELSE IF alCount > 0 THEN dataAl[tailAddr(SIZE_ACTIVELIST - 1)]
                     ELSE "none"
    IN  \A i \in DOMAIN bundle : bundle[i] = "second" <=> before(i) = "first"

Bundles == {<<>>} \union [1 .. DISPATCH_WIDTH -> Kinds]

\* The instructions whose write-back packets arrive: one memory pipe
IsWriteBack(W) ==
    /\ W \subseteq {s \in InFlight : ~executed[s]}
    /\ Cardinality(W) <= ISSUE_WIDTH
    /\ Cardinality({s \in W : dataAl[s] \in Loads \union {"store"}}) <= 1

\* What the load in s may get wrong if it executes now
mayConflict(s) ==
    {s} \union {t \in InFlight : /\ dataAl[t] = "store"
                                 /\ ~executed[t]
                                 /\ age(t) < age(s)}

\* Mutant of violating: the youngest load is marked instead of the oldest
violatingYoungest(W, wrongLoads) ==
    LET early == {s \in InFlight : conflicts[s] \intersect W # {}}
        last  == {s \in early : \A t \in early : age(s) >= age(t)}
    IN  last \union {s \in W : s \in wrongLoads[s]}

\* The memory check of the LSU: a store finds the oldest younger load that
\* read before it, a load finds that an older store holds only part of it.
\* The code takes the first match from nextLoad on, so the oldest; the comments
\* at STX_path_structured.sv 377 and 510 say the youngest.
violating(W, wrongLoads) ==
    LET early == {s \in InFlight : conflicts[s] \intersect W # {}}
        first == {s \in early : \A t \in early : age(s) <= age(t)}
    IN  first \union {s \in W : s \in wrongLoads[s]}

-----------------------------------------------------------------------------
Init ==
    /\ headPtr = 0 /\ tailPtr = 0 /\ alCount = 0
    /\ dataAl = [s \in Slots |-> "none"]
    /\ mispredict = [s \in Slots |-> FALSE]
    /\ executed = [s \in Slots |-> FALSE]
    /\ violateBit = [s \in Slots |-> FALSE]
    /\ mispredFlag_reg = FALSE
    /\ violateFlag_reg = FALSE
    /\ exceptionFlag_reg = FALSE
    /\ conflicts = [s \in Slots |-> {}]

PointerUpdate(bundle) ==
    /\ headPtr' = Wrap(headPtr + totalCommit)
    /\ tailPtr' = Wrap(tailPtr + Len(bundle))
    /\ alCount' = IF recovers THEN 0 ELSE alCount + Len(bundle) - totalCommit

FlagUpdate ==
    /\ mispredFlag_reg' = mispredFlag(0)
    /\ violateFlag_reg' = violateFlag(0)
    /\ exceptionFlag_reg' = exceptionFlag(0)

DispatchWrite(bundle) ==
    dataAl' = [s \in Slots |->
                  IF \E i \in DOMAIN bundle : s = tailAddr(i - 1)
                  THEN bundle[CHOOSE i \in DOMAIN bundle : s = tailAddr(i - 1)]
                  ELSE dataAl[s]]

\* Mutant of WriteBack: commit does not clear the executed bits
WriteBackUncleared(W, misp, wrongLoads) ==
    /\ mispredict' = [s \in Slots |-> IF s \in W THEN s \in misp
                                      ELSE mispredict[s]]
    /\ executed' = [s \in Slots |-> s \in W \/ executed[s]]
    /\ violateBit' = [s \in Slots |-> \/ violateBit[s]
                                      \/ s \in violating(W, wrongLoads)]
    /\ conflicts' = [s \in Slots |-> IF s \in committing THEN {}
                                     ELSE conflicts[s] \union wrongLoads[s]]

\* W executes, the branches of `misp` were mispredicted, a load is wrong about
\* what `wrongLoads` says
WriteBack(W, misp, wrongLoads) ==
    /\ mispredict' = [s \in Slots |-> IF s \in W THEN s \in misp
                                      ELSE mispredict[s]]
    /\ executed' = [s \in Slots |-> IF s \in committing THEN FALSE
                                    ELSE s \in W \/ executed[s]]
    /\ violateBit' = [s \in Slots |-> \/ violateBit[s]
                                      \/ s \in violating(W, wrongLoads)]
    /\ conflicts' = [s \in Slots |-> IF s \in committing THEN {}
                                     ELSE conflicts[s] \union wrongLoads[s]]

NoneWrong == [s \in Slots |-> {}]

WrongLoads(W) ==
    {NoneWrong} \union
    UNION {{[NoneWrong EXCEPT ![s] = c] : c \in SUBSET mayConflict(s)} :
               s \in {t \in W : dataAl[t] \in Loads}}

Cycle(bundle, W, misp, wrongLoads) ==
    /\ ~flushCycle
    /\ alStall => bundle = <<>>
    /\ WellPaired(bundle)
    /\ IsWriteBack(W)
    /\ PointerUpdate(bundle)
    /\ FlagUpdate
    /\ DispatchWrite(bundle)
    /\ WriteBack(W, misp, wrongLoads)

\* The edge that ends the cycle of a flag: every RAM is reset, whatever is
\* being written
Flush ==
    /\ flushCycle
    /\ headPtr' = 0 /\ tailPtr' = 0 /\ alCount' = 0
    /\ dataAl' = [s \in Slots |-> "none"]
    /\ mispredict' = [s \in Slots |-> FALSE]
    /\ executed' = [s \in Slots |-> FALSE]
    /\ violateBit' = [s \in Slots |-> FALSE]
    /\ mispredFlag_reg' = FALSE
    /\ violateFlag_reg' = FALSE
    /\ exceptionFlag_reg' = FALSE
    /\ conflicts' = NoneWrong

Next ==
    \/ \E bundle \in Bundles, W \in SUBSET InFlight :
       \E misp \in SUBSET {s \in W : dataAl[s] = "branch"},
          wrongLoads \in WrongLoads(W) :
          Cycle(bundle, W, misp, wrongLoads)
    \/ Flush

Spec == Init /\ [][Next]_vars

-----------------------------------------------------------------------------
(* Properties *)

\* The pointers stay on the list and enclose alCount slots until a flush is
\* decided.
TypeOK ==
    /\ headPtr \in Slots /\ tailPtr \in Slots
    /\ alCount \in 0 .. SIZE_ACTIVELIST
    /\ ~flushCycle => tailPtr = Wrap(headPtr + alCount)
    /\ dataAl \in [Slots -> Kinds \union {"none"}]
    /\ mispredict \in [Slots -> BOOLEAN]
    /\ executed \in [Slots -> BOOLEAN]
    /\ violateBit \in [Slots -> BOOLEAN]
    /\ mispredFlag_reg \in BOOLEAN
    /\ violateFlag_reg \in BOOLEAN
    /\ exceptionFlag_reg \in BOOLEAN
    /\ conflicts \in [Slots -> SUBSET Slots]

\* Between flushes the bits set in the RAMs belong to instructions in flight:
\* an instruction never enters a slot that already says executed or violating
\* (dispatch does not clear the bits, ActiveList.sv 370-592).
NoStaleBits ==
    ~flushCycle =>
        /\ \A s \in Slots : executed[s] => s \in InFlight
        /\ \A s \in Slots : violateBit[s] => s \in InFlight

\* Misprediction, violation and exception are decided about the oldest
\* instruction alone, so two of them never flush at once (recoverPC_o and the
\* reset of the core would follow different ones, ActiveList.sv 638-650).
OneFlag ==
    Cardinality({f \in 1 .. 3 : flagVars[f]}) <= 1

\* A cycle that finds the oldest instruction executed, and its other half too
\* when it is a pair, commits something or starts a flush: no combination of
\* bits in the lanes blocks the head (the corner case ActiveList.sv 864-871).
ReadyHeadLeaves ==
    [][ /\ ~flushCycle
        /\ alCount > 0
        /\ commitReady(0)
        /\ commitFission(0) => alCount > 1 /\ commitReady(1)
        => totalCommit > 0 \/ flushCycle' ]_vars

\* Position i of the program order, as the abstract specification sees it
entry(i) ==
    LET s == headAddr(i - 1) IN
    [kind |-> dataAl[s], done |-> executed[s], wrong |-> conflicts[s] # {},
     misp |-> executed[s] /\ mispredict[s]]

Retirement == INSTANCE InOrderRetire WITH
    window <- [i \in 1 .. alCount |-> entry(i)]

\* The list retires in order, only what has executed, never a load that read
\* too early, never half a pair, and a mispredicted branch alone.  It is what the
\* code does; two comments say otherwise: that the youngest violating load is
\* marked (STX_path_structured.sv 377, 510), and that a system call commits before
\* its recovery (ActiveList.sv 793-796; 834-839 keep it from committing).
ImplementsInOrderRetire == Retirement!Spec
=============================================================================
