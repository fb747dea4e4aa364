----------------------------- MODULE StoreQueue -----------------------------
(***************************************************************************)
(* The store queue of the load-store unit: its control (lsu/LSUControl.sv) *)
(* and the CAMs and RAM that hold its stores (lsu/LDX_path_structured.sv). *)
(* Dispatch reserves entries, execution fills them, the active list        *)
(* commits the oldest ones, and the committed store at the head is written *)
(* to the data cache, one in a cycle.                                      *)
(*                                                                         *)
(* What a store writes is one of Values; an entry that is erased holds     *)
(* `zero`, a byte store of 0 to address 0.  Ghosts keep what the program   *)
(* says: speculative, the stores not committed, oldest first, and retired, *)
(* those committed and not written.  One step is one edge of the clock.    *)
(***************************************************************************)
EXTENDS Integers, Sequences, FiniteSets

CONSTANTS SIZE_LSQ, DISPATCH_WIDTH, COMMIT_WIDTH, Values, zero

ASSUME QueueAssumption ==
    /\ DISPATCH_WIDTH \in Nat \ {0}
    /\ COMMIT_WIDTH \in Nat \ {0}
    /\ SIZE_LSQ \in Nat /\ SIZE_LSQ >= DISPATCH_WIDTH /\ SIZE_LSQ >= COMMIT_WIDTH
    /\ zero \notin Values

VARIABLES stqHead, stqTail, stqCommitPtr, stqCount,
          stqValid, stqCommit, stqAddrValid,  \* entry -> BOOLEAN
          stqData,        \* address, size and data: entry -> Values or zero
          recoverFlag,    \* recoverFlag | exceptionFlag of the active list
          speculative, retired,
          headErased      \* ghost: a flush has written and erased the head

ptrVars   == <<stqHead, stqTail, stqCommitPtr, stqCount>>
bitVars   == <<stqValid, stqCommit, stqAddrValid>>
ghostVars == <<speculative, retired, headErased>>
vars      == <<ptrVars, bitVars, stqData, recoverFlag, ghostVars>>

Entries == 0 .. SIZE_LSQ - 1

Wrap(x) == IF x >= SIZE_LSQ THEN x - SIZE_LSQ ELSE x

\* How many entries from the head on to s
fromHead(s) == IF s >= stqHead THEN s - stqHead ELSE s + SIZE_LSQ - stqHead

fromCommitPtr(s) ==
    IF s >= stqCommitPtr THEN s - stqCommitPtr ELSE s + SIZE_LSQ - stqCommitPtr

-----------------------------------------------------------------------------
\* Mutant of commitSt: a store is written as soon as its address is known
commitStEarly == stqValid[stqHead] /\ stqAddrValid[stqHead]

\* The store at the head is written to the data cache in this cycle, one in
\* which the pipeline is flushed or not
commitSt == stqValid[stqHead] /\ stqCommit[stqHead]

\* Mutant of storeStall: off by one
storeStallLate(n) == stqCount + n > SIZE_LSQ + 1

storeStall(n) == stqCount + n > SIZE_LSQ

stqID(i) == Wrap(stqTail + i - 1)

commitStIndex(i) == Wrap(stqCommitPtr + i - 1)

newStores(n) == {stqID(i) : i \in 1 .. n}

committing(c) == {commitStIndex(i) : i \in 1 .. c}

written(s) == commitSt /\ s = stqHead

\* The entry of a store in flight is filled when the store executes (in any
\* order), the entry of the store written to the cache is erased
EntryWrite(executing) ==
    stqData' = [s \in Entries |->
                   IF s \in executing THEN speculative[fromCommitPtr(s) + 1]
                   ELSE IF written(s) THEN zero
                   ELSE stqData[s]]

\* The retired stores that this cycle leaves to write
unwritten == IF commitSt /\ ~headErased
             THEN SubSeq(retired, 2, Len(retired)) ELSE retired

InFlight == {s \in Entries : stqValid[s] /\ ~stqCommit[s]}

-----------------------------------------------------------------------------
(* What a flush makes of the bits and of the count *)

\* Mutant of stqValid_on_recover: flushed like the load queue, as a whole
stqValidNone == [s \in Entries |-> FALSE]

stqValid_on_recover == [s \in Entries |-> stqValid[s] /\ stqCommit[s]]

\* Mutant of stqAddrValid_on_recover: only its default value
stqAddrValidNone == [s \in Entries |-> FALSE]

stqAddrValid_on_recover == [s \in Entries |-> stqValid[s] /\ stqCommit[s]]

\* Mutant of stqCount_on_recover: unused entries are counted as flushed
stqCountOfCommitBits ==
    stqCount - Cardinality({s \in Entries : ~stqCommit[s]})

stqCount_on_recover == stqCount - Cardinality(InFlight)

-----------------------------------------------------------------------------
Init ==
    /\ stqHead = 0 /\ stqTail = 0 /\ stqCommitPtr = 0 /\ stqCount = 0
    /\ stqValid = [s \in Entries |-> FALSE]
    /\ stqCommit = [s \in Entries |-> FALSE]
    /\ stqAddrValid = [s \in Entries |-> FALSE]
    /\ stqData = [s \in Entries |-> zero]
    /\ recoverFlag = FALSE
    /\ speculative = <<>> /\ retired = <<>>
    /\ headErased = FALSE

\* The stores of `bundle` are dispatched, those in `executing` (one memory
\* pipe: at most one) reach the queue, the c oldest in flight commit
Clock(bundle, executing, c) ==
    /\ ~recoverFlag
    /\ ~storeStall(Len(bundle))
    /\ \A i \in 1 .. c : commitStIndex(i) \in InFlight
                         /\ stqAddrValid[commitStIndex(i)]
    /\ stqHead' = Wrap(stqHead + IF commitSt THEN 1 ELSE 0)
    /\ stqTail' = Wrap(stqTail + Len(bundle))
    /\ stqCommitPtr' = Wrap(stqCommitPtr + c)
    /\ stqCount' = stqCount + Len(bundle) - IF commitSt THEN 1 ELSE 0
    /\ stqValid' = [s \in Entries |-> \/ s \in newStores(Len(bundle))
                                      \/ stqValid[s] /\ ~written(s)]
    /\ stqCommit' = [s \in Entries |-> \/ s \in committing(c)
                                       \/ stqCommit[s] /\ ~written(s)]
    /\ stqAddrValid' = [s \in Entries |-> \/ s \in executing
                                          \/ stqAddrValid[s] /\ ~written(s)]
    /\ EntryWrite(executing)
    /\ speculative' = SubSeq(speculative, c + 1, Len(speculative)) \o bundle
    /\ retired' = unwritten \o SubSeq(speculative, 1, c)
    /\ headErased' = FALSE

Cycle(bundle, executing, c) ==
    Clock(bundle, executing, c) /\ UNCHANGED recoverFlag

\* The active list decides to flush: no store commits in such a cycle
FlushDecision(bundle, executing) ==
    Clock(bundle, executing, 0) /\ recoverFlag' = TRUE

\* The cycle of the flag: the pointers and the bits keep the committed stores
\* only, while the head of the queue is still written to the cache and erased
Recover(executing) ==
    /\ recoverFlag
    /\ stqTail' = stqCommitPtr
    /\ stqValid' = stqValid_on_recover
    /\ stqAddrValid' = stqAddrValid_on_recover
    /\ stqCount' = stqCount_on_recover
    /\ EntryWrite(executing)
    /\ recoverFlag' = FALSE
    /\ speculative' = <<>>
    /\ retired' = unwritten
    /\ headErased' = commitSt
    /\ UNCHANGED <<stqHead, stqCommitPtr, stqCommit>>

Bundles == UNION {[1 .. n -> Values] : n \in 0 .. DISPATCH_WIDTH}

MayExecute == {{}} \union {{s} : s \in {t \in InFlight : ~stqAddrValid[t]}}

Next ==
    \/ \E bundle \in Bundles, executing \in MayExecute, c \in 0 .. COMMIT_WIDTH :
          Cycle(bundle, executing, c)
    \/ \E bundle \in Bundles, executing \in MayExecute :
          FlushDecision(bundle, executing)
    \/ \E executing \in MayExecute : Recover(executing)

Spec == Init /\ [][Next]_vars

\* The clock always ticks and the cycle of the flag follows it; nothing obliges
\* the core to flush.
FairSpec ==
    /\ Spec
    /\ WF_vars(\E bundle \in Bundles, executing \in MayExecute, c \in 0 .. COMMIT_WIDTH :
                  Cycle(bundle, executing, c))
    /\ WF_vars(\E executing \in MayExecute : Recover(executing))

-----------------------------------------------------------------------------
(* Properties *)

\* The pointers stay on the queue and the count never passes its size.
TypeOK ==
    /\ stqHead \in Entries /\ stqTail \in Entries /\ stqCommitPtr \in Entries
    /\ stqCount \in 0 .. SIZE_LSQ
    /\ stqValid \in [Entries -> BOOLEAN]
    /\ stqCommit \in [Entries -> BOOLEAN]
    /\ stqAddrValid \in [Entries -> BOOLEAN]
    /\ stqData \in [Entries -> Values \union {zero}]
    /\ recoverFlag \in BOOLEAN /\ headErased \in BOOLEAN
    /\ speculative \in Seq(Values) /\ retired \in Seq(Values)

Committed == {s \in Entries : stqCommit[s]}

\* Pointers, count and the two bit vectors, each updated on its own and
\* recomputed on its own by a flush, describe the same queue: stqCount valid
\* entries from the head on, the first of them committed, up to stqCommitPtr.
QueueAgrees ==
    /\ stqTail = Wrap(stqHead + stqCount)
    /\ stqCommitPtr = Wrap(stqHead + Cardinality(Committed))
    /\ Cardinality(InFlight) = Len(speculative)
    /\ \A s \in Entries :
          /\ stqValid[s] <=> fromHead(s) < stqCount
          /\ stqCommit[s] <=> fromHead(s) < Cardinality(Committed)

\* A load finds the address of every older committed store, also right after
\* a flush, which rebuilds stqAddrValid (LSUControl.sv 373-393).
CommittedHaveAddress == \A s \in Committed : stqAddrValid[s]

\* What is written to the data cache is the oldest store that has committed
\* and has not been written, but for the head that the cycle of a flush has
\* written and erased (see WritesOldestRetired).
WritesInOrder ==
    [][ commitSt /\ ~headErased =>
            retired # <<>> /\ stqData[stqHead] = Head(retired) ]_vars

\* A committed store reaches the cache however often the pipeline is flushed.
CommittedLeaves ==
    \A s \in Entries : stqHead = s /\ stqCommit[s] ~> stqHead # s

\* Whatever is written to the data cache is the oldest store that has
\* committed and has not been written, as LSUControl.sv 159 says of
\* commitSt_o.  The code does not keep this: a store written in the cycle of a
\* flush is erased, stays at the head, and is written again as zero.
WritesOldestRetired ==
    [][ commitSt => retired # <<>> /\ stqData[stqHead] = Head(retired) ]_vars
=============================================================================
