----------------------------- MODULE RenameCore -----------------------------
(***************************************************************************)
(* Register renaming of the core: the speculative free list                *)
(* (rename/SpecFreeList.sv), the speculative map (rename/RenameMapTable.sv)*)
(* and the committed map with its repair engine (retire/ArchMapTable.sv),  *)
(* the pipeline registers on both sides of the rename stage, and the       *)
(* active list seen from here: the instructions in flight in order, of     *)
(* which the oldest ones commit or all of which are flushed.               *)
(*                                                                         *)
(* One step is one edge of the clock.  Only the instructions that write a  *)
(* register are told apart: a bundle is the sequence of its logical        *)
(* destinations, and alCount counts the others too.                        *)
(***************************************************************************)
EXTENDS Integers, Sequences

CONSTANTS SIZE_PHYSICAL_TABLE,  \* physical registers
          SIZE_RMT,             \* logical registers
          DISPATCH_WIDTH,       \* instructions renamed in a cycle
          COMMIT_WIDTH,         \* instructions committed in a cycle
          SIZE_ACTIVELIST,      \* instructions in flight
          N_REPAIR_PACKETS,     \* map entries repaired in a cycle
          N_REPAIR_CYCLES       \* cycles that cover every entry

SIZE_FREE_LIST == SIZE_PHYSICAL_TABLE - SIZE_RMT

ASSUME WidthAssumption ==
    /\ DISPATCH_WIDTH \in Nat \ {0}
    /\ COMMIT_WIDTH \in Nat \ {0}
    /\ SIZE_ACTIVELIST \in Nat
    /\ SIZE_ACTIVELIST >= DISPATCH_WIDTH

ASSUME SizeAssumption ==
    /\ SIZE_RMT \in Nat \ {0}
    /\ SIZE_PHYSICAL_TABLE \in Nat
    /\ SIZE_FREE_LIST >= DISPATCH_WIDTH

ASSUME RepairAssumption ==
    /\ N_REPAIR_PACKETS \in Nat \ {0}
    /\ N_REPAIR_CYCLES \in Nat \ {0}
    /\ SIZE_RMT <= N_REPAIR_PACKETS * N_REPAIR_CYCLES

LogRegs == 0 .. SIZE_RMT - 1
PhyRegs == 0 .. SIZE_PHYSICAL_TABLE - 1
Slots   == 0 .. SIZE_FREE_LIST - 1

VARIABLES freeList,       \* FREELIST_RAM: slot -> physical register
          freeListHead,   \* next slot to allocate from
          freeListTail,   \* next slot to free into
          freeListCnt,    \* free registers
          rmt,            \* RMT_RAM: the speculative map
          amt,            \* AMT_RAM: the committed map
          instBufRen,     \* bundle about to be renamed
          renDis,         \* renamed bundle about to be dispatched
          al,             \* dispatched register writers, oldest first
          alCount,        \* dispatched instructions
          recoverFlag,    \* misprediction or load violation, a cycle ago
          exceptionFlag,  \* system call, a cycle ago
          repairState,    \* FSM of the repair engine
          repairCounter

listVars   == <<freeList, freeListHead, freeListTail, freeListCnt>>
mapVars    == <<rmt, amt>>
pipeVars   == <<instBufRen, renDis>>
alVars     == <<al, alCount, recoverFlag, exceptionFlag>>
repairVars == <<repairState, repairCounter>>
vars       == <<listVars, mapVars, pipeVars, alVars, repairVars>>

Bundles == UNION {[1 .. k -> LogRegs] : k \in 0 .. DISPATCH_WIDTH}

NoBundle == [ready |-> FALSE, dest |-> <<>>]

Writers == [logDest : LogRegs, phyDest : PhyRegs]

-----------------------------------------------------------------------------
(* Circular addresses of the free list *)

Wrap(x) == IF x >= SIZE_FREE_LIST THEN x - SIZE_FREE_LIST ELSE x

readAddr(i) == Wrap(freeListHead + i - 1)

\* Position of slot s counted from the tail, the oldest one being 1
fromTail(s) == IF s >= freeListTail
               THEN s - freeListTail + 1
               ELSE s - freeListTail + SIZE_FREE_LIST + 1

\* Mutant of freeListEmpty: one register too few is enough
freeListAlmostEmpty == freeListCnt < DISPATCH_WIDTH - 1

freeListEmpty == freeListCnt < DISPATCH_WIDTH

-----------------------------------------------------------------------------
(* Commit: the oldest n register writers move into the committed map *)

dontWriteAMT(n, i) ==
    \E j \in i + 1 .. n : al[j].logDest = al[i].logDest

\* Mutant of freedPhyReg: a group that writes a register twice is forgotten
freedPhyRegOfMap(n, i) == amt[al[i].logDest]

freedPhyReg(n, i) ==
    IF dontWriteAMT(n, i) THEN al[i].phyDest ELSE amt[al[i].logDest]

\* Mutant of amtUpdate: the oldest writer of the group wins
amtUpdateOldest(n) ==
    [l \in LogRegs |->
        IF \E i \in 1 .. n : al[i].logDest = l
        THEN al[CHOOSE i \in 1 .. n :
                    /\ al[i].logDest = l
                    /\ \A j \in 1 .. i - 1 : al[j].logDest # l].phyDest
        ELSE amt[l]]

amtUpdate(n) ==
    [l \in LogRegs |->
        IF \E i \in 1 .. n : al[i].logDest = l
        THEN al[CHOOSE i \in 1 .. n :
                    al[i].logDest = l /\ ~dontWriteAMT(n, i)].phyDest
        ELSE amt[l]]

freeListPush(n) ==
    [s \in Slots |-> IF fromTail(s) <= n
                     THEN freedPhyReg(n, fromTail(s))
                     ELSE freeList[s]]

Commit(n) ==
    /\ amt' = amtUpdate(n)
    /\ freeList' = freeListPush(n)
    /\ freeListTail' = Wrap(freeListTail + n)

-----------------------------------------------------------------------------
(* Rename: the bundle takes registers from the head of the free list *)

phyDest(i) == freeList[readAddr(i)]

renameReady == instBufRen.ready /\ ~freeListEmpty

\* Mutant of rmtUpdate: the oldest writer of the bundle wins
rmtUpdateOldest(dest) ==
    [l \in LogRegs |->
        IF \E i \in DOMAIN dest : dest[i] = l
        THEN phyDest(CHOOSE i \in DOMAIN dest :
                         /\ dest[i] = l
                         /\ \A j \in DOMAIN dest : dest[j] = l => j >= i)
        ELSE rmt[l]]

rmtUpdate(dest) ==
    [l \in LogRegs |->
        IF \E i \in DOMAIN dest : dest[i] = l
        THEN phyDest(CHOOSE i \in DOMAIN dest :
                         /\ dest[i] = l
                         /\ \A j \in DOMAIN dest : dest[j] = l => j <= i)
        ELSE rmt[l]]

renamed(dest) ==
    [i \in DOMAIN dest |-> [logDest |-> dest[i], phyDest |-> phyDest(i)]]

\* Mutant of FreeListPop: a stalled bundle takes its registers all the same
FreeListPopStalled(stall, pushNumber) ==
    LET popNumber == IF renameReady THEN Len(instBufRen.dest) ELSE 0
    IN  /\ freeListHead' = Wrap(freeListHead + popNumber)
        /\ freeListCnt' = freeListCnt + pushNumber - popNumber

\* Mutant of FreeListPop: registers freed while rename waits are not counted
FreeListPopUncounted(stall, pushNumber) ==
    IF stall \/ ~renameReady
    THEN UNCHANGED <<freeListHead, freeListCnt>>
    ELSE LET popNumber == Len(instBufRen.dest)
         IN  /\ freeListHead' = Wrap(freeListHead + popNumber)
             /\ freeListCnt' = freeListCnt + pushNumber - popNumber

FreeListPop(stall, pushNumber) ==
    IF stall \/ ~renameReady
    THEN /\ freeListHead' = freeListHead
         /\ freeListCnt' = freeListCnt + pushNumber
    ELSE LET popNumber == Len(instBufRen.dest)
         IN  /\ freeListHead' = Wrap(freeListHead + popNumber)
             /\ freeListCnt' = freeListCnt + pushNumber - popNumber

RenameDispatch(stall) ==
    renDis' = IF stall THEN renDis
              ELSE IF renameReady
                   THEN [ready |-> TRUE, dest |-> renamed(instBufRen.dest)]
                   ELSE NoBundle

-----------------------------------------------------------------------------
(* Repair: the engine copies the committed map over the speculative one *)

repairFlag == repairState = "REPAIR" \/ recoverFlag \/ exceptionFlag

repairAddr(i) == i * N_REPAIR_CYCLES + repairCounter

rmtRepair ==
    [l \in LogRegs |->
        IF \E i \in 0 .. N_REPAIR_PACKETS - 1 : l = repairAddr(i)
        THEN amt[l] ELSE rmt[l]]

\* Mutant of RepairEngine: the counter is not reset
RepairEngineUnreset ==
    IF repairState = "REPAIR" /\ repairCounter = N_REPAIR_CYCLES
    THEN repairState' = "IDLE" /\ UNCHANGED repairCounter
    ELSE IF repairFlag
    THEN repairState' = "REPAIR" /\ repairCounter' = repairCounter + 1
    ELSE UNCHANGED repairVars

RepairEngine ==
    IF repairState = "REPAIR" /\ repairCounter = N_REPAIR_CYCLES
    THEN repairState' = "IDLE" /\ repairCounter' = 0
    ELSE IF repairFlag
    THEN repairState' = "REPAIR" /\ repairCounter' = repairCounter + 1
    ELSE UNCHANGED repairVars

RMTWrite(stall) ==
    rmt' = IF repairFlag THEN rmtRepair
           ELSE IF stall \/ ~renameReady THEN rmt
           ELSE rmtUpdate(instBufRen.dest)

\* Mutant of InstBufRename: bundles enter during a repair
InstBufRenameInRepair(stall, bundle) ==
    instBufRen' = IF freeListEmpty \/ stall THEN instBufRen ELSE bundle

\* The instruction buffer offers `bundle` to the register in front of rename
InstBufRename(stall, bundle) ==
    instBufRen' = IF freeListEmpty \/ stall \/ repairFlag
                  THEN instBufRen ELSE bundle

-----------------------------------------------------------------------------
(* Dispatch and retire, as far as renaming is concerned *)

alStall == alCount + DISPATCH_WIDTH > SIZE_ACTIVELIST

backEndReady(stall) == ~stall /\ renDis.ready

\* k instructions commit, n of them write a register
Retires(k, n) ==
    /\ n <= k
    /\ k <= alCount
    /\ n <= Len(al)
    /\ Len(al) - n <= alCount - k

Dispatched(stall, k, n) ==
    /\ al' = SubSeq(al, n + 1, Len(al)) \o
             (IF backEndReady(stall) THEN renDis.dest ELSE <<>>)
    /\ alCount' = alCount - k +
                  (IF backEndReady(stall) THEN DISPATCH_WIDTH ELSE 0)

FrontEnd(stall, bundle, n) ==
    /\ InstBufRename(stall, bundle)
    /\ FreeListPop(stall, n)
    /\ RenameDispatch(stall)
    /\ RMTWrite(stall)
    /\ RepairEngine

-----------------------------------------------------------------------------
OfferedBundles == {NoBundle} \union [ready : {TRUE}, dest : Bundles]

\* A bundle matters in a cycle in which the register in front of rename may
\* take it
Offered(stall) == IF stall \/ freeListEmpty THEN {NoBundle} ELSE OfferedBundles

Init ==
    /\ freeList = [s \in Slots |-> s + SIZE_RMT]
    /\ freeListHead = 0
    /\ freeListTail = 0
    /\ freeListCnt = SIZE_FREE_LIST
    /\ rmt = [l \in LogRegs |-> l]
    /\ amt = [l \in LogRegs |-> l]
    /\ instBufRen = NoBundle
    /\ renDis = NoBundle
    /\ al = <<>>
    /\ alCount = 0
    /\ recoverFlag = FALSE
    /\ exceptionFlag = FALSE
    /\ repairState = "IDLE"
    /\ repairCounter = 0

\* An ordinary cycle
Cycle(stall, bundle, k, n) ==
    /\ ~recoverFlag /\ ~exceptionFlag
    /\ alStall => stall
    /\ Retires(k, n)
    /\ UNCHANGED <<recoverFlag, exceptionFlag>>
    /\ Dispatched(stall, k, n)
    /\ FrontEnd(stall, bundle, n)
    /\ Commit(n)

\* A cycle whose oldest instruction is a mispredicted branch (which commits
\* alone), a violating load or a system call (which do not commit)
FlushDecision(stall, bundle, k, n, isException) ==
    /\ ~recoverFlag /\ ~exceptionFlag
    /\ alStall => stall
    /\ alCount > 0
    /\ isException => k = 0
    /\ k <= 1
    /\ Retires(k, n)
    /\ Commit(n)
    /\ FrontEnd(stall, bundle, n)
    /\ al' = <<>>
    /\ alCount' = 0
    /\ recoverFlag' = ~isException
    /\ exceptionFlag' = isException

\* The cycle in which recoverFlag is high
Recover ==
    /\ recoverFlag
    /\ freeListHead' = freeListTail
    /\ freeListCnt' = SIZE_FREE_LIST
    /\ rmt' = rmtRepair
    /\ renDis' = NoBundle
    /\ instBufRen' = NoBundle
    /\ RepairEngine
    /\ recoverFlag' = FALSE
    /\ UNCHANGED <<freeList, freeListTail, amt, al, alCount, exceptionFlag>>

\* The cycle in which exceptionFlag is high: rename and the committed map reset
Exception ==
    /\ exceptionFlag
    /\ freeList' = [s \in Slots |-> s + SIZE_RMT]
    /\ freeListHead' = 0
    /\ freeListTail' = 0
    /\ freeListCnt' = SIZE_FREE_LIST
    /\ rmt' = [l \in LogRegs |-> l]
    /\ amt' = [l \in LogRegs |-> l]
    /\ renDis' = NoBundle
    /\ instBufRen' = NoBundle
    /\ RepairEngine
    /\ exceptionFlag' = FALSE
    /\ UNCHANGED <<al, alCount, recoverFlag>>

Next ==
    \/ \E stall \in BOOLEAN : \E bundle \in Offered(stall),
          k \in 0 .. COMMIT_WIDTH, n \in 0 .. COMMIT_WIDTH :
          Cycle(stall, bundle, k, n)
    \/ \E stall \in BOOLEAN : \E bundle \in Offered(stall),
          k \in 0 .. 1, n \in 0 .. 1, isException \in BOOLEAN :
          FlushDecision(stall, bundle, k, n, isException)
    \/ Recover
    \/ Exception

Spec == Init /\ [][Next]_vars

-----------------------------------------------------------------------------
(* What scheduling the rest of the core guarantees: a flag is followed by   *)
(* its flush cycle, the oldest instruction commits in the end, and dispatch *)
(* does not refuse a bundle for ever when the active list has room.  The    *)
(* last two are weak fairness with the enabling conditions written out.     *)

flushPending == recoverFlag \/ exceptionFlag

SomeCommit ==
    \E k \in 1 .. COMMIT_WIDTH, n \in 0 .. COMMIT_WIDTH, stall \in BOOLEAN :
        \E bundle \in Offered(stall) : Cycle(stall, bundle, k, n)

SomeDispatch ==
    \E k \in 0 .. COMMIT_WIDTH, n \in 0 .. COMMIT_WIDTH :
        \E bundle \in Offered(FALSE) : Cycle(FALSE, bundle, k, n)

FairSpec ==
    /\ Spec
    /\ WF_vars(Recover \/ Exception)
    /\ []<>(flushPending \/ alCount = 0) \/ []<><<SomeCommit>>_vars
    /\ []<>(flushPending \/ alStall \/ ~renDis.ready) \/ []<><<SomeDispatch>>_vars

-----------------------------------------------------------------------------
(* Properties *)

InFlight == al \o renDis.dest

IsBundle(b, S) ==
    /\ b \in [ready : BOOLEAN, dest : Seq(S)]
    /\ Len(b.dest) <= DISPATCH_WIDTH
    /\ ~b.ready => b.dest = <<>>

\* Every variable has its type, the pointers stay on the free list and the
\* count never passes its size (SpecFreeList.sv keeps them in registers that
\* would hold larger values).
TypeOK ==
    /\ freeList \in [Slots -> PhyRegs]
    /\ freeListHead \in Slots
    /\ freeListTail \in Slots
    /\ freeListCnt \in 0 .. SIZE_FREE_LIST
    /\ rmt \in [LogRegs -> PhyRegs]
    /\ amt \in [LogRegs -> PhyRegs]
    /\ IsBundle(instBufRen, LogRegs)
    /\ IsBundle(renDis, Writers)
    /\ alCount \in 0 .. SIZE_ACTIVELIST
    /\ al \in Seq(Writers) /\ Len(al) <= alCount
    /\ recoverFlag \in BOOLEAN
    /\ exceptionFlag \in BOOLEAN
    /\ repairState \in {"IDLE", "REPAIR"}
    /\ repairCounter \in 0 .. N_REPAIR_CYCLES

\* No physical register is lost or held twice: the slots of the free list
\* (free ones and those behind the head, which keep the registers in flight)
\* and the committed map hold each physical register exactly once, through
\* every group commit, misprediction, violation and exception.
RegistersConserved ==
    /\ \A s, t \in Slots : freeList[s] = freeList[t] => s = t
    /\ \A l, m \in LogRegs : amt[l] = amt[m] => l = m
    /\ \A s \in Slots, l \in LogRegs : freeList[s] # amt[l]

\* The registers in flight are the slots between the tail and the head, in
\* program order, so that moving the head back to the tail on recoverFlag
\* (SpecFreeList.sv 379-384) takes back exactly what the flushed
\* instructions hold.
InFlightBehindHead ==
    ~flushPending =>
        /\ Len(InFlight) + freeListCnt = SIZE_FREE_LIST
        /\ freeListHead = Wrap(freeListTail + Len(InFlight))
        /\ \A i \in 1 .. Len(InFlight) :
              InFlight[i].phyDest = freeList[Wrap(freeListTail + i - 1)]

YoungestWriter(l) ==
    CHOOSE i \in 1 .. Len(InFlight) :
        /\ InFlight[i].logDest = l
        /\ \A j \in 1 .. Len(InFlight) : InFlight[j].logDest = l => j <= i

\* Outside a repair the speculative map is the committed map overlaid with
\* the writers in flight, youngest last: a source renamed now reads the
\* register of the youngest older writer.
SpeculativeMapIsOverlay ==
    ~repairFlag =>
        \A l \in LogRegs :
            rmt[l] = IF \E i \in 1 .. Len(InFlight) : InFlight[i].logDest = l
                     THEN InFlight[YoungestWriter(l)].phyDest
                     ELSE amt[l]

\* While the repair engine is overwriting the speculative map nothing is
\* renamed, dispatched or in flight, and every register is back on the list.
QuietWhileRepairing ==
    repairState = "REPAIR" =>
        /\ ~flushPending
        /\ ~instBufRen.ready /\ ~renDis.ready
        /\ alCount = 0 /\ al = <<>>
        /\ freeListCnt = SIZE_FREE_LIST

\* The cycle of a flag finds an empty active list and an idle repair engine,
\* whose counter starts from zero.
FlushFindsNothing ==
    /\ flushPending => /\ al = <<>> /\ alCount = 0
                       /\ repairState = "IDLE"
                       /\ ~(recoverFlag /\ exceptionFlag)
    /\ repairState = "IDLE" => repairCounter = 0

\* The entries the engine has been over agree in the two maps.
RepairedSoFar ==
    repairState = "REPAIR" =>
        \A i \in 0 .. N_REPAIR_PACKETS - 1, c \in 0 .. repairCounter - 1 :
            LET l == i * N_REPAIR_CYCLES + c
            IN  l \in LogRegs => rmt[l] = amt[l]

\* What each step preserves; the named invariants follow from it
IInv ==
    /\ TypeOK
    /\ RegistersConserved
    /\ InFlightBehindHead
    /\ QuietWhileRepairing
    /\ FlushFindsNothing
    /\ SpeculativeMapIsOverlay
    /\ RepairedSoFar

\* Rename that finds too few free registers gets them in the end: whatever
\* is in flight commits or is flushed and gives its registers back.
FreeListRefills == []<>~freeListEmpty

-----------------------------------------------------------------------------
Abstract == INSTANCE RegisterRenaming WITH
    Log <- LogRegs, Phy <- PhyRegs,
    committed <- amt,
    inflight <- IF flushPending THEN <<>> ELSE InFlight

\* The free list, the two maps and the recovery protocol implement renaming
\* into registers that nothing in flight or committed uses.
ImplementsRenaming == Abstract!Spec
=============================================================================
