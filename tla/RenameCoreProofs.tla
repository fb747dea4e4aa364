-------------------------- MODULE RenameCoreProofs --------------------------
(***************************************************************************)
(* Proofs about RenameCore for every width, every number of physical and   *)
(* logical registers and every size of the active list: the type           *)
(* invariant; that no physical register is lost or held twice; that the    *)
(* speculative map is the committed one overlaid by the writers in flight, *)
(* also while it is repaired; and that the core implements the renaming of *)
(* RegisterRenaming.                                                       *)
(***************************************************************************)
EXTENDS RenameCore, TLAPS, SequenceTheorems, WellFoundedInduction

-----------------------------------------------------------------------------
(* Numbers *)

\* The usual order on the natural numbers, as a relation, is well founded.
LEMMA NatOrderWellFounded ==
    IsWellFoundedOn({ss \in Nat \X Nat : ss[1] < ss[2]}, Nat)
BY NatLessThanWellFounded DEF OpToRel

\* A non-empty set of positions has a last one: the youngest writer of a
\* commit group exists.
LEMMA LastPosition ==
    ASSUME NEW n \in Nat, NEW T \in SUBSET (1 .. n), T # {}
    PROVE  \E i \in T : \A j \in T : j <= i
<1> DEFINE D == {d \in Nat : \E i \in T : d = n - i}
           R == {ss \in Nat \X Nat : ss[1] < ss[2]}
<1>1. D \subseteq Nat /\ \A i \in T : i \in 1 .. n /\ n - i \in D
    OBVIOUS
<1>2. D # {}
    BY <1>1, T # {}, Zenon
<1>3. PICK x \in D : \A y \in D : ~ (<<y, x>> \in R)
    <2> HIDE DEF D
    <2> QED BY <1>1, <1>2, NatOrderWellFounded, WFMin, Zenon
<1>4. PICK i \in T : x = n - i
    BY <1>3
<1>5. ASSUME NEW j \in T PROVE j <= i
    <2>1. n - j \in D /\ j \in 1 .. n /\ i \in 1 .. n
        BY <1>1
    <2>2. ~ (n - j < x)
        BY <2>1, <1>3
    <2> QED BY <2>1, <2>2, <1>4
<1> QED BY <1>5

\* The sizes the declarations of the module assume.
LEMMA Sizes ==
    /\ SIZE_FREE_LIST \in Nat
    /\ SIZE_FREE_LIST >= 1
    /\ SIZE_FREE_LIST >= DISPATCH_WIDTH
    /\ DISPATCH_WIDTH \in Nat
    /\ SIZE_RMT \in Nat /\ SIZE_RMT >= 1
    /\ SIZE_PHYSICAL_TABLE \in Nat
    /\ SIZE_PHYSICAL_TABLE = SIZE_FREE_LIST + SIZE_RMT
BY WidthAssumption, SizeAssumption DEF SIZE_FREE_LIST

-----------------------------------------------------------------------------
(* Circular addresses *)

\* A pointer plus at most the size of the list wraps to a slot.
LEMMA WrapIsSlot ==
    ASSUME NEW x \in Slots, NEW d \in 0 .. SIZE_FREE_LIST
    PROVE  Wrap(x + d) \in Slots
BY Sizes DEF Wrap, Slots

\* Slots at different distances from a slot are different.
LEMMA WrapInjective ==
    ASSUME NEW x \in Slots,
           NEW d \in 0 .. SIZE_FREE_LIST - 1, NEW e \in 0 .. SIZE_FREE_LIST - 1,
           Wrap(x + d) = Wrap(x + e)
    PROVE  d = e
BY Sizes DEF Wrap, Slots

\* Advancing twice is advancing by the sum.
LEMMA WrapAdd ==
    ASSUME NEW x \in Slots, NEW d \in Nat, NEW e \in Nat,
           d + e <= SIZE_FREE_LIST
    PROVE  Wrap(Wrap(x + d) + e) = Wrap(x + (d + e))
BY Sizes DEF Wrap, Slots

\* fromTail numbers the slots from the tail, and Wrap undoes it.
LEMMA FromTailIsPosition ==
    ASSUME freeListTail \in Slots
    PROVE  /\ \A s \in Slots : /\ fromTail(s) \in 1 .. SIZE_FREE_LIST
                               /\ Wrap(freeListTail + fromTail(s) - 1) = s
           /\ \A i \in 1 .. SIZE_FREE_LIST :
                 fromTail(Wrap(freeListTail + i - 1)) = i
BY Sizes DEF Wrap, Slots, fromTail

-----------------------------------------------------------------------------
(* A commit group swaps registers between the map and the free list *)

\* What a commit of n writers finds: the registers of the oldest writers in
\* flight are the slots at the tail.
CommitReady(n) ==
    /\ n \in Nat
    /\ n <= Len(al)
    /\ n <= SIZE_FREE_LIST
    /\ al \in Seq(Writers)
    /\ freeListTail \in Slots
    /\ freeList \in [Slots -> PhyRegs]
    /\ amt \in [LogRegs -> PhyRegs]
    /\ \A i \in 1 .. n : al[i].phyDest = freeList[Wrap(freeListTail + i - 1)]

\* The writers of the group, one by one.
LEMMA GroupWriter ==
    ASSUME NEW n, CommitReady(n), NEW i \in 1 .. n
    PROVE  /\ al[i].logDest \in LogRegs
           /\ al[i].phyDest \in PhyRegs
           /\ Wrap(freeListTail + i - 1) \in Slots
           /\ fromTail(Wrap(freeListTail + i - 1)) = i
<1>1. i \in 1 .. Len(al) /\ al[i] \in Writers
    BY ElementOfSeq DEF CommitReady
<1>2. i - 1 \in 0 .. SIZE_FREE_LIST /\ i \in 1 .. SIZE_FREE_LIST
    BY Sizes DEF CommitReady
<1>3. Wrap(freeListTail + (i - 1)) \in Slots
    BY <1>2, WrapIsSlot DEF CommitReady
<1>4. freeListTail + (i - 1) = freeListTail + i - 1
    BY <1>2, Sizes DEF CommitReady, Slots
<1>5. fromTail(Wrap(freeListTail + i - 1)) = i
    BY <1>2, FromTailIsPosition DEF CommitReady
<1> QED BY <1>1, <1>3, <1>4, <1>5 DEF Writers

\* Of the writers of one logical register in the group, exactly one, the
\* youngest, writes the committed map.
LEMMA YoungestWrites ==
    ASSUME NEW n, CommitReady(n), NEW l \in LogRegs,
           \E i \in 1 .. n : al[i].logDest = l
    PROVE  /\ \E i \in 1 .. n : al[i].logDest = l /\ ~dontWriteAMT(n, i)
           /\ \A i, j \in 1 .. n :
                 /\ al[i].logDest = l /\ ~dontWriteAMT(n, i)
                 /\ al[j].logDest = l /\ ~dontWriteAMT(n, j)
                 => i = j
<1> n \in Nat
    BY DEF CommitReady
<1> DEFINE T == {i \in 1 .. n : al[i].logDest = l}
<1>1. PICK i \in T : \A j \in T : j <= i
    <2> T # {} /\ T \in SUBSET (1 .. n)
        OBVIOUS
    <2> HIDE DEF T
    <2> QED BY LastPosition
<1>2. ~dontWriteAMT(n, i)
    BY <1>1 DEF dontWriteAMT
<1>3. ASSUME NEW j \in 1 .. n, NEW k \in 1 .. n,
             al[j].logDest = l, ~dontWriteAMT(n, j),
             al[k].logDest = l, ~dontWriteAMT(n, k)
      PROVE  j = k
    BY <1>3 DEF dontWriteAMT
<1> QED BY <1>1, <1>2, <1>3

\* The committed map after the group: a logical register maps to its
\* youngest writer's register, or keeps its mapping.
LEMMA CommittedMap ==
    ASSUME NEW n, CommitReady(n), NEW l \in LogRegs
    PROVE  \/ \E i \in 1 .. n : /\ al[i].logDest = l
                                /\ ~dontWriteAMT(n, i)
                                /\ amtUpdate(n)[l] = al[i].phyDest
           \/ /\ \A i \in 1 .. n : al[i].logDest # l
              /\ amtUpdate(n)[l] = amt[l]
<1>1. CASE \E i \in 1 .. n : al[i].logDest = l
    <2> DEFINE c == CHOOSE i \in 1 .. n :
                        al[i].logDest = l /\ ~dontWriteAMT(n, i)
    <2>1. c \in 1 .. n /\ al[c].logDest = l /\ ~dontWriteAMT(n, c)
        <3>1. \E i \in 1 .. n : al[i].logDest = l /\ ~dontWriteAMT(n, i)
            BY <1>1, YoungestWrites
        <3> QED BY <3>1
    <2>2. amtUpdate(n)[l] = al[c].phyDest
        BY <1>1 DEF amtUpdate
    <2> QED BY <2>1, <2>2
<1>2. CASE ~ \E i \in 1 .. n : al[i].logDest = l
    BY <1>2 DEF amtUpdate
<1> QED BY <1>1, <1>2

\* The free list after the group: a slot keeps its register, unless it is the
\* slot of a writer that wrote the map, whose old mapping it receives.
LEMMA PushedSlot ==
    ASSUME NEW n, CommitReady(n), NEW s \in Slots
    PROVE  \/ /\ fromTail(s) \in 1 .. n
              /\ ~dontWriteAMT(n, fromTail(s))
              /\ freeListPush(n)[s] = amt[al[fromTail(s)].logDest]
           \/ /\ ~ (fromTail(s) \in 1 .. n /\ ~dontWriteAMT(n, fromTail(s)))
              /\ freeListPush(n)[s] = freeList[s]
<1>1. fromTail(s) \in 1 .. SIZE_FREE_LIST
      /\ Wrap(freeListTail + fromTail(s) - 1) = s
    BY FromTailIsPosition DEF CommitReady
<1>2. CASE fromTail(s) <= n
    <2>1. fromTail(s) \in 1 .. n
        BY <1>1, <1>2, Sizes DEF CommitReady
    <2>2. freeListPush(n)[s] = freedPhyReg(n, fromTail(s))
        BY <1>2 DEF freeListPush
    <2>3. al[fromTail(s)].phyDest = freeList[s]
        BY <1>1, <2>1 DEF CommitReady
    <2> QED BY <2>1, <2>2, <2>3 DEF freedPhyReg
<1>3. CASE ~ (fromTail(s) <= n)
    BY <1>1, <1>3, Sizes DEF freeListPush, CommitReady
<1> QED BY <1>2, <1>3

\* A group commit is a permutation of the physical registers between the
\* committed map and the slots of the free list.
LEMMA CommitConserves ==
    ASSUME NEW n, CommitReady(n), Commit(n), RegistersConserved
    PROVE  RegistersConserved'
<1> USE DEF RegistersConserved
<1> DEFINE old(s) == /\ fromTail(s) \in 1 .. n
                     /\ ~dontWriteAMT(n, fromTail(s))
<1>1. ASSUME NEW s \in Slots
      PROVE  \/ /\ old(s)
                /\ freeList'[s] = amt[al[fromTail(s)].logDest]
             \/ /\ ~old(s)
                /\ freeList'[s] = freeList[s]
    BY PushedSlot DEF Commit
<1>2. ASSUME NEW l \in LogRegs
      PROVE  \/ \E s \in Slots : /\ old(s)
                                 /\ al[fromTail(s)].logDest = l
                                 /\ amt'[l] = freeList[s]
             \/ /\ \A i \in 1 .. n : al[i].logDest # l
                /\ amt'[l] = amt[l]
    <2>1. ASSUME NEW i \in 1 .. n, al[i].logDest = l, ~dontWriteAMT(n, i),
                 amt'[l] = al[i].phyDest
          PROVE  \E s \in Slots : /\ old(s)
                                  /\ al[fromTail(s)].logDest = l
                                  /\ amt'[l] = freeList[s]
        <3>1. Wrap(freeListTail + i - 1) \in Slots
              /\ fromTail(Wrap(freeListTail + i - 1)) = i
            BY GroupWriter
        <3>2. amt'[l] = freeList[Wrap(freeListTail + i - 1)]
            BY <2>1 DEF CommitReady
        <3> QED BY <2>1, <3>1, <3>2
    <2> QED BY <2>1, CommittedMap DEF Commit
<1>3. ASSUME NEW s \in Slots, old(s)
      PROVE  al[fromTail(s)].logDest \in LogRegs
    BY <1>3, GroupWriter
<1>4. ASSUME NEW s \in Slots, NEW t \in Slots, old(s), old(t),
             al[fromTail(s)].logDest = al[fromTail(t)].logDest
      PROVE  s = t
    <2>1. fromTail(s) = fromTail(t)
        BY <1>4, <1>3, YoungestWrites
    <2> QED BY <2>1, FromTailIsPosition DEF CommitReady
<1> HIDE DEF old
<1>5. ASSUME NEW s \in Slots, NEW t \in Slots, freeList'[s] = freeList'[t]
      PROVE  s = t
    <2>1. CASE old(s) /\ old(t)
        BY <2>1, <1>1, <1>3, <1>4, <1>5
    <2>2. CASE old(s) /\ ~old(t)
        BY <2>2, <1>1, <1>3, <1>5
    <2>3. CASE ~old(s) /\ old(t)
        BY <2>3, <1>1, <1>3, <1>5
    <2>4. CASE ~old(s) /\ ~old(t)
        BY <2>4, <1>1, <1>5
    <2> QED BY <2>1, <2>2, <2>3, <2>4
<1>6. ASSUME NEW l \in LogRegs, NEW m \in LogRegs, amt'[l] = amt'[m]
      PROVE  l = m
    BY <1>6, <1>2
<1>7. ASSUME NEW s \in Slots, NEW l \in LogRegs
      PROVE  freeList'[s] # amt'[l]
    <2>1. CASE old(s)
        <3>1. freeList'[s] = amt[al[fromTail(s)].logDest]
              /\ al[fromTail(s)].logDest \in LogRegs
              /\ fromTail(s) \in 1 .. n
            BY <2>1, <1>1, <1>3 DEF old
        <3> QED BY <3>1, <1>2
    <2>2. CASE ~old(s)
        BY <2>2, <1>1, <1>2
    <2> QED BY <2>1, <2>2
<1> QED BY <1>5, <1>6, <1>7

-----------------------------------------------------------------------------
(* A cycle of the back end *)

\* The sequence in flight: the active list, then the bundle about to be
\* dispatched.
LEMMA InFlightParts ==
    ASSUME TypeOK
    PROVE  /\ al \in Seq(Writers) /\ renDis.dest \in Seq(Writers)
           /\ Len(al) \in Nat /\ Len(renDis.dest) \in Nat
           /\ InFlight \in Seq(Writers)
           /\ Len(InFlight) = Len(al) + Len(renDis.dest)
           /\ \A i \in 1 .. Len(al) : InFlight[i] = al[i]
           /\ \A i \in 1 .. Len(renDis.dest) :
                 InFlight[Len(al) + i] = renDis.dest[i]
<1>1. al \in Seq(Writers) /\ renDis.dest \in Seq(Writers)
    BY DEF TypeOK, IsBundle
<1>2. Len(al) \in Nat /\ Len(renDis.dest) \in Nat
    BY <1>1, LenProperties
<1>3. /\ al \o renDis.dest \in Seq(Writers)
      /\ Len(al \o renDis.dest) = Len(al) + Len(renDis.dest)
      /\ \A i \in 1 .. Len(al) + Len(renDis.dest) :
            (al \o renDis.dest)[i] = IF i <= Len(al) THEN al[i]
                                     ELSE renDis.dest[i - Len(al)]
    BY <1>1, ConcatProperties
<1> QED BY <1>1, <1>2, <1>3 DEF InFlight

\* In a cycle without a flag the oldest n writers may commit.
LEMMA ReadyToCommit ==
    ASSUME IInv, ~flushPending, NEW n \in Nat, n <= Len(al)
    PROVE  CommitReady(n)
<1>1. /\ al \in Seq(Writers) /\ Len(al) \in Nat
      /\ Len(InFlight) \in Nat /\ Len(al) <= Len(InFlight)
      /\ \A i \in 1 .. Len(al) : InFlight[i] = al[i]
    BY InFlightParts DEF IInv
<1>2. n <= SIZE_FREE_LIST
    BY <1>1, Sizes DEF IInv, TypeOK, InFlightBehindHead
<1>3. ASSUME NEW i \in 1 .. n
      PROVE  al[i].phyDest = freeList[Wrap(freeListTail + i - 1)]
    <2>1. i \in 1 .. Len(al) /\ i \in 1 .. Len(InFlight)
        BY <1>1
    <2>2. InFlight[i].phyDest = freeList[Wrap(freeListTail + i - 1)]
        BY <2>1 DEF IInv, InFlightBehindHead
    <2> QED BY <1>1, <2>1, <2>2
<1> QED BY <1>1, <1>2, <1>3 DEF CommitReady, IInv, TypeOK

\* What a commit leaves well typed, and the slots it does not touch.
LEMMA CommitTyped ==
    ASSUME NEW n, CommitReady(n), Commit(n)
    PROVE  /\ freeList' \in [Slots -> PhyRegs]
           /\ amt' \in [LogRegs -> PhyRegs]
           /\ freeListTail' \in Slots
           /\ \A s \in Slots : fromTail(s) > n => freeList'[s] = freeList[s]
<1>1. freeListTail' \in Slots
    BY WrapIsSlot, Sizes DEF Commit, CommitReady
<1>2. ASSUME NEW s \in Slots
      PROVE  /\ freeList'[s] \in PhyRegs
             /\ fromTail(s) > n => freeList'[s] = freeList[s]
    <2>1. fromTail(s) \in 1 .. SIZE_FREE_LIST
        BY FromTailIsPosition DEF CommitReady
    <2>2. CASE /\ fromTail(s) \in 1 .. n
               /\ freeListPush(n)[s] = amt[al[fromTail(s)].logDest]
        <3> DEFINE i == fromTail(s)
        <3>1. i \in 1 .. n /\ freeList'[s] = amt[al[i].logDest]
            BY <2>2 DEF Commit
        <3> HIDE DEF i
        <3>2. al[i].logDest \in LogRegs
            BY <3>1, GroupWriter
        <3>3. amt[al[i].logDest] \in PhyRegs
            BY <3>2 DEF CommitReady
        <3>4. ~(i > n)
            BY <3>1 DEF CommitReady
        <3> QED BY <3>1, <3>3, <3>4 DEF i
    <2>3. CASE freeListPush(n)[s] = freeList[s]
        BY <2>3 DEF Commit, CommitReady
    <2> QED BY <2>2, <2>3, PushedSlot
<1>3. ASSUME NEW l \in LogRegs PROVE amt'[l] \in PhyRegs
    <2>1. ASSUME NEW i \in 1 .. n, amtUpdate(n)[l] = al[i].phyDest
          PROVE  amt'[l] \in PhyRegs
        BY <2>1, GroupWriter DEF Commit
    <2>2. ASSUME amtUpdate(n)[l] = amt[l]
          PROVE  amt'[l] \in PhyRegs
        BY <2>2 DEF Commit, CommitReady
    <2>3. (\E i \in 1 .. n : amtUpdate(n)[l] = al[i].phyDest) \/ amtUpdate(n)[l] = amt[l]
        BY CommittedMap
    <2> QED BY <2>1, <2>2, <2>3
<1>4. DOMAIN freeList' = Slots /\ freeList' = [s \in Slots |-> freeList'[s]]
    BY DEF Commit, freeListPush
<1>5. DOMAIN amt' = LogRegs /\ amt' = [l \in LogRegs |-> amt'[l]]
    BY DEF Commit, amtUpdate
<1> QED BY <1>1, <1>2, <1>3, <1>4, <1>5

-----------------------------------------------------------------------------
(* A cycle of the front end *)

\* The registers that a cycle takes from the free list.
popped(stall) == IF stall \/ ~renameReady THEN 0 ELSE Len(instBufRen.dest)

\* A bundle that is renamed takes distinct free slots, all of which exist.
LEMMA BundleFits ==
    ASSUME TypeOK, NEW stall \in BOOLEAN
    PROVE  /\ popped(stall) \in Nat
           /\ popped(stall) <= freeListCnt
           /\ popped(stall) <= DISPATCH_WIDTH
           /\ \A i \in 1 .. DISPATCH_WIDTH : /\ readAddr(i) \in Slots
                                            /\ phyDest(i) \in PhyRegs
<1>1. instBufRen.dest \in Seq(LogRegs) /\ Len(instBufRen.dest) <= DISPATCH_WIDTH
    BY DEF TypeOK, IsBundle
<1>2. Len(instBufRen.dest) \in Nat
    BY <1>1, LenProperties
<1>3. popped(stall) \in Nat /\ popped(stall) <= DISPATCH_WIDTH
      /\ popped(stall) <= freeListCnt
    BY <1>1, <1>2, Sizes DEF popped, renameReady, freeListEmpty, TypeOK
<1>4. ASSUME NEW i \in 1 .. DISPATCH_WIDTH
      PROVE  readAddr(i) \in Slots /\ phyDest(i) \in PhyRegs
    <2>1. i - 1 \in 0 .. SIZE_FREE_LIST
        BY Sizes
    <2>2. Wrap(freeListHead + (i - 1)) \in Slots
        BY <2>1, WrapIsSlot DEF TypeOK
    <2>3. freeListHead + (i - 1) = freeListHead + i - 1
        BY <2>1, Sizes DEF TypeOK, Slots
    <2> QED BY <2>2, <2>3 DEF readAddr, phyDest, TypeOK
<1> QED BY <1>3, <1>4

\* The renamed bundle is a sequence of writers as long as the bundle.
LEMMA RenamedBundle ==
    ASSUME TypeOK
    PROVE  /\ renamed(instBufRen.dest) \in Seq(Writers)
           /\ Len(renamed(instBufRen.dest)) = Len(instBufRen.dest)
           /\ Len(instBufRen.dest) \in Nat
           /\ Len(instBufRen.dest) <= DISPATCH_WIDTH
           /\ \A i \in 1 .. Len(instBufRen.dest) :
                 /\ renamed(instBufRen.dest)[i].phyDest = phyDest(i)
                 /\ renamed(instBufRen.dest)[i].logDest = instBufRen.dest[i]
<1> DEFINE d == instBufRen.dest
<1>1. d \in Seq(LogRegs) /\ Len(d) <= DISPATCH_WIDTH
    BY DEF TypeOK, IsBundle
<1>2. Len(d) \in Nat /\ DOMAIN d = 1 .. Len(d)
    BY <1>1, LenProperties
<1>3. ASSUME NEW i \in 1 .. Len(d)
      PROVE  [logDest |-> d[i], phyDest |-> phyDest(i)] \in Writers
    <2>1. d[i] \in LogRegs
        BY <1>1, ElementOfSeq
    <2>2. i \in 1 .. DISPATCH_WIDTH
        BY <1>1, <1>2, Sizes
    <2>3. phyDest(i) \in PhyRegs
        BY <2>2, BundleFits
    <2> QED BY <2>1, <2>3 DEF Writers
<1>4. renamed(d) \in [1 .. Len(d) -> Writers]
    BY <1>2, <1>3 DEF renamed
<1>5. renamed(d) \in Seq(Writers)
    BY <1>2, <1>4, SeqDef
<1>6. Len(renamed(d)) = Len(d)
    BY <1>2, <1>4, <1>5, LenProperties
<1> QED BY <1>1, <1>2, <1>5, <1>6 DEF renamed

\* The head and the count after a cycle.
LEMMA PoppedHead ==
    ASSUME TypeOK, NEW stall \in BOOLEAN, NEW n \in Nat, FreeListPop(stall, n)
    PROVE  /\ freeListHead' = Wrap(freeListHead + popped(stall))
           /\ freeListCnt' = freeListCnt + n - popped(stall)
<1>1. Wrap(freeListHead + 0) = freeListHead
    BY Sizes DEF TypeOK, Slots, Wrap
<1>2. freeListCnt + n - 0 = freeListCnt + n
    BY DEF TypeOK
<1> QED BY <1>1, <1>2 DEF FreeListPop, popped

\* The register behind rename after a cycle.
LEMMA NextRenDis ==
    ASSUME TypeOK, NEW stall \in BOOLEAN, RenameDispatch(stall)
    PROVE  /\ IsBundle(renDis', Writers)
           /\ stall => renDis' = renDis
           /\ ~stall => /\ Len(renDis'.dest) = popped(stall)
                       /\ \A i \in 1 .. popped(stall) :
                             /\ renDis'.dest[i].phyDest = phyDest(i)
                             /\ renDis'.dest[i].logDest = instBufRen.dest[i]
<1>1. CASE stall
    BY <1>1 DEF RenameDispatch, TypeOK
<1>2. CASE ~stall /\ renameReady
    <2>1. renDis' = [ready |-> TRUE, dest |-> renamed(instBufRen.dest)]
        BY <1>2 DEF RenameDispatch
    <2>2. renDis'.ready = TRUE /\ renDis'.dest = renamed(instBufRen.dest)
        BY <2>1
    <2>3. popped(stall) = Len(instBufRen.dest)
        BY <1>2 DEF popped
    <2> QED BY <1>2, <2>1, <2>2, <2>3, RenamedBundle DEF IsBundle
<1>3. CASE ~stall /\ ~renameReady
    <2>1. renDis' = NoBundle /\ popped(stall) = 0
        BY <1>3 DEF RenameDispatch, popped
    <2>2. renDis'.dest = <<>> /\ renDis'.ready = FALSE
          /\ renDis' \in [ready : BOOLEAN, dest : Seq(Writers)]
        BY <2>1, EmptySeq DEF NoBundle
    <2>3. Len(renDis'.dest) = 0
        BY <2>2, EmptySeq
    <2> QED BY <1>3, <2>1, <2>2, <2>3, Sizes DEF IsBundle
<1> QED BY <1>1, <1>2, <1>3

\* Dispatch and commit keep the order of the writers in flight: n leave at
\* the old end, and those renamed in this cycle join at the young end.
LEMMA InFlightStep ==
    ASSUME TypeOK, NEW stall \in BOOLEAN,
           NEW k \in Nat, NEW n \in Nat, n <= Len(al),
           Dispatched(stall, k, n), RenameDispatch(stall)
    PROVE  /\ al' \in Seq(Writers)
           /\ Len(al') = Len(al) - n + (IF backEndReady(stall)
                                        THEN Len(renDis.dest) ELSE 0)
           /\ Len(InFlight') = Len(InFlight) - n + popped(stall)
           /\ \A i \in 1 .. Len(InFlight) - n : InFlight'[i] = InFlight[n + i]
           /\ \A i \in 1 .. popped(stall) :
                 /\ InFlight'[Len(InFlight) - n + i].phyDest = phyDest(i)
                 /\ InFlight'[Len(InFlight) - n + i].logDest = instBufRen.dest[i]
<1> DEFINE rest  == SubSeq(al, n + 1, Len(al))
           moved == IF backEndReady(stall) THEN renDis.dest ELSE <<>>
           p     == popped(stall)
<1>1. /\ al \in Seq(Writers) /\ renDis.dest \in Seq(Writers)
      /\ Len(al) \in Nat /\ Len(renDis.dest) \in Nat
      /\ Len(InFlight) = Len(al) + Len(renDis.dest)
      /\ \A i \in 1 .. Len(al) : InFlight[i] = al[i]
      /\ \A i \in 1 .. Len(renDis.dest) : InFlight[Len(al) + i] = renDis.dest[i]
    BY InFlightParts
<1>2. /\ rest \in Seq(Writers)
      /\ Len(rest) = Len(al) - n
      /\ \A i \in 1 .. Len(al) - n : rest[i] = al[n + i]
    <2>1. \A i \in n + 1 .. Len(al) : al[i] \in Writers
        BY <1>1, ElementOfSeq
    <2> HIDE DEF rest
    <2>2. /\ SubSeq(al, n + 1, Len(al)) \in Seq(Writers)
          /\ Len(SubSeq(al, n + 1, Len(al))) =
                IF n + 1 <= Len(al) THEN Len(al) - (n + 1) + 1 ELSE 0
          /\ \A i \in 1 .. Len(al) - (n + 1) + 1 :
                SubSeq(al, n + 1, Len(al))[i] = al[(n + 1) + i - 1]
        BY <1>1, <2>1, SubSeqProperties
    <2> QED BY <1>1, <2>2 DEF rest
<1>3. moved \in Seq(Writers)
      /\ Len(moved) = IF backEndReady(stall) THEN Len(renDis.dest) ELSE 0
    BY <1>1, EmptySeq
<1>4. al' = rest \o moved
    BY DEF Dispatched
<1> HIDE DEF rest, moved
<1>5. /\ al' \in Seq(Writers)
      /\ Len(al') = Len(rest) + Len(moved)
      /\ \A i \in 1 .. Len(rest) + Len(moved) :
            al'[i] = IF i <= Len(rest) THEN rest[i] ELSE moved[i - Len(rest)]
    BY <1>2, <1>3, <1>4, ConcatProperties
<1>6. /\ renDis'.dest \in Seq(Writers)
      /\ stall => renDis' = renDis
      /\ ~stall => /\ Len(renDis'.dest) = p
                  /\ \A i \in 1 .. p : /\ renDis'.dest[i].phyDest = phyDest(i)
                                       /\ renDis'.dest[i].logDest = instBufRen.dest[i]
    BY NextRenDis DEF IsBundle
<1>7. /\ Len(InFlight') = Len(al') + Len(renDis'.dest)
      /\ \A i \in 1 .. Len(al') + Len(renDis'.dest) :
            InFlight'[i] = IF i <= Len(al') THEN al'[i]
                           ELSE renDis'.dest[i - Len(al')]
    <2>1. InFlight' = al' \o renDis'.dest
        BY DEF InFlight
    <2>2. al' \in Seq(Writers) /\ renDis'.dest \in Seq(Writers)
        BY <1>5, <1>6
    <2> QED BY <2>1, <2>2, ConcatProperties
<1>8. p \in Nat /\ (stall => p = 0)
    BY BundleFits DEF popped
<1>9. Len(renDis'.dest) \in Nat /\ Len(rest) \in Nat /\ Len(moved) \in Nat
    BY <1>2, <1>3, <1>6, LenProperties
<1> HIDE DEF p
<1>10. CASE stall
    <2>1. Len(moved) = 0 /\ renDis' = renDis /\ p = 0
        BY <1>3, <1>6, <1>8, <1>10 DEF backEndReady
    <2>2. ASSUME NEW i \in 1 .. Len(InFlight) - n
          PROVE  InFlight'[i] = InFlight[n + i]
        <3>1. CASE i <= Len(al) - n
            BY <1>1, <1>2, <1>5, <1>7, <2>1, <3>1
        <3>2. CASE i > Len(al) - n
            <4>1. i - (Len(al) - n) \in 1 .. Len(renDis.dest)
                BY <1>1, <3>2
            <4>2. InFlight'[i] = renDis.dest[i - (Len(al) - n)]
                BY <1>1, <1>2, <1>5, <1>7, <2>1, <3>2
            <4>3. InFlight[Len(al) + (i - (Len(al) - n))]
                    = renDis.dest[i - (Len(al) - n)]
                BY <1>1, <4>1
            <4> QED BY <1>1, <4>2, <4>3
        <3> QED BY <1>1, <3>1, <3>2
    <2>3. Len(InFlight') = Len(InFlight) - n + p
        BY <1>1, <1>2, <1>5, <1>7, <1>9, <2>1
    <2>4. Len(al') = Len(al) - n + (IF backEndReady(stall)
                                    THEN Len(renDis.dest) ELSE 0)
        BY <1>2, <1>3, <1>5
    <2>5. \A i \in 1 .. p :
            /\ InFlight'[Len(InFlight) - n + i].phyDest = phyDest(i)
            /\ InFlight'[Len(InFlight) - n + i].logDest = instBufRen.dest[i]
        BY <2>1
    <2> QED BY <1>5, <2>2, <2>3, <2>4, <2>5 DEF p
<1>11. CASE ~stall
    <2>1. Len(moved) = Len(renDis.dest) /\ moved = renDis.dest
        <3>1. ~renDis.ready => renDis.dest = <<>>
            BY DEF TypeOK, IsBundle
        <3> QED BY <1>1, <1>3, <1>11, <3>1, EmptySeq DEF moved, backEndReady
    <2>2. ASSUME NEW i \in 1 .. Len(InFlight) - n
          PROVE  InFlight'[i] = InFlight[n + i]
        <3>1. i <= Len(al') /\ InFlight'[i] = al'[i]
            <4>1. Len(al') = Len(InFlight) - n
                BY <1>1, <1>2, <1>5, <2>1
            <4>2. i \in 1 .. Len(al') + Len(renDis'.dest) /\ i <= Len(al')
                <5>1. i \in 1 .. Len(al') /\ Len(al') \in Nat
                    BY <1>1, <4>1
                <5> QED BY <1>9, <5>1
            <4> QED BY <1>7, <4>2
        <3>2. CASE i <= Len(al) - n
            <4>1. i \in 1 .. Len(rest) + Len(moved) /\ i <= Len(rest) /\ i \in 1 .. Len(al) - n
                BY <1>1, <1>2, <1>9, <3>2
            <4>2. al'[i] = rest[i] /\ rest[i] = al[n + i]
                BY <1>2, <1>5, <4>1
            <4>3. n + i \in 1 .. Len(al)
                BY <1>1, <4>1
            <4>4. InFlight[n + i] = al[n + i]
                BY <1>1, <4>3
            <4> QED BY <3>1, <4>2, <4>4
        <3>3. CASE i > Len(al) - n
            <4>1. i - (Len(al) - n) \in 1 .. Len(renDis.dest)
                BY <1>1, <3>3
            <4>2. InFlight[Len(al) + (i - (Len(al) - n))]
                    = renDis.dest[i - (Len(al) - n)]
                BY <1>1, <4>1
            <4>3. InFlight'[i] = renDis.dest[i - (Len(al) - n)]
                <5>1. i \in 1 .. Len(rest) + Len(moved) /\ ~(i <= Len(rest))
                    BY <1>1, <1>2, <1>9, <2>1, <3>3
                <5>2. al'[i] = moved[i - Len(rest)]
                    BY <1>5, <5>1
                <5> QED BY <1>2, <2>1, <3>1, <5>2
            <4> QED BY <1>1, <4>2, <4>3
        <3> QED BY <1>1, <3>2, <3>3
    <2>3. ASSUME NEW i \in 1 .. p
          PROVE  /\ InFlight'[Len(InFlight) - n + i].phyDest = phyDest(i)
                 /\ InFlight'[Len(InFlight) - n + i].logDest = instBufRen.dest[i]
        <3>1. Len(al') = Len(InFlight) - n
            BY <1>1, <1>2, <1>5, <2>1
        <3>2. InFlight'[Len(al') + i] = renDis'.dest[i]
            <4>1. /\ Len(al') + i \in 1 .. Len(al') + Len(renDis'.dest)
                  /\ ~(Len(al') + i <= Len(al'))
                  /\ (Len(al') + i) - Len(al') = i
                BY <1>5, <1>6, <1>8, <1>9, <1>11
            <4> QED BY <1>7, <4>1
        <3> QED BY <1>6, <1>11, <3>1, <3>2
    <2>4. Len(InFlight') = Len(InFlight) - n + p
        <3>1. Len(al') = Len(InFlight) - n
            BY <1>1, <1>2, <1>5, <2>1
        <3>2. Len(InFlight') = Len(al') + Len(renDis'.dest)
            BY <1>7
        <3> QED BY <1>6, <1>11, <3>1, <3>2
    <2>5. Len(al') = Len(al) - n + (IF backEndReady(stall)
                                    THEN Len(renDis.dest) ELSE 0)
        BY <1>2, <1>3, <1>5
    <2> QED BY <1>5, <2>2, <2>3, <2>4, <2>5 DEF p
<1> QED BY <1>10, <1>11

\* After a cycle the registers in flight are again the slots between the
\* tail and the head.
LEMMA CycleKeepsOrder ==
    ASSUME IInv, ~flushPending, NEW stall \in BOOLEAN,
           NEW k \in Nat, NEW n \in Nat, n <= Len(al),
           Commit(n), FreeListPop(stall, n),
           RenameDispatch(stall), Dispatched(stall, k, n)
    PROVE  /\ Len(InFlight') + freeListCnt' = SIZE_FREE_LIST
           /\ freeListHead' = Wrap(freeListTail' + Len(InFlight'))
           /\ \A i \in 1 .. Len(InFlight') :
                 InFlight'[i].phyDest = freeList'[Wrap(freeListTail' + i - 1)]
<1> DEFINE p == popped(stall)
           m == Len(InFlight)
<1>1. CommitReady(n)
    BY ReadyToCommit
<1>2. /\ Len(InFlight') = m - n + p
      /\ \A i \in 1 .. m - n : InFlight'[i] = InFlight[n + i]
      /\ \A i \in 1 .. p : InFlight'[m - n + i].phyDest = phyDest(i)
    BY InFlightStep DEF IInv
<1>3. /\ freeListHead' = Wrap(freeListHead + p)
      /\ freeListCnt' = freeListCnt + n - p
      /\ p \in Nat /\ p <= freeListCnt /\ p <= DISPATCH_WIDTH
    BY PoppedHead, BundleFits DEF IInv
<1>4. m \in Nat /\ n <= m
    BY InFlightParts DEF IInv
<1>5. /\ m + freeListCnt = SIZE_FREE_LIST
      /\ freeListHead = Wrap(freeListTail + m)
      /\ \A i \in 1 .. m :
            InFlight[i].phyDest = freeList[Wrap(freeListTail + i - 1)]
    BY DEF IInv, InFlightBehindHead
<1>6. freeListTail \in Slots /\ freeListCnt \in Nat /\ n <= SIZE_FREE_LIST
    BY <1>4, <1>5, Sizes DEF IInv, TypeOK
<1>7. freeListTail' = Wrap(freeListTail + n)
    BY DEF Commit
<1> HIDE DEF p, m
<1>8. m + p <= SIZE_FREE_LIST
    BY <1>3, <1>4, <1>5, <1>6, Sizes
<1>9. Len(InFlight') + freeListCnt' = SIZE_FREE_LIST
    BY <1>2, <1>3, <1>4, <1>5, <1>6, Sizes
<1>10. freeListHead' = Wrap(freeListTail' + Len(InFlight'))
    <2>1. freeListHead' = Wrap(freeListTail + (m + p))
        BY <1>3, <1>4, <1>5, <1>6, <1>8, WrapAdd
    <2>2. Wrap(Wrap(freeListTail + n) + (m - n + p)) =
          Wrap(freeListTail + (n + (m - n + p)))
        <3>1. m - n + p \in Nat /\ n + (m - n + p) <= SIZE_FREE_LIST
            BY <1>3, <1>4, <1>8, Sizes
        <3> QED BY <1>6, <3>1, WrapAdd
    <2>3. n + (m - n + p) = m + p
        BY <1>3, <1>4
    <2> QED BY <1>2, <1>7, <2>1, <2>2, <2>3
<1>11. ASSUME NEW j \in 1 .. m - n + p
       PROVE  /\ freeListTail' \in Slots
              /\ Wrap(freeListTail' + j - 1) = Wrap(freeListTail + (n + j) - 1)
              /\ freeList'[Wrap(freeListTail' + j - 1)]
                    = freeList[Wrap(freeListTail + (n + j) - 1)]
    <2>1. j - 1 \in Nat /\ n + (j - 1) <= SIZE_FREE_LIST
          /\ n + j \in 1 .. SIZE_FREE_LIST
          /\ n + (j - 1) \in 0 .. SIZE_FREE_LIST
        BY <1>3, <1>4, <1>8, Sizes
    <2>2. Wrap(Wrap(freeListTail + n) + (j - 1)) = Wrap(freeListTail + (n + (j - 1)))
        BY <1>6, <2>1, WrapAdd
    <2>3. freeListTail' \in Slots
        BY <1>1, CommitTyped
    <2>4. freeListTail' + j - 1 = freeListTail' + (j - 1)
          /\ freeListTail + (n + j) - 1 = freeListTail + (n + (j - 1))
        BY <1>6, <2>1, <2>3, Sizes DEF Slots
    <2>5. Wrap(freeListTail' + j - 1) = Wrap(freeListTail + (n + j) - 1)
        BY <1>7, <2>2, <2>4
    <2>6. fromTail(Wrap(freeListTail + (n + j) - 1)) = n + j
        BY <1>6, <2>1, FromTailIsPosition
    <2>7. Wrap(freeListTail + (n + j) - 1) \in Slots
        BY <1>6, <2>1, <2>4, WrapIsSlot
    <2>8. n + j > n
        BY <2>1
    <2> QED BY <1>1, <2>3, <2>5, <2>6, <2>7, <2>8, CommitTyped
<1>12. ASSUME NEW i \in 1 .. m - n
       PROVE  InFlight'[i].phyDest = freeList'[Wrap(freeListTail' + i - 1)]
    <2>1. i \in 1 .. m - n + p /\ n + i \in 1 .. m
        BY <1>3, <1>4
    <2>2. InFlight[n + i].phyDest = freeList[Wrap(freeListTail + (n + i) - 1)]
        BY <1>5, <2>1
    <2>3. InFlight'[i] = InFlight[n + i]
        BY <1>2
    <2> QED BY <1>11, <2>1, <2>2, <2>3
<1>13. ASSUME NEW i \in 1 .. p
       PROVE  InFlight'[m - n + i].phyDest
                 = freeList'[Wrap(freeListTail' + (m - n + i) - 1)]
    <2>1. m - n + i \in 1 .. m - n + p /\ n + (m - n + i) = m + i
        BY <1>3, <1>4
    <2>2. freeList'[Wrap(freeListTail' + (m - n + i) - 1)]
             = freeList[Wrap(freeListTail + (m + i) - 1)]
        BY <1>11, <2>1
    <2>3. /\ i - 1 \in Nat /\ m + (i - 1) <= SIZE_FREE_LIST
          /\ freeListTail + (m + i) - 1 = freeListTail + (m + (i - 1))
          /\ freeListHead + i - 1 = freeListHead + (i - 1)
        BY <1>3, <1>4, <1>6, <1>8, Sizes DEF IInv, TypeOK, Slots
    <2>4. Wrap(Wrap(freeListTail + m) + (i - 1)) = Wrap(freeListTail + (m + (i - 1)))
        BY <1>4, <1>6, <2>3, WrapAdd
    <2>5. phyDest(i) = freeList[Wrap(freeListTail + (m + i) - 1)]
        BY <1>5, <2>3, <2>4 DEF phyDest, readAddr
    <2>6. InFlight'[m - n + i].phyDest = phyDest(i)
        BY <1>2
    <2> QED BY <2>2, <2>5, <2>6
<1>14. ASSUME NEW i \in 1 .. Len(InFlight')
       PROVE  InFlight'[i].phyDest = freeList'[Wrap(freeListTail' + i - 1)]
    <2>1. CASE i <= m - n
        <3>1. i \in 1 .. m - n
            BY <1>2, <1>3, <1>4, <2>1
        <3> QED BY <1>12, <3>1
    <2>2. CASE ~ (i <= m - n)
        <3>1. i - (m - n) \in 1 .. p /\ m - n + (i - (m - n)) = i
            BY <1>2, <1>3, <1>4, <2>2
        <3> QED BY <1>13, <3>1
    <2> QED BY <2>1, <2>2
<1> QED BY <1>9, <1>10, <1>14

-----------------------------------------------------------------------------
(* The parts of the state that have no pointers *)

\* Renaming and repairing leave the speculative map well typed.
LEMMA SpeculativeMapTyped ==
    ASSUME TypeOK
    PROVE  /\ rmtRepair \in [LogRegs -> PhyRegs]
           /\ rmtUpdate(instBufRen.dest) \in [LogRegs -> PhyRegs]
<1> DEFINE d == instBufRen.dest
<1>1. d \in Seq(LogRegs) /\ Len(d) <= DISPATCH_WIDTH
    BY DEF TypeOK, IsBundle
<1>2. Len(d) \in Nat /\ DOMAIN d = 1 .. Len(d)
    BY <1>1, LenProperties
<1> HIDE DEF d
<1>3. ASSUME NEW l \in LogRegs PROVE rmtUpdate(d)[l] \in PhyRegs
    <2>1. CASE \E i \in DOMAIN d : d[i] = l
        <3> DEFINE T == {i \in 1 .. Len(d) : d[i] = l}
                   c == CHOOSE i \in DOMAIN d :
                            /\ d[i] = l
                            /\ \A j \in DOMAIN d : d[j] = l => j <= i
        <3>1. PICK i \in T : \A j \in T : j <= i
            <4>1. T # {} /\ T \in SUBSET (1 .. Len(d))
                BY <1>2, <2>1
            <4> HIDE DEF T
            <4> QED BY <1>2, <4>1, LastPosition
        <3>2. c \in DOMAIN d
            BY <1>2, <3>1
        <3>3. c \in 1 .. DISPATCH_WIDTH
            BY <1>1, <1>2, <3>2, Sizes
        <3>4. rmtUpdate(d)[l] = phyDest(c)
            BY <2>1 DEF rmtUpdate
        <3> QED BY <3>3, <3>4, BundleFits
    <2>2. CASE ~ \E i \in DOMAIN d : d[i] = l
        BY <2>2 DEF rmtUpdate, TypeOK
    <2> QED BY <2>1, <2>2
<1>4. rmtUpdate(d) \in [LogRegs -> PhyRegs]
    <2>1. rmtUpdate(d) = [l \in LogRegs |-> rmtUpdate(d)[l]]
        BY DEF rmtUpdate
    <2> QED BY <1>3, <2>1
<1>5. rmtRepair \in [LogRegs -> PhyRegs]
    BY DEF rmtRepair, TypeOK
<1> QED BY <1>4, <1>5 DEF d

\* A bundle offered in a cycle is a bundle.
LEMMA OfferedBundle ==
    ASSUME NEW stall, NEW bundle \in Offered(stall)
    PROVE  bundle \in OfferedBundles
BY DEF Offered, OfferedBundles

\* Every bundle the instruction buffer offers is well typed.
LEMMA OfferedTyped ==
    ASSUME NEW b \in OfferedBundles
    PROVE  IsBundle(b, LogRegs)
<1>1. CASE b = NoBundle
    <2>1. b \in [ready : BOOLEAN, dest : Seq(LogRegs)]
          /\ b.dest = <<>> /\ b.ready = FALSE
        BY <1>1, EmptySeq DEF NoBundle
    <2>2. Len(b.dest) = 0
        BY <2>1, EmptySeq
    <2> QED BY <2>1, <2>2, Sizes DEF IsBundle
<1>2. CASE b \in [ready : {TRUE}, dest : Bundles]
    <2>1. b.ready = TRUE /\ b.dest \in Bundles /\ b = [ready |-> TRUE, dest |-> b.dest]
        BY <1>2
    <2>2. PICK k \in 0 .. DISPATCH_WIDTH : b.dest \in [1 .. k -> LogRegs]
        BY <2>1 DEF Bundles
    <2>3. k \in Nat /\ k <= DISPATCH_WIDTH
        BY Sizes
    <2>4. b.dest \in Seq(LogRegs)
        BY <2>2, <2>3, SeqDef
    <2>5. Len(b.dest) = k
        BY <2>2, <2>3, <2>4, LenProperties
    <2> QED BY <2>1, <2>3, <2>4, <2>5 DEF IsBundle
<1> QED BY <1>1, <1>2 DEF OfferedBundles

\* The repair engine leaves IDLE exactly in the cycle of a flag, and counts
\* within its range.
LEMMA RepairStep ==
    ASSUME IInv, RepairEngine
    PROVE  /\ repairState' \in {"IDLE", "REPAIR"}
           /\ repairCounter' \in 0 .. N_REPAIR_CYCLES
           /\ repairState' = "IDLE" => repairCounter' = 0
           /\ flushPending => repairState' = "REPAIR"
           /\ ~flushPending /\ repairState' = "REPAIR" => repairState = "REPAIR"
           /\ ~flushPending /\ repairState = "IDLE" => repairState' = "IDLE"
<1>1. /\ repairState \in {"IDLE", "REPAIR"}
      /\ repairCounter \in 0 .. N_REPAIR_CYCLES
      /\ repairState = "IDLE" => repairCounter = 0
      /\ flushPending => repairState = "IDLE"
    BY DEF IInv, TypeOK, FlushFindsNothing
<1>2. N_REPAIR_CYCLES \in Nat /\ N_REPAIR_CYCLES >= 1
    BY RepairAssumption
<1>3. CASE repairState = "REPAIR" /\ repairCounter = N_REPAIR_CYCLES
    BY <1>1, <1>2, <1>3 DEF RepairEngine
<1>4. CASE /\ ~ (repairState = "REPAIR" /\ repairCounter = N_REPAIR_CYCLES)
           /\ repairFlag
    <2>1. repairState' = "REPAIR" /\ repairCounter' = repairCounter + 1
        BY <1>4 DEF RepairEngine
    <2>2. repairCounter + 1 \in 0 .. N_REPAIR_CYCLES
        BY <1>1, <1>2, <1>4
    <2> QED BY <1>1, <1>4, <2>1, <2>2 DEF repairFlag, flushPending
<1>5. CASE /\ ~ (repairState = "REPAIR" /\ repairCounter = N_REPAIR_CYCLES)
           /\ ~repairFlag
    BY <1>1, <1>5 DEF RepairEngine, repairFlag, flushPending, repairVars
<1> QED BY <1>3, <1>4, <1>5

\* What every cycle without a flag does to the front end's types.
LEMMA FrontEndTyped ==
    ASSUME IInv, ~flushPending, NEW stall \in BOOLEAN,
           NEW bundle \in OfferedBundles,
           NEW n \in Nat, n <= Len(al), FrontEnd(stall, bundle, n)
    PROVE  /\ rmt' \in [LogRegs -> PhyRegs]
           /\ IsBundle(instBufRen', LogRegs)
           /\ IsBundle(renDis', Writers)
           /\ freeListHead' \in Slots
           /\ freeListCnt' \in 0 .. SIZE_FREE_LIST
<1>1. rmt' \in [LogRegs -> PhyRegs]
    BY SpeculativeMapTyped DEF FrontEnd, RMTWrite, IInv, TypeOK
<1>2. IsBundle(instBufRen', LogRegs)
    <2>1. IsBundle(instBufRen, LogRegs) /\ IsBundle(bundle, LogRegs)
        BY OfferedTyped DEF IInv, TypeOK
    <2>2. instBufRen' = instBufRen \/ instBufRen' = bundle
        BY DEF FrontEnd, InstBufRename
    <2> QED BY <2>1, <2>2
<1>3. IsBundle(renDis', Writers)
    BY NextRenDis DEF FrontEnd, IInv
<1>4. /\ freeListHead' = Wrap(freeListHead + popped(stall))
      /\ freeListCnt' = freeListCnt + n - popped(stall)
      /\ popped(stall) \in Nat /\ popped(stall) <= freeListCnt
    BY PoppedHead, BundleFits DEF FrontEnd, IInv
<1>5. /\ Len(InFlight) + freeListCnt = SIZE_FREE_LIST
      /\ n <= Len(InFlight) /\ Len(InFlight) \in Nat
      /\ freeListCnt \in 0 .. SIZE_FREE_LIST
    BY InFlightParts DEF IInv, InFlightBehindHead, TypeOK
<1>6. freeListCnt' \in 0 .. SIZE_FREE_LIST
    BY <1>4, <1>5, Sizes
<1>7. popped(stall) \in 0 .. SIZE_FREE_LIST
    BY <1>4, <1>5, Sizes
<1>8. freeListHead' \in Slots
    BY <1>4, <1>7, WrapIsSlot DEF IInv, TypeOK
<1> QED BY <1>1, <1>2, <1>3, <1>6, <1>8

-----------------------------------------------------------------------------
(* The speculative map *)

\* Entry i of a sequence of writers of length m is its youngest writer of l.
IsYoungest(q, m, l, i) ==
    /\ i \in 1 .. m
    /\ q[i].logDest = l
    /\ \A j \in i + 1 .. m : q[j].logDest # l

\* Register r is what l maps to when the writers q overlay a map that sends l
\* to a.
Overlays(q, m, l, r, a) ==
    \/ /\ \A i \in 1 .. m : q[i].logDest # l
       /\ r = a
    \/ \E i \in 1 .. m : IsYoungest(q, m, l, i) /\ r = q[i].phyDest

Youngest(q, m, l) ==
    CHOOSE i \in 1 .. m :
        /\ q[i].logDest = l
        /\ \A j \in 1 .. m : q[j].logDest = l => j <= i

\* The youngest writer can be named instead of chosen.
LEMMA OverlayForm ==
    ASSUME NEW m \in Nat, NEW q, NEW l, NEW r, NEW a
    PROVE  Overlays(q, m, l, r, a) <=>
              r = IF \E i \in 1 .. m : q[i].logDest = l
                  THEN q[Youngest(q, m, l)].phyDest
                  ELSE a
<1> DEFINE T == {i \in 1 .. m : q[i].logDest = l}
           c == Youngest(q, m, l)
<1>1. CASE T = {}
    BY <1>1 DEF Overlays, IsYoungest
<1>2. CASE T # {}
    <2>1. PICK k \in T : \A j \in T : j <= k
        <3>1. T \in SUBSET (1 .. m)
            OBVIOUS
        <3> HIDE DEF T
        <3> QED BY <1>2, <3>1, LastPosition
    <2>2. k \in 1 .. m /\ q[k].logDest = l /\ \A j \in 1 .. m : q[j].logDest = l => j <= k
        BY <2>1
    <2>3. /\ c \in 1 .. m /\ q[c].logDest = l
          /\ \A j \in 1 .. m : q[j].logDest = l => j <= c
        BY <2>2 DEF Youngest
    <2> HIDE DEF c, T
    <2>4. IsYoungest(q, m, l, c)
        BY <2>3 DEF IsYoungest
    <2>5. \A i \in 1 .. m : IsYoungest(q, m, l, i) => i = c
        BY <2>3 DEF IsYoungest
    <2>6. Overlays(q, m, l, r, a) <=> r = q[c].phyDest
        BY <2>3, <2>4, <2>5 DEF Overlays
    <2> QED BY <2>2, <2>6 DEF c
<1> QED BY <1>1, <1>2

\* Renaming a bundle maps a logical register to its youngest writer's register.
LEMMA RenamedMap ==
    ASSUME TypeOK, NEW l \in LogRegs
    PROVE  LET d == instBufRen.dest
           IN  \/ \E c \in 1 .. Len(d) : /\ d[c] = l
                                         /\ \A j \in c + 1 .. Len(d) : d[j] # l
                                         /\ rmtUpdate(d)[l] = phyDest(c)
               \/ /\ \A c \in 1 .. Len(d) : d[c] # l
                  /\ rmtUpdate(d)[l] = rmt[l]
<1> DEFINE d == instBufRen.dest
<1>1. Len(d) \in Nat /\ DOMAIN d = 1 .. Len(d)
    BY LenProperties DEF TypeOK, IsBundle
<1> HIDE DEF d
<1>2. CASE \E i \in DOMAIN d : d[i] = l
    <2> DEFINE T == {i \in 1 .. Len(d) : d[i] = l}
               c == CHOOSE i \in DOMAIN d :
                        /\ d[i] = l
                        /\ \A j \in DOMAIN d : d[j] = l => j <= i
    <2>1. PICK i \in T : \A j \in T : j <= i
        <3>1. T # {} /\ T \in SUBSET (1 .. Len(d))
            BY <1>1, <1>2
        <3> HIDE DEF T
        <3> QED BY <1>1, <3>1, LastPosition
    <2>2. i \in DOMAIN d /\ d[i] = l /\ \A j \in DOMAIN d : d[j] = l => j <= i
        BY <1>1, <2>1
    <2>3. c \in DOMAIN d /\ d[c] = l /\ \A j \in DOMAIN d : d[j] = l => j <= c
        BY <2>2
    <2>4. rmtUpdate(d)[l] = phyDest(c)
        BY <1>2 DEF rmtUpdate
    <2> HIDE DEF c, T
    <2>5. \A j \in c + 1 .. Len(d) : d[j] # l
        BY <1>1, <2>3
    <2>6. c \in 1 .. Len(d)
        BY <1>1, <2>3
    <2> QED BY <2>3, <2>4, <2>5, <2>6 DEF d
<1>3. CASE ~ \E i \in DOMAIN d : d[i] = l
    BY <1>1, <1>3 DEF rmtUpdate, d
<1> QED BY <1>2, <1>3 DEF d

\* The overlay survives a cycle of commits, a dispatch and a rename: what
\* commits moves into the map below, what is renamed goes on top.
LEMMA CycleKeepsOverlay ==
    ASSUME TypeOK, NEW stall \in BOOLEAN,
           NEW k \in Nat, NEW n \in Nat, CommitReady(n),
           Commit(n), RenameDispatch(stall), Dispatched(stall, k, n),
           rmt' = IF stall \/ ~renameReady THEN rmt ELSE rmtUpdate(instBufRen.dest),
           NEW l \in LogRegs, Overlays(InFlight, Len(InFlight), l, rmt[l], amt[l])
    PROVE  /\ Len(InFlight') \in Nat
           /\ Overlays(InFlight', Len(InFlight'), l, rmt'[l], amt'[l])
<1> DEFINE p == popped(stall)
           m == Len(InFlight)
           d == instBufRen.dest
           q == InFlight'
<1>1. /\ n <= Len(al) /\ Len(al) \in Nat /\ m \in Nat /\ Len(al) <= m
      /\ \A i \in 1 .. Len(al) : InFlight[i] = al[i]
    BY InFlightParts DEF CommitReady
<1>2. p \in Nat
    BY BundleFits
<1>3. /\ Len(q) = m - n + p
      /\ \A i \in 1 .. m - n : q[i] = InFlight[n + i]
      /\ \A i \in 1 .. p : /\ q[m - n + i].phyDest = phyDest(i)
                           /\ q[m - n + i].logDest = d[i]
    BY <1>1, InFlightStep
<1>4. \/ \E c \in 1 .. p : /\ d[c] = l
                           /\ \A j \in c + 1 .. p : d[j] # l
                           /\ rmt'[l] = phyDest(c)
      \/ (\A c \in 1 .. p : d[c] # l) /\ rmt'[l] = rmt[l]
    <2>1. CASE stall \/ ~renameReady
        BY <2>1 DEF popped
    <2>2. CASE ~(stall \/ ~renameReady)
        BY <2>2, RenamedMap DEF popped
    <2> QED BY <2>1, <2>2
<1>5. \/ \E i \in 1 .. n : /\ al[i].logDest = l
                           /\ ~dontWriteAMT(n, i)
                           /\ amt'[l] = al[i].phyDest
      \/ (\A i \in 1 .. n : al[i].logDest # l) /\ amt'[l] = amt[l]
    BY CommittedMap DEF Commit
<1> HIDE DEF p, m, d, q
<1>6. Len(q) \in Nat
    BY <1>1, <1>2, <1>3
<1>7. \A i \in 1 .. Len(q) :
          \/ i \in 1 .. m - n
          \/ i - (m - n) \in 1 .. p /\ i = m - n + (i - (m - n))
    BY <1>1, <1>2, <1>3
<1>8. CASE \E c \in 1 .. p : d[c] = l
    <2>1. PICK c \in 1 .. p : d[c] = l /\ (\A j \in c + 1 .. p : d[j] # l) /\ rmt'[l] = phyDest(c)
        BY <1>4, <1>8
    <2>2. /\ m - n + c \in 1 .. Len(q)
          /\ q[m - n + c].logDest = l /\ q[m - n + c].phyDest = rmt'[l]
        BY <1>1, <1>2, <1>3, <2>1
    <2>3. ASSUME NEW j \in (m - n + c) + 1 .. Len(q)
          PROVE  q[j].logDest # l
        <3>1. j - (m - n) \in c + 1 .. p /\ j - (m - n) \in 1 .. p /\ j = m - n + (j - (m - n))
            BY <1>1, <1>2, <1>3, <2>1
        <3>2. q[j].logDest = d[j - (m - n)]
            BY <1>3, <3>1
        <3> QED BY <2>1, <3>1, <3>2
    <2>4. IsYoungest(q, Len(q), l, m - n + c)
        BY <2>2, <2>3 DEF IsYoungest
    <2>5. Overlays(q, Len(q), l, rmt'[l], amt'[l])
        BY <2>2, <2>4 DEF Overlays
    <2> QED BY <1>6, <2>5 DEF q
<1>9. CASE ~ \E c \in 1 .. p : d[c] = l
    <2>1. rmt'[l] = rmt[l]
        BY <1>4, <1>9
    <2>2. \A i \in 1 .. p : q[m - n + i].logDest # l
        BY <1>3, <1>9
    <2>3. CASE \E i \in 1 .. m : IsYoungest(InFlight, m, l, i) /\ rmt[l] = InFlight[i].phyDest
        <3>1. PICK y \in 1 .. m : IsYoungest(InFlight, m, l, y) /\ rmt[l] = InFlight[y].phyDest
            BY <2>3
        <3>2. InFlight[y].logDest = l /\ \A j \in y + 1 .. m : InFlight[j].logDest # l
            BY <3>1 DEF IsYoungest
        <3>3. CASE y > n
            <4>1. y - n \in 1 .. m - n /\ y = n + (y - n)
                BY <1>1, <3>3
            <4>2. q[y - n] = InFlight[y] /\ y - n \in 1 .. Len(q)
                BY <1>1, <1>2, <1>3, <4>1
            <4>3. ASSUME NEW j \in (y - n) + 1 .. Len(q)
                  PROVE  q[j].logDest # l
                <5>1. j \in 1 .. Len(q)
                    BY <1>1, <1>6, <4>1
                <5>2. CASE j \in 1 .. m - n
                    <6>1. n + j \in y + 1 .. m
                        BY <1>1, <4>1, <5>2
                    <6> QED BY <1>3, <3>2, <5>2, <6>1
                <5>3. CASE j - (m - n) \in 1 .. p /\ j = m - n + (j - (m - n))
                    BY <2>2, <5>3
                <5> QED BY <1>7, <5>1, <5>2, <5>3
            <4>4. IsYoungest(q, Len(q), l, y - n)
                BY <3>2, <4>2, <4>3 DEF IsYoungest
            <4>5. Overlays(q, Len(q), l, rmt'[l], amt'[l])
                BY <2>1, <3>1, <4>2, <4>4 DEF Overlays
            <4> QED BY <1>6, <4>5 DEF q
        <3>4. CASE y <= n
            <4>1. y \in 1 .. n /\ al[y] = InFlight[y]
                BY <1>1, <3>4
            <4>2. \A j \in y + 1 .. n : j \in y + 1 .. m /\ al[j] = InFlight[j]
                BY <1>1, <4>1
            <4>3. al[y].logDest = l /\ ~dontWriteAMT(n, y)
                BY <3>2, <4>1, <4>2 DEF dontWriteAMT
            <4>4. amt'[l] = al[y].phyDest
                BY <1>5, <4>1, <4>3, YoungestWrites
            <4>5. ASSUME NEW j \in 1 .. Len(q)
                  PROVE  q[j].logDest # l
                <5>1. CASE j \in 1 .. m - n
                    <6>1. n + j \in y + 1 .. m
                        BY <1>1, <4>1, <5>1
                    <6> QED BY <1>3, <3>2, <5>1, <6>1
                <5>2. CASE j - (m - n) \in 1 .. p /\ j = m - n + (j - (m - n))
                    BY <2>2, <5>2
                <5> QED BY <1>7, <5>1, <5>2
            <4>6. Overlays(q, Len(q), l, rmt'[l], amt'[l])
                BY <2>1, <3>1, <4>1, <4>4, <4>5 DEF Overlays
            <4> QED BY <1>6, <4>6 DEF q
        <3>5. n \in Int /\ y \in Int
            BY <1>1
        <3> QED BY <3>3, <3>4, <3>5
    <2>4. CASE (\A i \in 1 .. m : InFlight[i].logDest # l) /\ rmt[l] = amt[l]
        <3>1. amt'[l] = amt[l]
            <4>1. \A i \in 1 .. n : i \in 1 .. m /\ al[i] = InFlight[i]
                BY <1>1
            <4> QED BY <1>5, <2>4, <4>1
        <3>2. ASSUME NEW j \in 1 .. Len(q)
              PROVE  q[j].logDest # l
            <4>1. CASE j \in 1 .. m - n
                <5>1. n + j \in 1 .. m
                    BY <1>1, <4>1
                <5> QED BY <1>3, <2>4, <4>1, <5>1
            <4>2. CASE j - (m - n) \in 1 .. p /\ j = m - n + (j - (m - n))
                BY <2>2, <4>2
            <4> QED BY <1>7, <4>1, <4>2
        <3>3. Overlays(q, Len(q), l, rmt'[l], amt'[l])
            BY <2>1, <2>4, <3>1, <3>2 DEF Overlays
        <3> QED BY <1>6, <3>3 DEF q
    <2> QED BY <2>3, <2>4 DEF Overlays, m
<1> QED BY <1>8, <1>9

\* The cycles of a repair reach every entry of the map.
LEMMA RepairCovers ==
    ASSUME NEW l \in LogRegs
    PROVE  \E i \in 0 .. N_REPAIR_PACKETS - 1, c \in 0 .. N_REPAIR_CYCLES - 1 :
              l = i * N_REPAIR_CYCLES + c
<1> DEFINE C == N_REPAIR_CYCLES
           P == N_REPAIR_PACKETS
           D == {i \in Nat : l < (i + 1) * C}
           R == {ss \in Nat \X Nat : ss[1] < ss[2]}
<1>1. C \in Nat /\ C >= 1 /\ P \in Nat /\ l \in Nat /\ l < P * C
    <2>1. SIZE_RMT \in Nat /\ l \in Nat /\ l < SIZE_RMT
        BY Sizes DEF LogRegs
    <2>2. C \in Nat /\ C >= 1 /\ P \in Nat /\ SIZE_RMT <= P * C
        BY RepairAssumption
    <2>3. P * C \in Nat
        BY <2>2
    <2> HIDE DEF P, C
    <2> QED BY <2>1, <2>2, <2>3
<1> HIDE DEF C, P
<1>2. l \in D
    <2>1. (l + 1) * C >= l + 1
        BY <1>1
    <2> QED BY <1>1, <2>1
<1>3. PICK i \in D : \A j \in D : ~ (<<j, i>> \in R)
    <2>1. D \subseteq Nat /\ D # {}
        BY <1>2
    <2> HIDE DEF D
    <2> QED BY <2>1, NatOrderWellFounded, WFMin, Zenon
<1>4. i \in Nat /\ l < (i + 1) * C
    OBVIOUS
<1>5. i * C <= l
    <2>1. CASE i = 0
        BY <1>1, <2>1
    <2>2. CASE i # 0
        <3> DEFINE j == i - 1
        <3>1. j \in Nat /\ j + 1 = i /\ j < i
            BY <1>4, <2>2
        <3> HIDE DEF j
        <3>2. <<j, i>> \in R
            BY <1>4, <3>1
        <3>3. j \notin D
            BY <1>3, <3>2
        <3>4. ~(l < i * C)
            BY <3>1, <3>3
        <3>5. i * C \in Nat
            BY <1>1, <1>4
        <3> QED BY <1>1, <3>4, <3>5
    <2> QED BY <2>1, <2>2
<1> HIDE DEF D, R
<1>6. i * C \in Nat /\ (i + 1) * C = i * C + C
    BY <1>1, <1>4
<1>7. l - i * C \in 0 .. C - 1 /\ l = i * C + (l - i * C)
    BY <1>1, <1>4, <1>5, <1>6
<1>8. i \in 0 .. P - 1
    <2>1. ASSUME i >= P PROVE FALSE
        <3>1. i * C >= P * C
            BY <1>1, <1>4, <2>1
        <3> QED BY <1>1, <1>5, <1>6, <3>1
    <2> QED BY <1>1, <1>4, <2>1
<1> QED BY <1>7, <1>8 DEF C, P

\* A cycle of the engine writes the next entries and leaves those before as
\* they should be; the last one leaves all so.
LEMMA RepairProgresses ==
    ASSUME IInv, RepairEngine, repairFlag, rmt' = rmtRepair, amt' = amt
    PROVE  /\ RepairedSoFar'
           /\ repairState' = "IDLE" => \A l \in LogRegs : rmt'[l] = amt'[l]
<1> DEFINE C == N_REPAIR_CYCLES
           P == N_REPAIR_PACKETS
<1>1. /\ repairState \in {"IDLE", "REPAIR"} /\ repairCounter \in 0 .. C
      /\ repairState = "IDLE" => repairCounter = 0
      /\ C \in Nat /\ C >= 1
    BY RepairAssumption DEF IInv, TypeOK, FlushFindsNothing
<1>2. ASSUME NEW i \in 0 .. P - 1, NEW c \in 0 .. repairCounter, i * C + c \in LogRegs,
             c < repairCounter \/ repairCounter < C
      PROVE  rmt'[i * C + c] = amt'[i * C + c]
    <2> DEFINE l == i * C + c
    <2>1. rmtRepair[l] = IF \E j \in 0 .. P - 1 : l = j * C + repairCounter
                         THEN amt[l] ELSE rmt[l]
        BY <1>2 DEF rmtRepair, repairAddr
    <2>2. CASE c = repairCounter
        <3>1. \E j \in 0 .. P - 1 : l = j * C + repairCounter
            BY <2>2
        <3> QED BY <2>1, <3>1
    <2>3. CASE c # repairCounter
        <3>1. c \in 0 .. repairCounter - 1 /\ repairState = "REPAIR"
            BY <1>1, <2>3
        <3>2. rmt[l] = amt[l]
            BY <1>2, <3>1 DEF IInv, RepairedSoFar
        <3> QED BY <2>1, <3>2
    <2> QED BY <2>2, <2>3
<1>3. CASE repairState = "REPAIR" /\ repairCounter = C
    <2>1. repairState' = "IDLE"
        BY <1>3 DEF RepairEngine
    <2>2. ASSUME NEW l \in LogRegs
          PROVE  rmt'[l] = amt'[l]
        <3>1. PICK i \in 0 .. P - 1, c \in 0 .. C - 1 : l = i * C + c
            BY RepairCovers
        <3>2. c \in 0 .. repairCounter /\ c < repairCounter
            BY <1>1, <1>3
        <3> QED BY <1>2, <3>1, <3>2
    <2> QED BY <2>1, <2>2 DEF RepairedSoFar
<1>4. CASE ~(repairState = "REPAIR" /\ repairCounter = C)
    <2>1. repairState' = "REPAIR" /\ repairCounter' = repairCounter + 1
        BY <1>4 DEF RepairEngine
    <2>2. repairCounter < C
        BY <1>1, <1>4
    <2>3. \A i \in 0 .. P - 1, c \in 0 .. repairCounter' - 1 :
              i * C + c \in LogRegs => rmt'[i * C + c] = amt'[i * C + c]
        <3>1. \A c \in 0 .. repairCounter' - 1 : c \in 0 .. repairCounter
            BY <1>1, <2>1
        <3> QED BY <1>2, <2>2, <3>1
    <2> QED BY <2>1, <2>3 DEF RepairedSoFar
<1> QED BY <1>3, <1>4

\* The invariant of a next state, in the terms of the lemmas.
LEMMA NextOverlay ==
    ASSUME \A l \in LogRegs :
               Len(InFlight') \in Nat /\ Overlays(InFlight', Len(InFlight'), l, rmt'[l], amt'[l])
    PROVE  SpeculativeMapIsOverlay'
<1>1. ASSUME NEW l \in LogRegs
      PROVE  rmt'[l] = IF \E i \in 1 .. Len(InFlight') : InFlight'[i].logDest = l
                       THEN InFlight'[Youngest(InFlight', Len(InFlight'), l)].phyDest
                       ELSE amt'[l]
    BY OverlayForm
<1> QED BY ONLY <1>1, Zenon DEF SpeculativeMapIsOverlay, YoungestWriter, Youngest

\* With nothing in flight and the maps equal, the overlay is trivial.
LEMMA OverlayOfNothing ==
    ASSUME Len(InFlight') = 0, \A l \in LogRegs : rmt'[l] = amt'[l]
    PROVE  SpeculativeMapIsOverlay'
<1>1. 1 .. Len(InFlight') = {}
    OBVIOUS
<1>2. \A l \in LogRegs : Overlays(InFlight', Len(InFlight'), l, rmt'[l], amt'[l])
    BY <1>1, Zenon DEF Overlays
<1>3. Len(InFlight') \in Nat
    OBVIOUS
<1> QED BY <1>2, <1>3, NextOverlay

\* The overlay after a cycle without a flag.
LEMMA CycleKeepsMaps ==
    ASSUME IInv, ~flushPending, NEW stall \in BOOLEAN, NEW bundle \in OfferedBundles,
           NEW k \in Nat, NEW n \in Nat, n <= Len(al), n <= k, k <= alCount,
           Commit(n), FrontEnd(stall, bundle, n), Dispatched(stall, k, n),
           ~flushPending'
    PROVE  SpeculativeMapIsOverlay' /\ RepairedSoFar'
<1>1. /\ TypeOK /\ SpeculativeMapIsOverlay /\ CommitReady(n)
      /\ RMTWrite(stall) /\ RepairEngine /\ RenameDispatch(stall)
    BY ReadyToCommit DEF IInv, FrontEnd
<1>2. Len(InFlight) \in Nat
    BY <1>1, InFlightParts
<1>3. CASE ~repairFlag
    <2>1. \A l \in LogRegs : Overlays(InFlight, Len(InFlight), l, rmt[l], amt[l])
        <3>1. ASSUME NEW l \in LogRegs
              PROVE  rmt[l] = IF \E i \in 1 .. Len(InFlight) : InFlight[i].logDest = l
                              THEN InFlight[Youngest(InFlight, Len(InFlight), l)].phyDest
                              ELSE amt[l]
            BY <1>1, <1>3, Zenon
               DEF SpeculativeMapIsOverlay, YoungestWriter, Youngest
        <3> QED BY <1>2, <3>1, OverlayForm
    <2>2. rmt' = IF stall \/ ~renameReady THEN rmt ELSE rmtUpdate(instBufRen.dest)
        BY <1>1, <1>3 DEF RMTWrite
    <2>3. \A l \in LogRegs :
              Len(InFlight') \in Nat /\ Overlays(InFlight', Len(InFlight'), l, rmt'[l], amt'[l])
        BY <1>1, <2>1, <2>2, CycleKeepsOverlay
    <2>4. SpeculativeMapIsOverlay'
        BY <2>3, NextOverlay
    <2>5. repairState' # "REPAIR"
        BY <1>1, <1>3, RepairStep DEF repairFlag, IInv, TypeOK
    <2> QED BY <2>4, <2>5 DEF RepairedSoFar
<1>4. CASE repairFlag
    <2>1. repairState = "REPAIR"
        BY <1>4 DEF repairFlag, flushPending
    <2>2. al = <<>> /\ alCount = 0 /\ ~renDis.ready /\ ~instBufRen.ready
        BY <2>1 DEF IInv, QuietWhileRepairing
    <2>3. n = 0 /\ renDis.dest = <<>>
        BY <1>1, <2>2 DEF TypeOK, IsBundle
    <2>4. amt' = amt
        <3>1. amt' = [l \in LogRegs |-> amt[l]]
            BY <2>3 DEF Commit, amtUpdate
        <3> QED BY <3>1 DEF IInv, TypeOK
    <2>5. rmt' = rmtRepair
        BY <1>1, <1>4 DEF RMTWrite
    <2>6. RepairedSoFar' /\ (repairState' = "IDLE" => \A l \in LogRegs : rmt'[l] = amt'[l])
        BY <1>1, <1>4, <2>4, <2>5, RepairProgresses
    <2>7. Len(InFlight') = 0
        <3>1. popped(stall) = 0
            BY <2>2 DEF popped, renameReady
        <3>2. Len(InFlight') = Len(InFlight) - n + popped(stall)
            BY <1>1, InFlightStep
        <3>3. Len(InFlight) = 0
            BY <1>1, <2>2, <2>3, InFlightParts, EmptySeq
        <3> QED BY <2>3, <3>1, <3>2, <3>3
    <2>8. repairFlag' \/ repairState' = "IDLE"
        BY <1>1, RepairStep DEF repairFlag
    <2>9. SpeculativeMapIsOverlay'
        BY <2>6, <2>7, <2>8, OverlayOfNothing DEF SpeculativeMapIsOverlay
    <2> QED BY <2>6, <2>9
<1> QED BY <1>3, <1>4

-----------------------------------------------------------------------------
(* Every step preserves the inductive invariant *)

\* An ordinary cycle.
LEMMA CycleKeepsIInv ==
    ASSUME IInv, NEW stall \in BOOLEAN, NEW bundle \in OfferedBundles,
           NEW k \in 0 .. COMMIT_WIDTH, NEW n \in 0 .. COMMIT_WIDTH,
           Cycle(stall, bundle, k, n)
    PROVE  IInv'
<1>1. ~flushPending /\ ~flushPending'
    BY DEF Cycle, flushPending
<1>2. k \in Nat /\ n \in Nat /\ n <= Len(al) /\ n <= k /\ k <= alCount
      /\ Len(al) - n <= alCount - k
    BY WidthAssumption DEF Cycle, Retires
<1>3. CommitReady(n) /\ Commit(n)
    BY <1>1, <1>2, ReadyToCommit DEF Cycle
<1>4. FrontEnd(stall, bundle, n) /\ Dispatched(stall, k, n)
    BY DEF Cycle
<1>5. /\ al' \in Seq(Writers)
      /\ Len(al') = Len(al) - n + (IF backEndReady(stall)
                                   THEN Len(renDis.dest) ELSE 0)
    BY <1>2, <1>4, InFlightStep DEF IInv, FrontEnd
<1>6. /\ Len(renDis.dest) \in Nat /\ Len(renDis.dest) <= DISPATCH_WIDTH
      /\ Len(al) \in Nat /\ Len(al) <= alCount
      /\ alCount \in 0 .. SIZE_ACTIVELIST
    BY InFlightParts DEF IInv, TypeOK, IsBundle
<1>7. alCount' \in 0 .. SIZE_ACTIVELIST /\ Len(al') <= alCount'
    <2>1. alCount' = alCount - k + (IF backEndReady(stall)
                                    THEN DISPATCH_WIDTH ELSE 0)
        BY <1>4 DEF Dispatched
    <2>2. backEndReady(stall) => alCount + DISPATCH_WIDTH <= SIZE_ACTIVELIST
        BY <1>6, WidthAssumption DEF Cycle, alStall, backEndReady
    <2> QED BY <1>2, <1>5, <1>6, <2>1, <2>2, WidthAssumption
<1>8. TypeOK'
    <2>1. recoverFlag' \in BOOLEAN /\ exceptionFlag' \in BOOLEAN
        BY DEF Cycle, IInv, TypeOK
    <2>2. /\ repairState' \in {"IDLE", "REPAIR"}
          /\ repairCounter' \in 0 .. N_REPAIR_CYCLES
        BY <1>4, RepairStep DEF FrontEnd
    <2> QED BY <1>1, <1>2, <1>3, <1>4, <1>5, <1>7, <2>1, <2>2,
               CommitTyped, FrontEndTyped DEF TypeOK
<1>9. RegistersConserved'
    BY <1>3, CommitConserves DEF IInv
<1>10. InFlightBehindHead'
    BY <1>1, <1>2, <1>3, <1>4, CycleKeepsOrder DEF FrontEnd, InFlightBehindHead
<1>11. FlushFindsNothing'
    BY <1>1, <1>4, RepairStep DEF FlushFindsNothing, FrontEnd
<1>12. QuietWhileRepairing'
    <2> SUFFICES ASSUME repairState' = "REPAIR"
                 PROVE  /\ ~instBufRen'.ready /\ ~renDis'.ready
                        /\ alCount' = 0 /\ al' = <<>>
                        /\ freeListCnt' = SIZE_FREE_LIST
        BY <1>1 DEF QuietWhileRepairing
    <2>1. repairState = "REPAIR"
        BY <1>1, <1>4, RepairStep DEF FrontEnd
    <2>2. /\ ~instBufRen.ready /\ ~renDis.ready
          /\ alCount = 0 /\ al = <<>> /\ freeListCnt = SIZE_FREE_LIST
        BY <2>1 DEF IInv, QuietWhileRepairing
    <2>3. k = 0 /\ n = 0
        BY <1>2, <2>2
    <2>4. ~backEndReady(stall) /\ ~renameReady /\ repairFlag
        BY <2>1, <2>2 DEF backEndReady, renameReady, repairFlag
    <2>5. alCount' = 0
        BY <1>4, <2>2, <2>3, <2>4 DEF Dispatched
    <2>6. al' = <<>>
        <3>1. Len(al') = 0
            BY <1>5, <1>7, <2>5, LenProperties
        <3> QED BY <1>5, <3>1, EmptySeq
    <2>7. instBufRen' = instBufRen
        BY <1>4, <2>4 DEF FrontEnd, InstBufRename
    <2>8. renDis' = renDis \/ renDis' = NoBundle
        BY <1>4, <2>4 DEF FrontEnd, RenameDispatch
    <2>9. freeListCnt' = SIZE_FREE_LIST
        BY <1>4, <2>2, <2>3, <2>4, Sizes DEF FrontEnd, FreeListPop
    <2> QED BY <2>2, <2>5, <2>6, <2>7, <2>8, <2>9 DEF NoBundle
<1>13. SpeculativeMapIsOverlay' /\ RepairedSoFar'
    BY <1>1, <1>2, <1>3, <1>4, CycleKeepsMaps
<1> QED BY <1>8, <1>9, <1>10, <1>11, <1>12, <1>13 DEF IInv

\* A cycle that decides to flush.
LEMMA FlushDecisionKeepsIInv ==
    ASSUME IInv, NEW stall \in BOOLEAN, NEW bundle \in OfferedBundles,
           NEW k \in 0 .. 1, NEW n \in 0 .. 1, NEW isException \in BOOLEAN,
           FlushDecision(stall, bundle, k, n, isException)
    PROVE  IInv'
<1>1. ~flushPending /\ flushPending'
    BY DEF FlushDecision, flushPending
<1>2. n \in Nat /\ n <= Len(al)
    BY DEF FlushDecision, Retires
<1>3. CommitReady(n) /\ Commit(n) /\ FrontEnd(stall, bundle, n)
    BY <1>1, <1>2, ReadyToCommit DEF FlushDecision
<1>4. al' = <<>> /\ alCount' = 0 /\ al' \in Seq(Writers) /\ Len(al') = 0
    BY EmptySeq DEF FlushDecision
<1>5. /\ recoverFlag' \in BOOLEAN /\ exceptionFlag' \in BOOLEAN
      /\ ~(recoverFlag' /\ exceptionFlag')
    BY DEF FlushDecision
<1>6. repairState = "IDLE"
    <2>1. alCount # 0
        BY DEF FlushDecision, IInv, TypeOK
    <2> QED BY <2>1 DEF IInv, TypeOK, QuietWhileRepairing
<1>7. repairState' = "IDLE" /\ repairCounter' = 0
    BY <1>1, <1>3, <1>6, RepairStep DEF FrontEnd
<1>8. TypeOK'
    <2>1. repairCounter' \in 0 .. N_REPAIR_CYCLES
        BY <1>3, RepairStep DEF FrontEnd
    <2>2. alCount' \in 0 .. SIZE_ACTIVELIST /\ Len(al') <= alCount'
        BY <1>4, WidthAssumption
    <2> QED BY <1>1, <1>2, <1>3, <1>4, <1>5, <1>7, <2>1, <2>2,
               CommitTyped, FrontEndTyped DEF TypeOK
<1>9. RegistersConserved'
    BY <1>3, CommitConserves DEF IInv
<1>10. InFlightBehindHead' /\ QuietWhileRepairing' /\ FlushFindsNothing'
    BY <1>1, <1>4, <1>5, <1>7
       DEF InFlightBehindHead, QuietWhileRepairing, FlushFindsNothing
<1>11. SpeculativeMapIsOverlay' /\ RepairedSoFar'
    BY <1>1, <1>7 DEF SpeculativeMapIsOverlay, RepairedSoFar, repairFlag, flushPending
<1> QED BY <1>8, <1>9, <1>10, <1>11 DEF IInv

\* A flush leaves nothing in flight.
LEMMA NothingInFlight ==
    ASSUME al' = <<>>, renDis' = NoBundle, freeListTail' \in Slots
    PROVE  /\ Len(InFlight') = 0
           /\ Wrap(freeListTail' + Len(InFlight')) = freeListTail'
           /\ IsBundle(renDis', Writers)
<1>1. <<>> \in Seq(Writers) /\ Len(<<>>) = 0
    BY EmptySeq
<1>2. InFlight' = <<>> \o <<>>
    BY DEF InFlight, NoBundle
<1>3. Len(InFlight') = 0
    <2>1. Len(<<>> \o <<>>) = Len(<<>>) + Len(<<>>)
        BY <1>1, ConcatProperties
    <2> QED BY <1>1, <1>2, <2>1
<1>4. Wrap(freeListTail' + Len(InFlight')) = freeListTail'
    <2>1. \A s \in Slots : s \in Int /\ s + 0 = s /\ ~(s >= SIZE_FREE_LIST)
        BY Sizes DEF Slots
    <2>2. freeListTail' + Len(InFlight') = freeListTail'
        BY <1>3, <2>1
    <2> QED BY <2>1, <2>2 DEF Wrap
<1>5. IsBundle(renDis', Writers)
    BY <1>1, Sizes, WidthAssumption DEF IsBundle, NoBundle
<1> QED BY <1>3, <1>4, <1>5

\* The cycle of recoverFlag.
LEMMA RecoverKeepsIInv ==
    ASSUME IInv, Recover
    PROVE  IInv'
<1>1. /\ flushPending /\ ~flushPending' /\ recoverFlag' \in BOOLEAN
      /\ exceptionFlag' \in BOOLEAN
      /\ al' = <<>> /\ alCount' = 0 /\ renDis' = NoBundle
      /\ al' \in Seq(Writers) /\ Len(al') = 0
    BY EmptySeq DEF Recover, flushPending, IInv, FlushFindsNothing, TypeOK
<1>2. /\ freeListTail' = freeListTail /\ freeList' = freeList /\ amt' = amt
      /\ freeListHead' = freeListTail /\ freeListCnt' = SIZE_FREE_LIST
      /\ freeListTail \in Slots
    BY DEF Recover, IInv, TypeOK
<1>3. /\ repairState' = "REPAIR"
      /\ repairCounter' \in 0 .. N_REPAIR_CYCLES
    BY <1>1, RepairStep DEF Recover
<1>4. IsBundle(instBufRen', LogRegs)
    BY OfferedTyped DEF Recover, OfferedBundles
<1>5. /\ Len(InFlight') = 0
      /\ Wrap(freeListTail' + Len(InFlight')) = freeListTail'
      /\ IsBundle(renDis', Writers)
    BY <1>1, <1>2, NothingInFlight
<1>6. TypeOK'
    <2>1. rmt' \in [LogRegs -> PhyRegs]
        BY SpeculativeMapTyped DEF Recover, IInv
    <2> QED BY <1>1, <1>2, <1>3, <1>4, <1>5, <2>1, Sizes, WidthAssumption
            DEF TypeOK, IInv
<1>7. RegistersConserved'
    BY <1>2 DEF RegistersConserved, IInv
<1>8. InFlightBehindHead'
    BY <1>2, <1>5, Sizes DEF InFlightBehindHead
<1>9. QuietWhileRepairing'
    BY <1>1, <1>2 DEF QuietWhileRepairing, Recover, NoBundle
<1>10. FlushFindsNothing'
    BY <1>1, <1>3 DEF FlushFindsNothing
<1>11. SpeculativeMapIsOverlay'
    BY <1>3 DEF SpeculativeMapIsOverlay, repairFlag
<1>12. RepairedSoFar'
    <2>1. repairFlag /\ RepairEngine /\ rmt' = rmtRepair
        BY DEF Recover, repairFlag
    <2> QED BY <1>2, <2>1, RepairProgresses
<1> QED BY <1>6, <1>7, <1>8, <1>9, <1>10, <1>11, <1>12 DEF IInv

\* The registers of a reset: slot s holds SIZE_RMT + s, entry l holds l.
LEMMA ResetRegisters ==
    /\ [s \in Slots |-> s + SIZE_RMT] \in [Slots -> PhyRegs]
    /\ [l \in LogRegs |-> l] \in [LogRegs -> PhyRegs]
    /\ \A s, t \in Slots : s + SIZE_RMT = t + SIZE_RMT => s = t
    /\ \A s \in Slots, l \in LogRegs : s + SIZE_RMT # l
<1>1. SIZE_RMT \in Nat /\ SIZE_FREE_LIST \in Nat
      /\ SIZE_FREE_LIST + SIZE_RMT = SIZE_PHYSICAL_TABLE
    BY Sizes, SizeAssumption DEF SIZE_FREE_LIST
<1>2. \A s \in Slots : s + SIZE_RMT \in PhyRegs
    BY <1>1, SizeAssumption DEF Slots, PhyRegs
<1>3. \A l \in LogRegs : l \in PhyRegs
    BY <1>1, SizeAssumption DEF LogRegs, PhyRegs
<1>4. \A s \in Slots, l \in LogRegs : s + SIZE_RMT # l
    BY <1>1 DEF Slots, LogRegs
<1>5. \A s, t \in Slots : s + SIZE_RMT = t + SIZE_RMT => s = t
    BY <1>1 DEF Slots
<1> QED BY <1>2, <1>3, <1>4, <1>5

\* The cycle of exceptionFlag.
LEMMA ExceptionKeepsIInv ==
    ASSUME IInv, Exception
    PROVE  IInv'
<1>1. /\ flushPending /\ ~flushPending' /\ recoverFlag' \in BOOLEAN
      /\ exceptionFlag' \in BOOLEAN
      /\ al' = <<>> /\ alCount' = 0 /\ renDis' = NoBundle
      /\ al' \in Seq(Writers) /\ Len(al') = 0
    BY EmptySeq DEF Exception, flushPending, IInv, FlushFindsNothing, TypeOK
<1>2. /\ freeListTail' = 0 /\ freeListHead' = 0
      /\ freeListCnt' = SIZE_FREE_LIST /\ 0 \in Slots
    BY Sizes DEF Exception, Slots
<1>3. /\ freeList' = [s \in Slots |-> s + SIZE_RMT]
      /\ amt' = [l \in LogRegs |-> l] /\ rmt' = [l \in LogRegs |-> l]
    BY DEF Exception
<1>4. /\ repairState' = "REPAIR"
      /\ repairCounter' \in 0 .. N_REPAIR_CYCLES
    BY <1>1, RepairStep DEF Exception
<1>5. IsBundle(instBufRen', LogRegs)
    BY OfferedTyped DEF Exception, OfferedBundles
<1>6. /\ Len(InFlight') = 0
      /\ Wrap(freeListTail' + Len(InFlight')) = freeListTail'
      /\ IsBundle(renDis', Writers)
    BY <1>1, <1>2, NothingInFlight
<1>7. TypeOK'
    BY <1>1, <1>2, <1>3, <1>4, <1>5, <1>6, ResetRegisters, Sizes,
       WidthAssumption DEF TypeOK
<1>8. RegistersConserved'
    BY <1>3, ResetRegisters DEF RegistersConserved
<1>9. InFlightBehindHead'
    BY <1>2, <1>6, Sizes DEF InFlightBehindHead
<1>10. QuietWhileRepairing'
    BY <1>1, <1>2 DEF QuietWhileRepairing, Exception, NoBundle
<1>11. FlushFindsNothing'
    BY <1>1, <1>4 DEF FlushFindsNothing
<1>12. SpeculativeMapIsOverlay' /\ RepairedSoFar'
    <2>1. \A l \in LogRegs : rmt'[l] = amt'[l]
        BY <1>3
    <2> QED BY <1>4, <2>1 DEF SpeculativeMapIsOverlay, RepairedSoFar, repairFlag
<1> QED BY <1>7, <1>8, <1>9, <1>10, <1>11, <1>12 DEF IInv

-----------------------------------------------------------------------------
(* The inductive argument *)

\* The reset state satisfies the inductive invariant.
LEMMA InitIInv == Init => IInv
<1> SUFFICES ASSUME Init PROVE IInv
    OBVIOUS
<1>1. /\ al \in Seq(Writers) /\ Len(al) = 0
      /\ <<>> \in Seq(LogRegs) /\ <<>> \in Seq(Writers) /\ Len(<<>>) = 0
    BY EmptySeq DEF Init
<1>2. IsBundle(instBufRen, LogRegs) /\ IsBundle(renDis, Writers)
    BY <1>1, WidthAssumption DEF Init, IsBundle, NoBundle
<1>3. Len(InFlight) = 0
    <2>1. Len(<<>> \o <<>>) = Len(<<>>) + Len(<<>>)
        BY <1>1, ConcatProperties
    <2> QED BY <1>1, <2>1 DEF Init, InFlight, NoBundle
<1>4. 0 \in Slots /\ freeListHead = 0 /\ freeListTail = 0
      /\ freeListCnt = SIZE_FREE_LIST
    BY Sizes DEF Init, Slots
<1>5. TypeOK
    <2>1. /\ freeList \in [Slots -> PhyRegs] /\ rmt \in [LogRegs -> PhyRegs]
          /\ amt \in [LogRegs -> PhyRegs]
        BY ResetRegisters DEF Init
    <2>2. freeListCnt \in 0 .. SIZE_FREE_LIST
        BY <1>4, Sizes
    <2>3. alCount \in 0 .. SIZE_ACTIVELIST /\ Len(al) <= alCount
        BY <1>1, WidthAssumption DEF Init
    <2>4. /\ repairState \in {"IDLE", "REPAIR"}
          /\ recoverFlag \in BOOLEAN /\ exceptionFlag \in BOOLEAN
        BY DEF Init
    <2>5. repairCounter \in 0 .. N_REPAIR_CYCLES
        BY RepairAssumption DEF Init
    <2> QED BY <1>1, <1>2, <1>4, <2>1, <2>2, <2>3, <2>4, <2>5 DEF TypeOK
<1>6. RegistersConserved
    BY ResetRegisters DEF Init, RegistersConserved
<1>7. InFlightBehindHead
    BY <1>3, <1>4, Sizes DEF InFlightBehindHead, Wrap
<1>8. QuietWhileRepairing /\ FlushFindsNothing
    BY DEF Init, QuietWhileRepairing, FlushFindsNothing, flushPending
<1>9. SpeculativeMapIsOverlay
    <2>1. 1 .. Len(InFlight) = {}
        BY <1>3
    <2>2. \A l \in LogRegs : rmt[l] = amt[l]
        BY DEF Init
    <2>3. ASSUME NEW l \in LogRegs
          PROVE  rmt[l] = IF \E i \in 1 .. Len(InFlight) : InFlight[i].logDest = l
                          THEN InFlight[YoungestWriter(l)].phyDest
                          ELSE amt[l]
        <3>1. ~ \E i \in 1 .. Len(InFlight) : InFlight[i].logDest = l
            BY <2>1, Zenon
        <3> QED BY <2>2, <3>1, Zenon
    <2> QED BY <2>3, Zenon DEF SpeculativeMapIsOverlay
<1>10. RepairedSoFar
    BY DEF Init, RepairedSoFar
<1> QED BY <1>5, <1>6, <1>7, <1>8, <1>9, <1>10 DEF IInv

\* Every step, stuttering included, preserves the inductive invariant.
LEMMA NextIInv == IInv /\ [Next]_vars => IInv'
<1> SUFFICES ASSUME IInv, [Next]_vars PROVE IInv'
    OBVIOUS
<1>1. ASSUME NEW stall \in BOOLEAN, NEW bundle \in Offered(stall),
             NEW k \in 0 .. COMMIT_WIDTH, NEW n \in 0 .. COMMIT_WIDTH,
             Cycle(stall, bundle, k, n)
      PROVE  IInv'
    <2>1. bundle \in OfferedBundles
        BY OfferedBundle
    <2> QED BY <1>1, <2>1, CycleKeepsIInv
<1>2. ASSUME NEW stall \in BOOLEAN, NEW bundle \in Offered(stall),
             NEW k \in 0 .. 1, NEW n \in 0 .. 1, NEW isException \in BOOLEAN,
             FlushDecision(stall, bundle, k, n, isException)
      PROVE  IInv'
    <2>1. bundle \in OfferedBundles
        BY OfferedBundle
    <2> QED BY <1>2, <2>1, FlushDecisionKeepsIInv
<1>3. CASE Recover
    BY <1>3, RecoverKeepsIInv
<1>4. CASE Exception
    BY <1>4, ExceptionKeepsIInv
<1>5. CASE UNCHANGED vars
    <2> USE <1>5 DEF vars, listVars, mapVars, pipeVars, alVars, repairVars
    <2>1. /\ TypeOK' /\ RegistersConserved' /\ InFlightBehindHead'
          /\ QuietWhileRepairing' /\ FlushFindsNothing' /\ RepairedSoFar'
        BY DEF IInv, TypeOK, RegistersConserved, InFlightBehindHead,
           QuietWhileRepairing, FlushFindsNothing, RepairedSoFar, flushPending,
           InFlight, IsBundle
    <2>2. SpeculativeMapIsOverlay'
        <3>1. InFlight' = InFlight /\ rmt' = rmt /\ amt' = amt
              /\ (repairFlag' <=> repairFlag)
            BY DEF InFlight, repairFlag
        <3>2. \A l \in LogRegs : YoungestWriter(l)' = YoungestWriter(l)
            BY <3>1, Zenon DEF YoungestWriter
        <3> HIDE <1>5
        <3> QED BY <3>1, <3>2, Zenon DEF IInv, SpeculativeMapIsOverlay
    <2> QED BY <2>1, <2>2 DEF IInv
<1> QED BY <1>1, <1>2, <1>3, <1>4, <1>5 DEF Next

\* The conjunction that carries the proofs holds in every reachable state of
\* the rename core, whatever its widths and sizes.
THEOREM Inductive == Spec => []IInv
<1> QED BY InitIInv, NextIInv, PTL DEF Spec

\* Every pointer of the free list stays in range and its count between zero
\* and the list's size, for every width and size of the core.
THEOREM Typing == Spec => []TypeOK
<1>1. IInv => TypeOK
    BY DEF IInv
<1> QED BY <1>1, Inductive, PTL

\* Every physical register is at all times held by exactly one slot of the
\* free list or one entry of the committed map: none leaks, none is freed
\* twice, through any sequence of group commits, flushes and exceptions.
THEOREM Conservation == Spec => []RegistersConserved
<1>1. IInv => RegistersConserved
    BY DEF IInv
<1> QED BY <1>1, Inductive, PTL

\* What is in flight holds the slots between the tail and the head, in order,
\* so that a recovery that moves the head to the tail frees exactly that.
THEOREM Order == Spec => []InFlightBehindHead
<1>1. IInv => InFlightBehindHead
    BY DEF IInv
<1> QED BY <1>1, Inductive, PTL

\* The repair engine never runs against a rename, a dispatch or an
\* instruction in flight.
THEOREM Quiet == Spec => []QuietWhileRepairing
<1>1. IInv => QuietWhileRepairing
    BY DEF IInv
<1> QED BY <1>1, Inductive, PTL

\* Outside a repair a source renamed now reads the register of its youngest
\* older writer in flight, or else the committed one: the speculative map is
\* the committed map overlaid with what is in flight, for every width.
THEOREM Overlay == Spec => []SpeculativeMapIsOverlay
<1>1. IInv => SpeculativeMapIsOverlay
    BY DEF IInv
<1> QED BY <1>1, Inductive, PTL

-----------------------------------------------------------------------------
(* The core implements register renaming *)

KeptPart(q, n) == SubSeq(q, n + 1, Len(q))

NewPart(q, r, n) == SubSeq(r, Len(KeptPart(q, n)) + 1, Len(r))

\* What a window of a queue loses at the front and gains at the back.
Stays(q, r, n) ==
    /\ n <= Len(q) /\ Len(q) - n <= Len(r)
    /\ \A i \in 1 .. Len(q) - n : r[i] = q[n + i]

Joins(q, r, n) ==
    /\ r = KeptPart(q, n) \o NewPart(q, r, n)
    /\ DOMAIN NewPart(q, r, n) = 1 .. Len(r) - (Len(q) - n)
    /\ \A i \in 1 .. Len(r) - (Len(q) - n) : NewPart(q, r, n)[i] = r[Len(q) - n + i]

LEMMA SlidingWindow ==
    ASSUME NEW S, NEW q \in Seq(S), NEW r \in Seq(S), NEW n \in Nat, Stays(q, r, n)
    PROVE  Joins(q, r, n)
<1> USE DEF KeptPart, NewPart, Stays, Joins
<1> DEFINE rest == SubSeq(q, n + 1, Len(q))
           new  == SubSeq(r, Len(rest) + 1, Len(r))
<1>1. Len(q) \in Nat /\ Len(r) \in Nat
    BY LenProperties
<1>2. /\ rest \in Seq(S) /\ Len(rest) = Len(q) - n
      /\ \A i \in 1 .. Len(q) - n : rest[i] = q[n + i]
    <2>1. \A i \in n + 1 .. Len(q) : q[i] \in S
        BY <1>1, ElementOfSeq
    <2>2. /\ SubSeq(q, n + 1, Len(q)) \in Seq(S)
          /\ Len(SubSeq(q, n + 1, Len(q))) =
                IF n + 1 <= Len(q) THEN Len(q) - (n + 1) + 1 ELSE 0
          /\ \A i \in 1 .. Len(q) - (n + 1) + 1 :
                SubSeq(q, n + 1, Len(q))[i] = q[(n + 1) + i - 1]
        BY <1>1, <2>1, SubSeqProperties
    <2> QED BY <1>1, <2>2
<1> HIDE DEF rest
<1>3. /\ new \in Seq(S) /\ Len(new) = Len(r) - (Len(q) - n)
      /\ \A i \in 1 .. Len(r) - (Len(q) - n) : new[i] = r[Len(q) - n + i]
    <2> DEFINE a == Len(q) - n
    <2>1. a \in Nat /\ a <= Len(r) /\ Len(rest) = a
        BY <1>1, <1>2
    <2> HIDE DEF a
    <2>2. \A i \in a + 1 .. Len(r) : r[i] \in S
        BY <1>1, <2>1, ElementOfSeq
    <2>3. /\ SubSeq(r, a + 1, Len(r)) \in Seq(S)
          /\ Len(SubSeq(r, a + 1, Len(r))) =
                IF a + 1 <= Len(r) THEN Len(r) - (a + 1) + 1 ELSE 0
          /\ \A i \in 1 .. Len(r) - (a + 1) + 1 :
                SubSeq(r, a + 1, Len(r))[i] = r[(a + 1) + i - 1]
        BY <1>1, <2>1, <2>2, SubSeqProperties
    <2>4. /\ new \in Seq(S) /\ Len(new) = Len(r) - a
          /\ \A i \in 1 .. Len(r) - a : new[i] = r[a + i]
        BY <1>1, <2>1, <2>3
    <2> QED BY <2>4 DEF a
<1> HIDE DEF new
<1>4. DOMAIN new = 1 .. Len(r) - (Len(q) - n)
    BY <1>3, LenProperties
<1>5. r = rest \o new
    <2>1. /\ rest \o new \in Seq(S)
          /\ Len(rest \o new) = Len(rest) + Len(new)
          /\ \A i \in 1 .. Len(rest) + Len(new) :
                (rest \o new)[i] = IF i <= Len(rest) THEN rest[i]
                                   ELSE new[i - Len(rest)]
        BY <1>2, <1>3, ConcatProperties
    <2>2. Len(rest \o new) = Len(r)
        BY <1>1, <1>2, <1>3, <2>1
    <2>3. ASSUME NEW i \in 1 .. Len(r)
          PROVE  r[i] = (rest \o new)[i]
        <3> DEFINE a == Len(q) - n
        <3>1. a \in Nat /\ a <= Len(r) /\ Len(rest) = a /\ Len(new) = Len(r) - a
            BY <1>1, <1>2, <1>3
        <3>2. \A j \in 1 .. a : r[j] = rest[j]
            BY <1>2
        <3>3. \A j \in 1 .. Len(r) - a : new[j] = r[a + j]
            BY <1>3
        <3> HIDE DEF a
        <3>4. (rest \o new)[i] = IF i <= a THEN rest[i] ELSE new[i - a]
            BY <1>1, <2>1, <3>1
        <3>5. CASE i <= a
            BY <3>1, <3>2, <3>4, <3>5
        <3>6. CASE ~(i <= a)
            <4>1. i - a \in 1 .. Len(r) - a /\ a + (i - a) = i
                BY <1>1, <3>1, <3>6
            <4> QED BY <3>3, <3>4, <3>6, <4>1
        <3> QED BY <3>5, <3>6
    <2> QED BY <1>1, <2>1, <2>2, <2>3, SeqEqual
<1> QED BY <1>3, <1>4, <1>5 DEF rest, new

\* Map a overlaid with the oldest n of the writers q.
MapAfter(q, a, n) ==
    [l \in LogRegs |-> IF \E i \in 1 .. n : q[i].logDest = l
                       THEN q[Youngest(q, n, l)].phyDest
                       ELSE a[l]]

\* The committed map after a group is what the abstract renaming says.
LEMMA CommitIsAfter ==
    ASSUME IInv, ~flushPending, NEW n \in Nat, n <= Len(al), Commit(n)
    PROVE  amt' = Abstract!After(n)
<1>1. CommitReady(n)
    BY ReadyToCommit
<1>2. n <= Len(al) /\ Len(al) \in Nat /\ Len(InFlight) \in Nat
      /\ Len(al) <= Len(InFlight) /\ \A i \in 1 .. Len(al) : InFlight[i] = al[i]
    BY InFlightParts DEF IInv
<1>3. ASSUME NEW l \in LogRegs
      PROVE  amt'[l] = IF \E i \in 1 .. n : InFlight[i].logDest = l
                       THEN InFlight[Youngest(InFlight, n, l)].phyDest
                       ELSE amt[l]
    <2>1. \A i \in 1 .. n : InFlight[i] = al[i]
        BY <1>2
    <2>2. \/ \E i \in 1 .. n : /\ al[i].logDest = l
                               /\ ~dontWriteAMT(n, i)
                               /\ amt'[l] = al[i].phyDest
          \/ (\A i \in 1 .. n : al[i].logDest # l) /\ amt'[l] = amt[l]
        BY <1>1, CommittedMap DEF Commit
    <2>3. ASSUME NEW i \in 1 .. n, al[i].logDest = l, ~dontWriteAMT(n, i)
          PROVE  IsYoungest(InFlight, n, l, i)
        <3>1. \A j \in i + 1 .. n : j \in 1 .. n /\ al[j].logDest # l
            BY <2>3 DEF dontWriteAMT
        <3> QED BY <2>1, <2>3, <3>1 DEF IsYoungest
    <2>4. Overlays(InFlight, n, l, amt'[l], amt[l])
        BY <2>1, <2>2, <2>3 DEF Overlays
    <2> QED BY <2>4, OverlayForm
<1>4. amt' = [l \in LogRegs |-> amt'[l]]
    BY DEF Commit, amtUpdate
<1>5. amt' = [l \in LogRegs |->
                 IF \E i \in 1 .. n : InFlight[i].logDest = l
                 THEN InFlight[Youngest(InFlight, n, l)].phyDest
                 ELSE amt[l]]
    BY <1>3, <1>4, Zenon
<1>6. (IF flushPending THEN <<>> ELSE InFlight) = InFlight
    OBVIOUS
<1>7. Abstract!After(n) = MapAfter(IF flushPending THEN <<>> ELSE InFlight, amt, n)
    BY Zenon DEF Abstract!After, MapAfter, Youngest
<1>8. Abstract!After(n) = MapAfter(InFlight, amt, n)
    BY ONLY <1>6, <1>7, Zenon
<1> QED BY ONLY <1>5, <1>8, Zenon DEF MapAfter

\* The registers a bundle takes are in use nowhere: neither in the committed
\* map nor by a writer in flight.
LEMMA TakenAreFresh ==
    ASSUME IInv, ~flushPending, NEW stall \in BOOLEAN
    PROVE  /\ popped(stall) \in Nat
           /\ \A i \in 1 .. popped(stall) :
                 /\ phyDest(i) \in PhyRegs \ Abstract!InUse
                 /\ \A j \in 1 .. popped(stall) : phyDest(j) = phyDest(i) => j = i
<1> DEFINE p == popped(stall)
           m == Len(InFlight)
           slot(d) == Wrap(freeListTail + d)
<1>1. p \in Nat /\ p <= freeListCnt
    BY BundleFits DEF IInv
<1>2. /\ m \in Nat /\ InFlight \in Seq(Writers) /\ DOMAIN InFlight = 1 .. m
    BY InFlightParts, LenProperties DEF IInv
<1>3. /\ m + freeListCnt = SIZE_FREE_LIST
      /\ freeListHead = Wrap(freeListTail + m)
      /\ \A i \in 1 .. m :
            InFlight[i].phyDest = freeList[Wrap(freeListTail + i - 1)]
    BY DEF IInv, InFlightBehindHead
<1>4. /\ freeListTail \in Slots /\ freeListCnt \in Nat
      /\ freeListHead \in Slots
      /\ freeList \in [Slots -> PhyRegs]
    BY Sizes DEF IInv, TypeOK
<1> HIDE DEF m, p
<1>5. ASSUME NEW i \in 1 .. p
      PROVE  /\ m + (i - 1) \in 0 .. SIZE_FREE_LIST - 1
             /\ phyDest(i) = freeList[slot(m + (i - 1))]
    <2>1. m + (i - 1) \in 0 .. SIZE_FREE_LIST - 1 /\ i - 1 \in Nat
          /\ m + (i - 1) <= SIZE_FREE_LIST
        BY <1>1, <1>2, <1>3, <1>4, Sizes
    <2>2. freeListHead + i - 1 = freeListHead + (i - 1)
        BY <1>4, Sizes DEF Slots
    <2>3. Wrap(Wrap(freeListTail + m) + (i - 1)) = Wrap(freeListTail + (m + (i - 1)))
        BY <1>2, <1>4, <2>1, WrapAdd
    <2> QED BY <1>3, <2>1, <2>2, <2>3 DEF phyDest, readAddr
<1>6. ASSUME NEW i \in 1 .. m
      PROVE  /\ i - 1 \in 0 .. SIZE_FREE_LIST - 1 /\ i - 1 < m
             /\ InFlight[i].phyDest = freeList[slot(i - 1)]
    <2>1. i - 1 \in 0 .. SIZE_FREE_LIST - 1 /\ i - 1 < m
        BY <1>2, <1>3, <1>4, Sizes
    <2>2. freeListTail + i - 1 = freeListTail + (i - 1)
        BY <1>4, Sizes DEF Slots
    <2> QED BY <1>3, <2>1, <2>2
<1>7. ASSUME NEW d \in 0 .. SIZE_FREE_LIST - 1, NEW e \in 0 .. SIZE_FREE_LIST - 1,
             freeList[slot(d)] = freeList[slot(e)]
      PROVE  d = e
    <2>1. slot(d) \in Slots /\ slot(e) \in Slots
        BY <1>4, WrapIsSlot, Sizes
    <2>2. slot(d) = slot(e)
        BY <1>7, <2>1 DEF IInv, RegistersConserved
    <2> QED BY <1>4, <2>2, WrapInjective
<1>8. \A d \in 0 .. SIZE_FREE_LIST - 1 : slot(d) \in Slots
    BY <1>4, WrapIsSlot, Sizes
<1> HIDE DEF slot
<1>9. ASSUME NEW i \in 1 .. p
      PROVE  phyDest(i) \in PhyRegs \ Abstract!InUse
    <2>1. phyDest(i) \in PhyRegs
        BY <1>4, <1>5, <1>8
    <2>2. \A l \in LogRegs : phyDest(i) # amt[l]
        BY <1>5, <1>8 DEF IInv, RegistersConserved
    <2>3. ASSUME NEW j \in 1 .. m PROVE phyDest(i) # InFlight[j].phyDest
        <3>1. m + (i - 1) # j - 1
            BY <1>2, <1>6
        <3> QED BY <1>5, <1>6, <1>7, <3>1
    <2>4. (IF flushPending THEN <<>> ELSE InFlight) = InFlight
        OBVIOUS
    <2> QED BY <1>2, <2>1, <2>2, <2>3, <2>4 DEF Abstract!InUse
<1>10. ASSUME NEW i \in 1 .. p, NEW j \in 1 .. p, phyDest(j) = phyDest(i)
       PROVE  j = i
    <2>1. m + (i - 1) = m + (j - 1)
        BY <1>5, <1>7, <1>10
    <2> QED BY <1>1, <1>2, <2>1
<1> QED BY <1>1, <1>9, <1>10 DEF p

\* An ordinary cycle: the oldest n writers commit and the renamed bundle
\* enters with registers nothing uses.
LEMMA CycleAdvances ==
    ASSUME IInv, IInv', NEW stall \in BOOLEAN, NEW bundle \in OfferedBundles,
           NEW k \in 0 .. COMMIT_WIDTH, NEW n \in 0 .. COMMIT_WIDTH,
           Cycle(stall, bundle, k, n)
    PROVE  Abstract!Next
<1>1. ~flushPending /\ ~flushPending'
    BY DEF Cycle, flushPending
<1>2. n \in Nat /\ k \in Nat /\ n <= Len(al)
    BY WidthAssumption DEF Cycle, Retires
<1>3. Commit(n) /\ Dispatched(stall, k, n) /\ RenameDispatch(stall)
    BY DEF Cycle, FrontEnd
<1> DEFINE m == Len(InFlight)
           p == popped(stall)
           r == InFlight'
<1>4. /\ Len(r) = m - n + p
      /\ \A i \in 1 .. m - n : r[i] = InFlight[n + i]
      /\ \A i \in 1 .. p : /\ r[m - n + i].phyDest = phyDest(i)
                           /\ r[m - n + i].logDest = instBufRen.dest[i]
    BY <1>2, <1>3, InFlightStep DEF IInv
<1>5. /\ p \in Nat
      /\ \A i \in 1 .. p :
            /\ phyDest(i) \in PhyRegs \ Abstract!InUse
            /\ \A j \in 1 .. p : phyDest(j) = phyDest(i) => j = i
    BY <1>1, TakenAreFresh
<1>6. InFlight \in Seq(Writers) /\ m \in Nat /\ n <= m
    BY <1>2, InFlightParts DEF IInv
<1>7. r \in Seq(Writers)
    <2>1. al' \in Seq(Writers) /\ renDis'.dest \in Seq(Writers)
        BY DEF IInv, TypeOK, IsBundle
    <2> QED BY <2>1, ConcatProperties DEF InFlight
<1> HIDE DEF m, p, r
<1> DEFINE rest == KeptPart(InFlight, n)
           new  == NewPart(InFlight, r, n)
<1>8. /\ r = rest \o new /\ DOMAIN new = 1 .. p
      /\ \A i \in 1 .. p : new[i] = r[m - n + i]
    <2>1. m - n <= Len(r) /\ Len(r) - (m - n) = p
        BY <1>2, <1>4, <1>5, <1>6
    <2>2. /\ m = Len(InFlight) /\ n <= Len(InFlight)
          /\ Len(InFlight) - n <= Len(r)
          /\ \A i \in 1 .. Len(InFlight) - n : r[i] = InFlight[n + i]
        BY <1>4, <1>6, <2>1 DEF m
    <2>3. /\ r = rest \o new
          /\ DOMAIN new = 1 .. Len(r) - (Len(InFlight) - n)
          /\ \A i \in 1 .. Len(r) - (Len(InFlight) - n) :
                new[i] = r[Len(InFlight) - n + i]
        <3>1. n \in Nat /\ InFlight \in Seq(Writers) /\ r \in Seq(Writers)
            BY <1>2, <1>6, <1>7
        <3>2. Stays(InFlight, r, n)
            BY ONLY <2>2 DEF Stays
        <3>3. Joins(InFlight, r, n)
            BY ONLY <3>1, <3>2, SlidingWindow
        <3> QED BY ONLY <3>3 DEF Joins
    <2> HIDE DEF rest, new
    <2> QED BY <2>1, <2>2, <2>3
<1>9. ASSUME NEW i \in 1 .. p PROVE r[m - n + i].logDest \in LogRegs
    <2>1. m - n + i \in 1 .. Len(r)
        BY <1>2, <1>4, <1>5, <1>6
    <2>2. r[m - n + i] \in Writers
        BY <1>7, <2>1, ElementOfSeq
    <2> QED BY <2>2 DEF Writers
<1>10. Abstract!Fresh(new)
    <2> HIDE DEF new
    <2>1. ASSUME NEW i \in DOMAIN new
          PROVE  /\ new[i].logDest \in LogRegs
                 /\ new[i].phyDest \in PhyRegs \ Abstract!InUse
                 /\ \A j \in DOMAIN new : new[j].phyDest = new[i].phyDest => i = j
        <3>1. \A j \in DOMAIN new : j \in 1 .. p /\ new[j].phyDest = phyDest(j)
            BY <1>4, <1>8
        <3>2. i \in 1 .. p /\ new[i] = r[m - n + i]
            BY <1>8
        <3> QED BY <1>5, <1>9, <3>1, <3>2
    <2> QED BY <2>1 DEF Abstract!Fresh
<1>11. (IF flushPending THEN <<>> ELSE InFlight) = InFlight
       /\ (IF flushPending THEN <<>> ELSE InFlight)' = r
    BY <1>1 DEF r
<1>12. Abstract!Rest(n) = rest
    BY ONLY <1>11, Zenon DEF Abstract!Rest, KeptPart
<1>13. amt' = Abstract!After(n)
    BY <1>1, <1>2, <1>3, CommitIsAfter
<1>14. Abstract!Advance(n)
    <2>1. new = SubSeq(r, Len(rest) + 1, Len(r))
        BY DEF NewPart
    <2> HIDE DEF rest, new
    <2> QED BY <1>8, <1>10, <1>11, <1>12, <1>13, <2>1 DEF Abstract!Advance
<1>15. n \in 0 .. Len(IF flushPending THEN <<>> ELSE InFlight)
    BY <1>2, <1>6, <1>11 DEF m
<1> QED BY <1>14, <1>15 DEF Abstract!Next

\* A cycle that decides to flush: the mispredicted branch commits, if it is
\* one, and the rest is thrown away.
LEMMA FlushDecisionFlushes ==
    ASSUME IInv, NEW stall \in BOOLEAN, NEW bundle \in OfferedBundles,
           NEW k \in 0 .. 1, NEW n \in 0 .. 1, NEW isException \in BOOLEAN,
           FlushDecision(stall, bundle, k, n, isException)
    PROVE  Abstract!Next
<1>1. ~flushPending /\ flushPending'
    BY DEF FlushDecision, flushPending
<1>2. n \in Nat /\ n <= Len(al) /\ Commit(n)
    BY DEF FlushDecision, Retires
<1>3. (IF flushPending THEN <<>> ELSE InFlight) = InFlight
      /\ (IF flushPending THEN <<>> ELSE InFlight)' = <<>>
    BY <1>1
<1>4. Abstract!Flush(n)
    BY <1>1, <1>2, <1>3, CommitIsAfter DEF Abstract!Flush
<1>5. n \in 0 .. Len(IF flushPending THEN <<>> ELSE InFlight)
    BY <1>2, <1>3, InFlightParts DEF IInv
<1> QED BY <1>4, <1>5 DEF Abstract!Next

\* Nothing is in flight after the cycle of a flag.
LEMMA FlushedIsEmpty ==
    ASSUME al' = <<>>, renDis' = NoBundle
    PROVE  InFlight' = <<>>
<1>1. <<>> \in Seq(Writers)
    BY EmptySeq
<1> QED BY <1>1, ConcatEmptySeq DEF InFlight, NoBundle

\* Every step of the core is a step of the abstract renaming or a stutter.
LEMMA StepRefines == IInv /\ IInv' /\ [Next]_vars => [Abstract!Next]_(Abstract!avars)
<1> SUFFICES ASSUME IInv, IInv', [Next]_vars PROVE [Abstract!Next]_(Abstract!avars)
    OBVIOUS
<1>1. ASSUME NEW stall \in BOOLEAN, NEW bundle \in Offered(stall),
             NEW k \in 0 .. COMMIT_WIDTH, NEW n \in 0 .. COMMIT_WIDTH,
             Cycle(stall, bundle, k, n)
      PROVE  [Abstract!Next]_(Abstract!avars)
    <2>1. bundle \in OfferedBundles
        BY OfferedBundle
    <2> QED BY <1>1, <2>1, CycleAdvances
<1>2. ASSUME NEW stall \in BOOLEAN, NEW bundle \in Offered(stall),
             NEW k \in 0 .. 1, NEW n \in 0 .. 1, NEW isException \in BOOLEAN,
             FlushDecision(stall, bundle, k, n, isException)
      PROVE  [Abstract!Next]_(Abstract!avars)
    <2>1. bundle \in OfferedBundles
        BY OfferedBundle
    <2> QED BY <1>2, <2>1, FlushDecisionFlushes
<1>3. CASE Recover
    <2>1. flushPending /\ ~flushPending' /\ amt' = amt /\ renDis' = NoBundle /\ al' = <<>>
        BY <1>3 DEF Recover, flushPending, IInv, FlushFindsNothing
    <2>2. (IF flushPending THEN <<>> ELSE InFlight) = <<>>
          /\ (IF flushPending THEN <<>> ELSE InFlight)' = <<>>
        BY <2>1, FlushedIsEmpty
    <2> QED BY <2>1, <2>2 DEF Abstract!avars
<1>4. CASE Exception
    <2>1. flushPending /\ ~flushPending' /\ renDis' = NoBundle /\ al' = <<>>
          /\ amt' = [l \in LogRegs |-> l]
        BY <1>4 DEF Exception, flushPending, IInv, FlushFindsNothing
    <2>2. (IF flushPending THEN <<>> ELSE InFlight)' = <<>>
        BY <2>1, FlushedIsEmpty
    <2>3. Abstract!IsMap(amt')
        BY <2>1, ResetRegisters DEF Abstract!IsMap
    <2>4. Abstract!Restart
        BY <2>2, <2>3 DEF Abstract!Restart
    <2> QED BY <2>4 DEF Abstract!Next
<1>5. CASE UNCHANGED vars
    BY <1>5 DEF vars, listVars, mapVars, pipeVars, alVars, repairVars,
       Abstract!avars, flushPending, InFlight
<1> QED BY <1>1, <1>2, <1>3, <1>4, <1>5 DEF Next

\* Free list, maps, pipeline registers and recovery implement the abstract
\* renaming, for every width and size: a prefix of the writers commits in
\* order, new ones take registers nothing uses, a flush drops all of them.
THEOREM Refinement == Spec => ImplementsRenaming
<1>1. Init => Abstract!Init
    <2> SUFFICES ASSUME Init PROVE Abstract!Init
        OBVIOUS
    <2>1. Abstract!IsMap(amt)
        BY ResetRegisters DEF Init, Abstract!IsMap
    <2>2. InFlight = <<>> /\ ~flushPending
        <3>1. <<>> \in Seq(Writers)
            BY EmptySeq
        <3> QED BY <3>1, ConcatEmptySeq DEF Init, InFlight, NoBundle, flushPending
    <2> QED BY <2>1, <2>2 DEF Abstract!Init
<1> QED BY <1>1, InitIInv, NextIInv, StepRefines, PTL
        DEF Spec, ImplementsRenaming, Abstract!Spec

=============================================================================
