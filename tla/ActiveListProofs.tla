-------------------------- MODULE ActiveListProofs --------------------------
(***************************************************************************)
(* The active list for every size and every width of dispatch, issue and   *)
(* commit: no bit outlives its instruction though dispatch clears none, a  *)
(* load found wrong never leaves, the halves of a split instruction stay   *)
(* together, no bits of the lanes block a head that is ready, there is one *)
(* reason to flush at a time, and the list implements InOrderRetire.       *)
(***************************************************************************)
EXTENDS ActiveList, FiniteSetTheorems, SequenceTheorems, TLAPS

N == SIZE_ACTIVELIST

\* A load marked as wrong that is not younger than s: the head stops there.
Blocked(s) == \E u \in InFlight : age(u) <= age(s) /\ violateBit[u]

\* A load that has read too early is in flight, and either it can only leave
\* by a flush, or the stores it should have waited for are still to execute.
ConflictsOpen ==
    \A s \in Slots : conflicts[s] # {} =>
        /\ s \in InFlight
        /\ Blocked(s) \/ \A t \in conflicts[s] : t \in InFlight /\ age(t) < age(s) /\ ~executed[t]

\* A bit that is set says something that can be said of its instruction.
BitsFitKinds ==
    \A s \in Slots :
        /\ violateBit[s] \/ conflicts[s] # {} => dataAl[s] \in Loads
        /\ executed[s] /\ mispredict[s] => dataAl[s] = "branch"

Exclusive ==
    /\ ~(mispredFlag_reg /\ violateFlag_reg)
    /\ ~(mispredFlag_reg /\ exceptionFlag_reg)
    /\ ~(violateFlag_reg /\ exceptionFlag_reg)

IInv == TypeOK /\ NoStaleBits /\ BitsFitKinds /\ Exclusive /\ (~flushCycle => ConflictsOpen)

-----------------------------------------------------------------------------
(* Positions in the list, and the choices of the least and the greatest *)

LEMMA Sizes ==
    /\ N \in Nat /\ N >= 2 /\ N > DISPATCH_WIDTH /\ N >= COMMIT_WIDTH
    /\ DISPATCH_WIDTH \in Nat /\ DISPATCH_WIDTH >= 1
    /\ COMMIT_WIDTH \in Nat /\ COMMIT_WIDTH >= 2
    /\ Slots = 0 .. N - 1
BY ListAssumption DEF N, Slots

LEMMA Positions ==
    ASSUME headPtr \in Slots
    PROVE  /\ \A s \in Slots : age(s) \in 0 .. N - 1 /\ s = headAddr(age(s))
           /\ \A i \in 0 .. N - 1 : headAddr(i) \in Slots /\ age(headAddr(i)) = i
BY Sizes DEF Slots, age, headAddr, Wrap, N

LEMMA Least ==
    ASSUME NEW T \in SUBSET Nat, T # {}
    PROVE  \E x \in T : \A y \in T : x <= y
<1>1. \E x \in T : \A y \in T : ~(<<y, x>> \in OpToRel(<, Nat))
    BY NatLessThanWellFounded, WFMin
<1>2. ASSUME NEW x \in Nat, NEW y \in Nat, ~(<<y, x>> \in OpToRel(<, Nat))
      PROVE  x <= y
    <2>1. <<y, x>> \in Nat \X Nat /\ <<y, x>>[1] = y /\ <<y, x>>[2] = x
        OBVIOUS
    <2>2. ~(<<y, x>>[1] < <<y, x>>[2])
        BY <1>2, <2>1 DEF OpToRel
    <2> QED BY <2>1, <2>2
<1> QED BY <1>1, <1>2

LEMMA Greatest ==
    ASSUME NEW b \in Nat, NEW S \in SUBSET (0 .. b), S # {}
    PROVE  Max(S) \in S /\ \A y \in S : Max(S) >= y
<1> DEFINE T == {b - k : k \in S}
<1>1. T \in SUBSET Nat /\ T # {}
    <2>1. \A k \in S : k \in Nat /\ k <= b /\ b - k \in Nat
        OBVIOUS
    <2>2. PICK k \in S : TRUE
        OBVIOUS
    <2> QED BY <2>1, <2>2
<1>2. PICK x \in T : \A y \in T : x <= y
    BY <1>1, Least
<1>3. PICK k \in S : x = b - k
    OBVIOUS
<1>4. \A y \in S : k >= y
    BY <1>2, <1>3
<1> QED BY <1>3, <1>4 DEF Max

-----------------------------------------------------------------------------
(* What commits *)

LEMMA Commits ==
    ASSUME TypeOK
    PROVE  /\ totalCommit \in 0 .. COMMIT_WIDTH /\ totalCommit <= alCount
           /\ \A s \in Slots : s \in committing <=> age(s) < totalCommit
           /\ \A s \in committing : executed[s] /\ ~violateBit[s] /\ s \in InFlight
<1> DEFINE c == totalCommit
           S == {k \in 0 .. COMMIT_WIDTH : \A i \in 0 .. k - 1 : commitVector(i)}
<1>1. 0 \in S /\ S \in SUBSET (0 .. COMMIT_WIDTH)
    BY Sizes
<1>2. c \in S
    BY <1>1, Sizes, Greatest DEF totalCommit
<1>3. c \in 0 .. COMMIT_WIDTH /\ \A i \in 0 .. c - 1 : commitVector(i)
    BY <1>2
<1>4. alCount \in Nat /\ alCount <= N /\ headPtr \in Slots
    BY Sizes DEF TypeOK, N
<1> HIDE DEF c, S
<1>5. c <= alCount
    <2>1. CASE c > 0
        <3>1. c - 1 \in 0 .. c - 1
            BY <1>3, <2>1, Sizes
        <3>2. c - 1 < alCount
            BY <1>3, <3>1 DEF commitVector, commitVector_f
        <3> QED BY <1>3, <1>4, <3>2, Sizes
    <2> QED BY <1>3, <1>4, <2>1, Sizes
<1>6. \A s \in Slots : s \in committing <=> age(s) < c
    <2>1. \A s \in Slots : s \in committing <=> \E i \in 0 .. c - 1 : s = headAddr(i)
        BY DEF committing, c
    <2>2. \A i \in 0 .. c - 1 : i \in 0 .. N - 1
        BY <1>3, Sizes
    <2>3. \A s \in Slots : \A i \in 0 .. c - 1 : s = headAddr(i) <=> age(s) = i
        BY <1>4, <2>2, Positions
    <2>4. \A s \in Slots : age(s) < c <=> age(s) \in 0 .. c - 1
        <3>1. \A s \in Slots : age(s) \in 0 .. N - 1
            BY <1>4, Positions
        <3> QED BY <1>3, <3>1, Sizes
    <2> QED BY <2>1, <2>3, <2>4
<1>7. ASSUME NEW s \in committing
      PROVE  executed[s] /\ ~violateBit[s] /\ s \in InFlight
    <2>1. PICK i \in 0 .. c - 1 : s = headAddr(i)
        BY DEF committing, c
    <2>2. commitVector_f(i)
        BY <1>3 DEF commitVector
    <2>3. executed[s] /\ ~violateBit[s]
        BY <2>1, <2>2 DEF commitVector_f, commitReady, violateFlag
    <2>4. s \in Slots
        BY <1>3, <1>4, <2>1, Positions, Sizes
    <2>5. age(s) \in Nat /\ age(s) < c
        BY <1>4, <1>6, <2>4, Positions, Sizes
    <2> QED BY <1>3, <1>4, <1>5, <2>3, <2>4, <2>5, Sizes DEF InFlight
<1> QED BY <1>3, <1>5, <1>6, <1>7 DEF c

-----------------------------------------------------------------------------
(* What arrives in a cycle *)

LEMMA WrongLoadsIs ==
    ASSUME NEW W \in SUBSET InFlight, NEW wrongLoads \in WrongLoads(W)
    PROVE  /\ wrongLoads \in [Slots -> SUBSET Slots]
           /\ \A s \in Slots : wrongLoads[s] # {} =>
                  s \in W /\ dataAl[s] \in Loads /\ wrongLoads[s] \subseteq mayConflict(s)
<1>1. InFlight \subseteq Slots /\ \A s \in Slots : mayConflict(s) \subseteq Slots
    BY DEF InFlight, mayConflict
<1>2. CASE wrongLoads = NoneWrong
    BY <1>2 DEF NoneWrong
<1>3. CASE wrongLoads # NoneWrong
    <2>1. PICK t \in W : /\ dataAl[t] \in Loads
                         /\ \E x \in SUBSET mayConflict(t) : wrongLoads = [NoneWrong EXCEPT ![t] = x]
        BY <1>3 DEF WrongLoads
    <2>2. PICK x \in SUBSET mayConflict(t) : wrongLoads = [NoneWrong EXCEPT ![t] = x]
        BY <2>1
    <2>3. t \in Slots /\ x \subseteq Slots
        BY <1>1
    <2>4. wrongLoads = [s \in Slots |-> IF s = t THEN x ELSE {}]
        BY <2>2, <2>3 DEF NoneWrong
    <2> QED BY <2>1, <2>3, <2>4
<1> QED BY <1>2, <1>3

\* The loads that are marked, and that there is one whenever a store finds any.
LEMMA ViolatingIs ==
    ASSUME TypeOK, NEW W \in SUBSET InFlight, NEW wrongLoads
    PROVE  /\ \A s \in violating(W, wrongLoads) :
                  /\ s \in InFlight
                  /\ conflicts[s] \intersect W # {} \/ (s \in W /\ s \in wrongLoads[s])
           /\ \A s \in InFlight : conflicts[s] \intersect W # {} =>
                  \E u \in violating(W, wrongLoads) : age(u) <= age(s)
           /\ \A s \in W : s \in wrongLoads[s] => s \in violating(W, wrongLoads)
<1> DEFINE early == {s \in InFlight : conflicts[s] \intersect W # {}}
           first == {s \in early : \A t \in early : age(s) <= age(t)}
<1>1. violating(W, wrongLoads) = first \union {s \in W : s \in wrongLoads[s]}
    BY DEF violating
<1>2. ASSUME NEW s \in InFlight, conflicts[s] \intersect W # {}
      PROVE  \E u \in first : age(u) <= age(s)
    <2> DEFINE T == {age(u) : u \in early}
    <2>1. \A u \in early : age(u) \in Nat
        BY Positions, Sizes DEF TypeOK, InFlight
    <2>2. s \in early
        BY <1>2
    <2> HIDE DEF early
    <2>3. T \in SUBSET Nat /\ age(s) \in T
        BY <2>1, <2>2
    <2>4. PICK x \in T : \A y \in T : x <= y
        BY <2>3, Least
    <2>5. PICK u \in early : x = age(u)
        BY <2>4
    <2>6. \A v \in early : age(u) <= age(v)
        BY <2>4, <2>5
    <2> QED BY <2>2, <2>6
<1> HIDE DEF first
<1>3. \A s \in first : s \in InFlight /\ conflicts[s] \intersect W # {}
    BY DEF first
<1> QED BY <1>1, <1>2, <1>3

\* At most one memory instruction writes back: no store executes in the cycle
\* of a load that should have waited for it.
LEMMA OneMemoryPipe ==
    ASSUME NEW W \in SUBSET InFlight, IsWriteBack(W), IsFiniteSet(W),
           NEW s \in W, NEW t \in W, dataAl[s] \in Loads, dataAl[t] = "store"
    PROVE  FALSE
<1> DEFINE M == {u \in W : dataAl[u] \in Loads \union {"store"}}
<1>1. IsFiniteSet(M) /\ Cardinality(M) <= 1 /\ Cardinality(M) \in Nat
    BY FS_Subset, FS_CardinalityType DEF IsWriteBack
<1>2. s \in M /\ t \in M /\ s # t
    BY DEF Loads
<1> HIDE DEF M
<1>3. Cardinality(M) = 1
    BY <1>1, <1>2, FS_EmptySet
<1>4. PICK x : M = {x}
    BY <1>1, <1>3, FS_Singleton
<1> QED BY <1>2, <1>4

LEMMA BundleIs ==
    ASSUME TypeOK, NEW bundle \in Bundles, alStall => bundle = <<>>
    PROVE  /\ Len(bundle) \in 0 .. DISPATCH_WIDTH /\ alCount + Len(bundle) <= N
           /\ DOMAIN bundle = 1 .. Len(bundle)
           /\ \A i \in DOMAIN bundle : bundle[i] \in Kinds
<1>1. CASE bundle = <<>>
    BY <1>1, Sizes DEF TypeOK, N
<1>2. CASE bundle # <<>>
    <2>1. bundle \in [1 .. DISPATCH_WIDTH -> Kinds]
        BY <1>2 DEF Bundles
    <2>2. DOMAIN bundle = 1 .. DISPATCH_WIDTH /\ Len(bundle) = DISPATCH_WIDTH
        BY <2>1, Sizes
    <2>3. alCount + DISPATCH_WIDTH <= N
        BY <1>2, Sizes DEF alStall, TypeOK, N
    <2> QED BY <2>1, <2>2, <2>3, Sizes
<1> QED BY <1>1, <1>2

-----------------------------------------------------------------------------
(* A cycle without a flush *)

\* How a cycle moves the instructions: what commits leaves at the head, what
\* is dispatched fills slots that were not in flight.
LEMMA Moves ==
    ASSUME TypeOK, ~flushCycle, NEW bundle \in Bundles, alStall => bundle = <<>>,
           PointerUpdate(bundle)
    PROVE  LET c == totalCommit
               n == Len(bundle)
           IN  /\ headPtr' \in Slots /\ tailPtr' \in Slots
               /\ alCount' \in 0 .. N
               /\ ~recovers => tailPtr' = Wrap(headPtr' + alCount') /\ alCount' = alCount + n - c
               /\ \A s \in Slots : age(s)' = IF age(s) < c THEN age(s) - c + N ELSE age(s) - c
               /\ \A s \in Slots : (\E i \in 1 .. n : s = tailAddr(i - 1))
                                       <=> age(s) >= alCount /\ age(s) < alCount + n
               /\ \A s \in Slots : \A i \in 1 .. n : s = tailAddr(i - 1) <=> age(s) = alCount + i - 1
<1> DEFINE c == totalCommit
           n == Len(bundle)
           h == headPtr
           a == alCount
<1>1. /\ c \in Nat /\ c <= N /\ c <= a /\ n \in Nat /\ a + n <= N /\ a \in Nat
      /\ h \in 0 .. N - 1 /\ h \in Nat /\ h < N /\ N \in Nat /\ N >= 2 /\ n < N
    BY Commits, BundleIs, Sizes DEF TypeOK, N
<1>2. /\ headPtr' = Wrap(h + c) /\ tailPtr' = Wrap(tailPtr + n)
      /\ alCount' = IF recovers THEN 0 ELSE a + n - c
    BY DEF PointerUpdate
<1>3. tailPtr = Wrap(h + a)
    BY DEF TypeOK
<1> HIDE DEF c, n, h, a
<1>4. \A x \in Nat : Wrap(x) = IF x >= N THEN x - N ELSE x
    BY DEF Wrap, N
<1>5. headPtr' = IF h + c >= N THEN h + c - N ELSE h + c
    BY <1>1, <1>2, <1>4
<1>6. tailPtr = IF h + a >= N THEN h + a - N ELSE h + a
    BY <1>1, <1>3, <1>4
<1>7. headPtr' \in 0 .. N - 1 /\ tailPtr \in 0 .. N - 1
    BY <1>1, <1>5, <1>6
<1>8. tailPtr' = IF tailPtr + n >= N THEN tailPtr + n - N ELSE tailPtr + n
    <2>1. tailPtr + n \in Nat
        BY <1>1, <1>7
    <2> QED BY <1>1, <1>2, <1>4, <1>7, <2>1
<1>9. tailPtr' \in 0 .. N - 1 /\ alCount' \in 0 .. N
    BY <1>1, <1>2, <1>7, <1>8
<1>10. ASSUME ~recovers
       PROVE  tailPtr' = Wrap(headPtr' + alCount') /\ alCount' = a + n - c
    <2>1. alCount' = a + n - c /\ headPtr' + alCount' \in Nat
        BY <1>1, <1>2, <1>7, <1>10
    <2> DEFINE y == headPtr' + alCount'
    <2>2. y = headPtr' + alCount' /\ y \in Nat
        BY <2>1
    <2> HIDE DEF y
    <2>3. Wrap(y) = IF y >= N THEN y - N ELSE y
        BY <1>4, <2>2
    <2>4. ASSUME h + c >= N PROVE tailPtr' = Wrap(y)
        BY <1>1, <1>5, <1>6, <1>8, <2>1, <2>2, <2>3, <2>4
    <2>5. ASSUME ~(h + c >= N) PROVE tailPtr' = Wrap(y)
        BY <1>1, <1>5, <1>6, <1>8, <2>1, <2>2, <2>3, <2>5
    <2>6. tailPtr' = Wrap(y)
        BY <2>4, <2>5
    <2> QED BY <2>1, <2>6 DEF y
<1>11. ASSUME NEW s \in Slots
       PROVE  /\ age(s)' = IF age(s) < c THEN age(s) - c + N ELSE age(s) - c
              /\ (\E i \in 1 .. n : s = tailAddr(i - 1)) <=> age(s) >= a /\ age(s) < a + n
              /\ \A i \in 1 .. n : s = tailAddr(i - 1) <=> age(s) = a + i - 1
    <2>1. s \in 0 .. N - 1
        BY Sizes
    <2>2. /\ age(s) = IF s >= h THEN s - h ELSE s + N - h
          /\ age(s)' = IF s >= headPtr' THEN s - headPtr' ELSE s + N - headPtr'
        BY DEF age, N, h
    <2>3. age(s) \in 0 .. N - 1
        BY <1>1, <2>1, <2>2
    <2>4. age(s)' = IF age(s) < c THEN age(s) - c + N ELSE age(s) - c
        BY <1>1, <1>5, <2>1, <2>2
    <2>5. ASSUME NEW i \in 1 .. n
          PROVE  s = tailAddr(i - 1) <=> age(s) = a + i - 1
        <3>1. tailPtr + (i - 1) \in Nat /\ i \in Nat /\ i >= 1 /\ i <= n
            BY <1>1, <1>7
        <3>2. tailAddr(i - 1) = IF tailPtr + (i - 1) >= N THEN tailPtr + (i - 1) - N ELSE tailPtr + (i - 1)
            BY <1>1, <1>4, <1>7, <3>1 DEF tailAddr
        <3> HIDE DEF tailAddr
        <3> QED BY <1>1, <1>6, <2>1, <2>2, <3>1, <3>2
    <2>6. CASE age(s) >= a /\ age(s) < a + n
        <3>1. age(s) - a + 1 \in 1 .. n /\ age(s) = a + (age(s) - a + 1) - 1
            BY <1>1, <2>3, <2>6
        <3> QED BY <2>4, <2>5, <2>6, <3>1
    <2>7. CASE ~(age(s) >= a /\ age(s) < a + n)
        <3>1. \A i \in 1 .. n : age(s) # a + i - 1
            BY <1>1, <2>3, <2>7
        <3> QED BY <2>4, <2>5, <2>7, <3>1
    <2> QED BY <2>6, <2>7
<1> QED BY <1>7, <1>9, <1>10, <1>11, Sizes DEF a, c, n

\* An instruction in flight keeps its kind, and its bits its instruction,
\* unless it commits.
LEMMA Stays ==
    ASSUME IInv, NEW bundle \in Bundles, NEW W \in SUBSET InFlight,
           NEW misp, NEW wrongLoads, Cycle(bundle, W, misp, wrongLoads)
    PROVE  /\ dataAl' \in [Slots -> Kinds \union {"none"}]
           /\ \A s \in InFlight : dataAl'[s] = dataAl[s]
           /\ flushCycle' <=> recovers
           /\ ~recovers => \A s \in InFlight :
                  s \notin committing => (s \in InFlight)' /\ age(s)' = age(s) - totalCommit
<1> DEFINE c == totalCommit
           n == Len(bundle)
<1>1. TypeOK /\ ~flushCycle /\ (alStall => bundle = <<>>) /\ PointerUpdate(bundle) /\ DispatchWrite(bundle)
    BY DEF IInv, Cycle
<1>2. /\ ~recovers => alCount' = alCount + n - c
      /\ \A s \in Slots : age(s)' = IF age(s) < c THEN age(s) - c + N ELSE age(s) - c
      /\ \A s \in Slots : (\E i \in 1 .. n : s = tailAddr(i - 1))
                              <=> age(s) >= alCount /\ age(s) < alCount + n
    BY <1>1, Moves
<1>3. c \in Nat /\ c <= alCount /\ alCount \in Nat /\ n \in Nat /\ DOMAIN bundle = 1 .. n
    BY <1>1, Commits, BundleIs, Sizes DEF TypeOK
<1>4. \A s \in Slots : age(s) \in Nat
    <2>1. headPtr \in Slots
        BY <1>1 DEF TypeOK
    <2>2. \A s \in Slots : age(s) \in 0 .. N - 1
        BY <2>1, Positions
    <2> QED BY <2>2, Sizes
<1>5. \A s \in Slots : s \in committing <=> age(s) < c
    BY <1>1, Commits
<1> HIDE DEF c, n
<1>6. dataAl' \in [Slots -> Kinds \union {"none"}]
    <2>1. \A i \in DOMAIN bundle : bundle[i] \in Kinds
        BY <1>1, BundleIs
    <2>2. ASSUME NEW s \in Slots
          PROVE  (IF \E i \in DOMAIN bundle : s = tailAddr(i - 1)
                  THEN bundle[CHOOSE i \in DOMAIN bundle : s = tailAddr(i - 1)]
                  ELSE dataAl[s]) \in Kinds \union {"none"}
        <3>1. dataAl[s] \in Kinds \union {"none"}
            BY <1>1 DEF TypeOK
        <3>2. CASE \E i \in DOMAIN bundle : s = tailAddr(i - 1)
            <4> DEFINE k == CHOOSE i \in DOMAIN bundle : s = tailAddr(i - 1)
            <4>1. k \in DOMAIN bundle
                BY <3>2
            <4> HIDE DEF k
            <4>2. bundle[k] \in Kinds
                BY <2>1, <4>1
            <4> QED BY <3>2, <4>2 DEF k
        <3> QED BY <3>1, <3>2
    <2> QED BY <1>1, <2>2 DEF DispatchWrite
<1>7. ASSUME NEW s \in InFlight
      PROVE  dataAl'[s] = dataAl[s]
    <2>1. s \in Slots /\ age(s) < alCount
        BY DEF InFlight
    <2>2. ~\E i \in DOMAIN bundle : s = tailAddr(i - 1)
        BY <1>2, <1>3, <1>4, <2>1
    <2> QED BY <1>1, <2>1, <2>2 DEF DispatchWrite
<1>8. flushCycle' <=> recovers
    BY DEF Cycle, FlagUpdate, flushCycle, recoverFlag, recovers
<1>9. ASSUME ~recovers, NEW s \in InFlight, s \notin committing
      PROVE  (s \in InFlight)' /\ age(s)' = age(s) - c
    <2>1. s \in Slots /\ age(s) < alCount /\ age(s) \in Nat
        BY <1>4 DEF InFlight
    <2>2. ~(age(s) < c)
        BY <1>5, <1>9, <2>1
    <2>3. age(s)' = age(s) - c
        BY <1>2, <2>1, <2>2
    <2>4. age(s)' < alCount'
        BY <1>2, <1>3, <1>9, <2>1, <2>3
    <2> QED BY <2>1, <2>3, <2>4 DEF InFlight
<1> QED BY <1>6, <1>7, <1>8, <1>9 DEF c

\* A load that is wrong does not commit: the head stops at a marked load that
\* is no younger, or at the store the load should have waited for.
LEMMA WrongStays ==
    ASSUME TypeOK, ConflictsOpen, NEW s \in Slots, conflicts[s] # {}
    PROVE  s \notin committing
<1>1. SUFFICES ASSUME s \in committing PROVE FALSE
    OBVIOUS
<1>2. \A u \in Slots : age(u) \in Nat
    <2>1. headPtr \in Slots
        BY DEF TypeOK
    <2>2. \A u \in Slots : age(u) \in 0 .. N - 1
        BY <2>1, Positions
    <2> QED BY <2>2, Sizes
<1>3. totalCommit \in Nat
    BY Commits
<1>4. \A u \in InFlight : age(u) <= age(s) => u \in committing
    <2>1. age(s) < totalCommit
        BY <1>1, Commits
    <2>2. InFlight \subseteq Slots
        BY DEF InFlight
    <2> QED BY <1>2, <1>3, <2>1, <2>2, Commits
<1>5. CASE Blocked(s)
    <2>1. PICK u \in InFlight : age(u) <= age(s) /\ violateBit[u]
        BY <1>5 DEF Blocked
    <2> QED BY <1>4, <2>1, Commits
<1>6. CASE ~Blocked(s)
    <2>1. PICK t \in conflicts[s] : TRUE
        OBVIOUS
    <2>2. t \in InFlight /\ age(t) < age(s) /\ ~executed[t]
        BY <1>6, <2>1 DEF ConflictsOpen
    <2>3. t \in Slots
        BY <2>2 DEF InFlight
    <2>4. age(t) <= age(s)
        BY <1>2, <2>2, <2>3
    <2> QED BY <1>4, <2>2, <2>4, Commits
<1> QED BY <1>5, <1>6

LEMMA InitOK ==
    ASSUME Init
    PROVE  IInv
<1>1. headPtr = 0 /\ tailPtr = 0 /\ alCount = 0 /\ 0 \in Slots /\ Wrap(0) = 0 /\ 0 + 0 = 0
    BY Sizes DEF Init, Wrap, N
<1>2. TypeOK
    <2>1. 0 \in 0 .. N
        BY Sizes
    <2>2. tailPtr = Wrap(headPtr + alCount)
        BY <1>1
    <2> QED BY <1>1, <2>1, <2>2 DEF Init, TypeOK, N
<1>3. NoStaleBits /\ BitsFitKinds /\ Exclusive /\ ConflictsOpen
    BY DEF Init, NoStaleBits, BitsFitKinds, Exclusive, ConflictsOpen
<1> QED BY <1>2, <1>3 DEF IInv

LEMMA FlushOK ==
    ASSUME IInv, Flush
    PROVE  IInv'
<1>1. headPtr' = 0 /\ tailPtr' = 0 /\ alCount' = 0 /\ 0 \in Slots /\ Wrap(0) = 0 /\ 0 + 0 = 0
    BY Sizes DEF Flush, Wrap, N
<1>2. TypeOK'
    <2>1. 0 \in 0 .. N
        BY Sizes
    <2>2. tailPtr' = Wrap(headPtr' + alCount')
        BY <1>1
    <2> QED BY <1>1, <2>1, <2>2 DEF Flush, TypeOK, NoneWrong, N
<1>3. NoStaleBits' /\ BitsFitKinds' /\ Exclusive' /\ ConflictsOpen'
    BY DEF Flush, NoneWrong, NoStaleBits, BitsFitKinds, Exclusive, ConflictsOpen
<1> QED BY <1>2, <1>3 DEF IInv

LEMMA CycleOK ==
    ASSUME IInv, NEW bundle \in Bundles, NEW W \in SUBSET InFlight,
           NEW misp \in SUBSET {s \in W : dataAl[s] = "branch"},
           NEW wrongLoads \in WrongLoads(W), Cycle(bundle, W, misp, wrongLoads)
    PROVE  IInv'
<1> DEFINE c == totalCommit
<1>1. /\ TypeOK /\ NoStaleBits /\ BitsFitKinds /\ ConflictsOpen /\ ~flushCycle
      /\ (alStall => bundle = <<>>) /\ IsWriteBack(W) /\ PointerUpdate(bundle)
      /\ FlagUpdate /\ WriteBack(W, misp, wrongLoads)
    BY DEF IInv, Cycle
<1>2. InFlight \subseteq Slots /\ committing \subseteq InFlight
    <2>1. InFlight \subseteq Slots
        BY DEF InFlight
    <2> QED BY <1>1, <2>1, Commits
<1>3. /\ dataAl' \in [Slots -> Kinds \union {"none"}]
      /\ \A s \in InFlight : dataAl'[s] = dataAl[s]
      /\ flushCycle' <=> recovers
      /\ ~recovers => \A s \in InFlight :
             s \notin committing => (s \in InFlight)' /\ age(s)' = age(s) - c
    BY Stays
<1>4. /\ wrongLoads \in [Slots -> SUBSET Slots]
      /\ \A s \in Slots : wrongLoads[s] # {} =>
             s \in W /\ dataAl[s] \in Loads /\ wrongLoads[s] \subseteq mayConflict(s)
    BY WrongLoadsIs
<1>5. /\ \A s \in violating(W, wrongLoads) :
             s \in InFlight /\ (conflicts[s] # {} \/ (s \in W /\ wrongLoads[s] # {}))
      /\ \A s \in InFlight : conflicts[s] \intersect W # {} =>
             \E u \in violating(W, wrongLoads) : age(u) <= age(s)
      /\ \A s \in W : s \in wrongLoads[s] => s \in violating(W, wrongLoads)
    <2>1. /\ \A s \in violating(W, wrongLoads) :
                 s \in InFlight /\ (conflicts[s] \intersect W # {} \/ (s \in W /\ s \in wrongLoads[s]))
          /\ \A s \in InFlight : conflicts[s] \intersect W # {} =>
                 \E u \in violating(W, wrongLoads) : age(u) <= age(s)
          /\ \A s \in W : s \in wrongLoads[s] => s \in violating(W, wrongLoads)
        BY <1>1, ViolatingIs
    <2> QED BY <2>1
<1>6. \A s \in Slots :
          /\ executed'[s] <=> s \notin committing /\ (s \in W \/ executed[s])
          /\ mispredict'[s] = IF s \in W THEN s \in misp ELSE mispredict[s]
          /\ violateBit'[s] <=> violateBit[s] \/ s \in violating(W, wrongLoads)
          /\ conflicts'[s] = IF s \in committing THEN {} ELSE conflicts[s] \union wrongLoads[s]
    BY <1>1 DEF WriteBack
<1>7. \A s \in W : s \in InFlight /\ ~executed[s] /\ s \notin committing
    BY <1>1, Commits DEF IsWriteBack
<1>8. \A s \in Slots : conflicts[s] # {} => s \in InFlight /\ s \notin committing
    BY <1>1, WrongStays DEF ConflictsOpen
<1>9. \A s \in Slots : violateBit'[s] => s \in InFlight /\ s \notin committing
    <2>1. \A s \in Slots : violateBit[s] => s \in InFlight /\ s \notin committing
        BY <1>1, Commits DEF NoStaleBits
    <2> QED BY <1>2, <1>5, <1>6, <1>7, <1>8, <2>1
<1>10. \A s \in Slots : conflicts'[s] # {} => s \in InFlight /\ s \notin committing
    BY <1>4, <1>6, <1>7, <1>8
<1>11. \A s \in Slots : executed'[s] => s \in InFlight /\ s \notin committing
    BY <1>1, <1>6, <1>7 DEF NoStaleBits
<1>12. TypeOK'
    <2>1. /\ headPtr' \in Slots /\ tailPtr' \in Slots /\ alCount' \in 0 .. N
          /\ ~recovers => tailPtr' = Wrap(headPtr' + alCount')
        BY <1>1, Moves
    <2>2. mispredict' \in [Slots -> BOOLEAN]
        <3>1. \A s \in Slots : (IF s \in W THEN s \in misp ELSE mispredict[s]) \in BOOLEAN
            <4>1. \A s \in Slots : (s \in misp) \in BOOLEAN /\ mispredict[s] \in BOOLEAN
                BY <1>1 DEF TypeOK
            <4> QED BY <4>1
        <3> QED BY <1>1, <3>1 DEF WriteBack
    <2>3. executed' \in [Slots -> BOOLEAN]
        BY <1>1, <1>2 DEF WriteBack, TypeOK
    <2>4. violateBit' \in [Slots -> BOOLEAN]
        BY <1>1, <1>2 DEF WriteBack, TypeOK
    <2>5. conflicts' \in [Slots -> SUBSET Slots]
        BY <1>1, <1>4 DEF WriteBack, TypeOK
    <2>6. mispredFlag_reg' \in BOOLEAN /\ violateFlag_reg' \in BOOLEAN /\ exceptionFlag_reg' \in BOOLEAN
        <3>1. headAddr(0) \in Slots
            BY <1>1, Positions, Sizes DEF TypeOK
        <3>2. executed[headAddr(0)] \in BOOLEAN /\ mispredict[headAddr(0)] \in BOOLEAN
            BY <1>1, <3>1 DEF TypeOK
        <3> QED BY <1>1, <3>2 DEF FlagUpdate, mispredFlag, violateFlag, exceptionFlag, commitReady
    <2> QED BY <1>3, <2>1, <2>2, <2>3, <2>4, <2>5, <2>6 DEF TypeOK, N
<1>13. NoStaleBits'
    <2>1. CASE recovers
        BY <1>3, <2>1 DEF NoStaleBits
    <2>2. CASE ~recovers
        BY <1>3, <1>9, <1>11, <2>2 DEF NoStaleBits
    <2> QED BY <2>1, <2>2
<1>14. BitsFitKinds'
    <2> SUFFICES ASSUME NEW s \in Slots
                 PROVE  /\ violateBit'[s] \/ conflicts'[s] # {} => dataAl'[s] \in Loads
                        /\ executed'[s] /\ mispredict'[s] => dataAl'[s] = "branch"
        BY DEF BitsFitKinds
    <2>1. violateBit[s] \/ conflicts[s] # {} \/ wrongLoads[s] # {} => dataAl[s] \in Loads
        BY <1>1, <1>4 DEF BitsFitKinds
    <2>2. violateBit'[s] \/ conflicts'[s] # {} => dataAl[s] \in Loads
        BY <1>5, <1>6, <2>1
    <2>3. executed'[s] /\ mispredict'[s] => dataAl[s] = "branch"
        <3>1. CASE s \in W
            BY <1>6, <3>1
        <3>2. CASE s \notin W
            BY <1>1, <1>6, <3>2 DEF BitsFitKinds
        <3> QED BY <3>1, <3>2
    <2>4. violateBit'[s] \/ conflicts'[s] # {} \/ executed'[s] => dataAl'[s] = dataAl[s]
        BY <1>3, <1>9, <1>10, <1>11
    <2> QED BY <2>2, <2>3, <2>4
<1>15. Exclusive'
    <2> DEFINE h == headAddr(0)
    <2>1. h \in Slots
        BY <1>1, Positions, Sizes DEF TypeOK
    <2>2. mispredFlag(0) => dataAl[h] = "branch"
        BY <1>1, <2>1 DEF mispredFlag, commitReady, BitsFitKinds
    <2>3. violateFlag(0) => dataAl[h] \in Loads
        BY <1>1, <2>1 DEF violateFlag, commitFission, BitsFitKinds, Loads
    <2>4. exceptionFlag(0) => dataAl[h] = "syscall"
        BY DEF exceptionFlag
    <2> HIDE DEF h
    <2> QED BY <1>1, <2>2, <2>3, <2>4 DEF FlagUpdate, Exclusive, Loads
<1>16. ASSUME ~recovers
       PROVE  ConflictsOpen'
    <2> SUFFICES ASSUME NEW s \in Slots, conflicts'[s] # {}
                 PROVE  /\ (s \in InFlight)'
                        /\ \/ Blocked(s)'
                           \/ \A t \in conflicts'[s] : (t \in InFlight)' /\ age(t)' < age(s)' /\ ~executed'[t]
        BY DEF ConflictsOpen
    <2>1. s \in InFlight /\ s \notin committing /\ conflicts'[s] = conflicts[s] \union wrongLoads[s]
        BY <1>6, <1>10
    <2>2. (s \in InFlight)' /\ age(s)' = age(s) - c
        BY <1>3, <1>16, <2>1
    <2>3. c \in Int /\ \A u \in InFlight : age(u) \in Int
        <3>1. headPtr \in Slots
            BY <1>1 DEF TypeOK
        <3>2. \A u \in Slots : age(u) \in 0 .. N - 1
            BY <3>1, Positions
        <3>3. totalCommit \in 0 .. COMMIT_WIDTH
            BY <1>1, Commits
        <3> QED BY <1>2, <3>2, <3>3, Sizes
    <2>4. ASSUME NEW u \in InFlight, violateBit'[u], age(u) <= age(s)
          PROVE  Blocked(s)'
        <3>1. (u \in InFlight)' /\ age(u)' = age(u) - c
            BY <1>2, <1>3, <1>9, <1>16, <2>4
        <3>2. age(u)' <= age(s)'
            BY <2>1, <2>2, <2>3, <2>4, <3>1
        <3> QED BY <2>4, <3>1, <3>2 DEF Blocked
    <2>5. CASE Blocked(s)
        <3>1. PICK u \in InFlight : age(u) <= age(s) /\ violateBit[u]
            BY <2>5 DEF Blocked
        <3>2. violateBit'[u]
            BY <1>2, <1>6, <3>1
        <3> QED BY <2>2, <2>4, <3>1, <3>2
    <2>6. CASE conflicts[s] \intersect W # {}
        <3>1. PICK u \in violating(W, wrongLoads) : age(u) <= age(s)
            BY <1>5, <2>1, <2>6
        <3>2. u \in InFlight /\ violateBit'[u]
            BY <1>2, <1>5, <1>6, <3>1
        <3> QED BY <2>2, <2>4, <3>1, <3>2
    <2>7. CASE s \in wrongLoads[s]
        <3>1. violateBit'[s]
            BY <1>4, <1>5, <1>6, <2>7
        <3>2. age(s) <= age(s)
            BY <2>1, <2>3
        <3> QED BY <2>1, <2>2, <2>4, <3>1, <3>2
    <2>8. CASE ~Blocked(s) /\ conflicts[s] \intersect W = {} /\ s \notin wrongLoads[s]
        <3> SUFFICES ASSUME NEW t \in conflicts'[s]
                     PROVE  (t \in InFlight)' /\ age(t)' < age(s)' /\ ~executed'[t]
            BY <2>2
        <3>1. t \in InFlight /\ age(t) < age(s) /\ ~executed[t] /\ t \notin W
            <4>1. CASE t \in conflicts[s]
                BY <1>1, <2>8, <4>1 DEF ConflictsOpen
            <4>2. CASE t \in wrongLoads[s]
                <5>1. s \in W /\ dataAl[s] \in Loads /\ t \in mayConflict(s) /\ t # s
                    BY <1>4, <2>8, <4>2
                <5>2. t \in InFlight /\ age(t) < age(s) /\ ~executed[t] /\ dataAl[t] = "store"
                    BY <5>1 DEF mayConflict
                <5>3. IsFiniteSet(W)
                    <6>1. IsFiniteSet(Slots)
                        BY Sizes, FS_Interval
                    <6> QED BY <1>2, <6>1, FS_Subset
                <5> QED BY <1>1, <5>1, <5>2, <5>3, OneMemoryPipe
            <4> QED BY <2>1, <4>1, <4>2
        <3>2. t \notin committing
            BY <1>1, <3>1, Commits
        <3>3. (t \in InFlight)' /\ age(t)' = age(t) - c
            BY <1>3, <1>16, <3>1, <3>2
        <3>4. age(t)' < age(s)'
            BY <2>1, <2>2, <2>3, <3>1, <3>3
        <3> QED BY <1>2, <1>6, <3>1, <3>3, <3>4
    <2> QED BY <2>5, <2>6, <2>7, <2>8
<1> QED BY <1>3, <1>12, <1>13, <1>14, <1>15, <1>16 DEF IInv

LEMMA NextOK ==
    ASSUME IInv, [Next]_vars
    PROVE  IInv'
<1>1. CASE Flush
    BY <1>1, FlushOK
<1>2. ASSUME NEW bundle \in Bundles, NEW W \in SUBSET InFlight,
             NEW misp \in SUBSET {s \in W : dataAl[s] = "branch"},
             NEW wrongLoads \in WrongLoads(W), Cycle(bundle, W, misp, wrongLoads)
      PROVE  IInv'
    BY <1>2, CycleOK
<1>3. CASE UNCHANGED vars
    <2>1. /\ headPtr' = headPtr /\ tailPtr' = tailPtr /\ alCount' = alCount
          /\ dataAl' = dataAl /\ mispredict' = mispredict /\ executed' = executed
          /\ violateBit' = violateBit /\ conflicts' = conflicts
          /\ mispredFlag_reg' = mispredFlag_reg /\ violateFlag_reg' = violateFlag_reg
          /\ exceptionFlag_reg' = exceptionFlag_reg
        BY <1>3 DEF vars, ptrVars, ramVars, flagVars
    <2>2. TypeOK' /\ (flushCycle' <=> flushCycle) /\ Exclusive' /\ BitsFitKinds'
        BY <2>1 DEF IInv, TypeOK, flushCycle, recoverFlag, Exclusive, BitsFitKinds
    <2>3. InFlight' = InFlight /\ \A s \in Slots : age(s)' = age(s)
        BY <2>1 DEF InFlight, age
    <2>4. NoStaleBits'
        BY <2>1, <2>2, <2>3 DEF IInv, NoStaleBits
    <2>5. ConflictsOpen => ConflictsOpen'
        BY <2>1 DEF ConflictsOpen, Blocked, InFlight, age
    <2> QED BY <2>2, <2>4, <2>5 DEF IInv
<1> QED BY <1>1, <1>2, <1>3 DEF Next

-----------------------------------------------------------------------------
(* Pairs, marks and an empty list at a flush *)

\* A first half is followed by the second.
Paired ==
    \A s, t \in InFlight :
        age(t) = age(s) + 1 /\ dataAl[s] = "first" => dataAl[t] = "second"

\* A marked load is known to have read too early, or too much.
MarkedAreWrong == \A s \in Slots : violateBit[s] => conflicts[s] # {}

FlushIsEmpty == flushCycle => alCount = 0

PairInv == Paired /\ MarkedAreWrong /\ FlushIsEmpty

\* What dispatch writes: instruction i of the bundle, i places after the last.
LEMMA Dispatches ==
    ASSUME TypeOK, ~flushCycle, NEW bundle \in Bundles, alStall => bundle = <<>>,
           PointerUpdate(bundle), DispatchWrite(bundle)
    PROVE  \A s \in Slots : \A i \in 1 .. Len(bundle) :
               age(s) = alCount + i - 1 => dataAl'[s] = bundle[i]
<1> SUFFICES ASSUME NEW s \in Slots, NEW i \in 1 .. Len(bundle), age(s) = alCount + i - 1
             PROVE  dataAl'[s] = bundle[i]
    OBVIOUS
<1>1. DOMAIN bundle = 1 .. Len(bundle) /\ alCount \in Nat /\ Len(bundle) \in Nat
    BY BundleIs, Sizes DEF TypeOK
<1>2. \A j \in 1 .. Len(bundle) : s = tailAddr(j - 1) <=> age(s) = alCount + j - 1
    BY Moves
<1>3. \A j \in DOMAIN bundle : s = tailAddr(j - 1) <=> j = i
    BY <1>1, <1>2
<1> DEFINE k == CHOOSE j \in DOMAIN bundle : s = tailAddr(j - 1)
<1>4. k = i
    BY <1>1, <1>3
<1>5. dataAl'[s] = bundle[k]
    <2>1. \E j \in DOMAIN bundle : s = tailAddr(j - 1)
        BY <1>1, <1>3
    <2> QED BY <2>1 DEF DispatchWrite
<1> QED BY <1>4, <1>5

\* The slot before the tail holds the youngest instruction.
LEMMA Youngest ==
    ASSUME TypeOK, ~flushCycle, alCount > 0
    PROVE  /\ tailAddr(SIZE_ACTIVELIST - 1) \in InFlight
           /\ age(tailAddr(SIZE_ACTIVELIST - 1)) = alCount - 1
<1>1. /\ headPtr \in 0 .. N - 1 /\ tailPtr \in 0 .. N - 1 /\ N \in Nat /\ N >= 2
      /\ alCount \in 1 .. N /\ tailPtr = Wrap(headPtr + alCount)
    BY Sizes DEF TypeOK, N
<1> DEFINE s == tailAddr(N - 1)
<1>2. s = IF tailPtr + (N - 1) >= N THEN tailPtr + (N - 1) - N ELSE tailPtr + (N - 1)
    BY <1>1 DEF tailAddr, Wrap, N
<1>3. tailPtr = IF headPtr + alCount >= N THEN headPtr + alCount - N ELSE headPtr + alCount
    BY <1>1 DEF Wrap, N
<1> HIDE DEF s
<1>4. age(s) = IF s >= headPtr THEN s - headPtr ELSE s + N - headPtr
    BY DEF age, N
<1>5. s \in 0 .. N - 1 /\ age(s) = alCount - 1
    BY <1>1, <1>2, <1>3, <1>4
<1> QED BY <1>1, <1>5, Sizes DEF InFlight, s, N

\* Two slots are a number of places apart.
LEMMA Distance ==
    ASSUME NEW h \in Slots, NEW s \in Slots
    PROVE  (IF s >= h THEN s - h ELSE s + SIZE_ACTIVELIST - h) \in Nat
BY Sizes DEF N

LEMMA PairInit ==
    ASSUME Init
    PROVE  PairInv
<1>1. InFlight = {}
    <2>1. headPtr \in Slots /\ alCount = 0
        BY Sizes DEF Init
    <2>2. \A s \in Slots : age(s) \in 0 .. N - 1
        BY <2>1, Positions
    <2> QED BY <2>1, <2>2, Sizes DEF InFlight
<1> QED BY <1>1 DEF Init, PairInv, Paired, MarkedAreWrong, FlushIsEmpty

LEMMA PairFlush ==
    ASSUME IInv', Flush
    PROVE  PairInv'
<1>1. InFlight' = {}
    <2>1. headPtr' \in Slots /\ alCount' = 0
        BY DEF IInv, TypeOK, Flush
    <2>2. \A s \in Slots : age(s)' \in Nat
        BY <2>1, Distance DEF age
    <2> QED BY <2>1, <2>2 DEF InFlight
<1> QED BY <1>1 DEF Flush, PairInv, Paired, MarkedAreWrong, FlushIsEmpty

LEMMA PairCycle ==
    ASSUME IInv, PairInv, IInv', NEW bundle \in Bundles, NEW W \in SUBSET InFlight,
           NEW misp \in SUBSET {s \in W : dataAl[s] = "branch"},
           NEW wrongLoads \in WrongLoads(W), Cycle(bundle, W, misp, wrongLoads)
    PROVE  PairInv'
<1> DEFINE c == totalCommit
           n == Len(bundle)
<1>1. /\ TypeOK /\ NoStaleBits /\ ConflictsOpen /\ ~flushCycle /\ (alStall => bundle = <<>>)
      /\ PointerUpdate(bundle) /\ DispatchWrite(bundle) /\ WellPaired(bundle)
      /\ WriteBack(W, misp, wrongLoads)
    BY DEF IInv, Cycle
<1>2. /\ \A s \in InFlight : dataAl'[s] = dataAl[s]
      /\ flushCycle' <=> recovers
    BY Stays
<1>3. flushCycle' => alCount' = 0
    BY <1>1, <1>2 DEF PointerUpdate
<1>4. MarkedAreWrong'
    <2> SUFFICES ASSUME NEW s \in Slots, violateBit'[s] PROVE conflicts'[s] # {}
        BY DEF MarkedAreWrong
    <2>1. violateBit[s] \/ s \in violating(W, wrongLoads)
        BY <1>1 DEF WriteBack
    <2>2. conflicts[s] \union wrongLoads[s] # {}
        <3>1. CASE violateBit[s]
            BY <3>1 DEF PairInv, MarkedAreWrong
        <3>2. CASE s \in violating(W, wrongLoads)
            <4>1. conflicts[s] \intersect W # {} \/ s \in wrongLoads[s]
                BY <1>1, <3>2, ViolatingIs
            <4> QED BY <4>1
        <3> QED BY <2>1, <3>1, <3>2
    <2>3. s \notin committing
        <3>1. CASE conflicts[s] # {}
            BY <1>1, <3>1, WrongStays
        <3>2. CASE wrongLoads[s] # {}
            <4>1. s \in W /\ ~executed[s]
                BY <1>1, <3>2, WrongLoadsIs DEF Cycle, IsWriteBack
            <4> QED BY <1>1, <4>1, Commits
        <3> QED BY <2>2, <3>1, <3>2
    <2> QED BY <1>1, <2>2, <2>3 DEF WriteBack
<1>5. CASE recovers
    <2>1. headPtr' \in Slots /\ alCount' = 0
        BY <1>5, <1>2, <1>3 DEF IInv, TypeOK
    <2>2. \A s \in Slots : age(s)' \in Nat
        BY <2>1, Distance DEF age
    <2>3. InFlight' = {}
        BY <2>1, <2>2 DEF InFlight
    <2> QED BY <1>3, <1>4, <2>3 DEF PairInv, Paired, FlushIsEmpty
<1>6. CASE ~recovers
    <2>1. /\ alCount' = alCount + n - c
          /\ \A s \in Slots : age(s)' = IF age(s) < c THEN age(s) - c + N ELSE age(s) - c
        BY <1>1, <1>6, Moves
    <2>2. /\ c \in Nat /\ c <= alCount /\ alCount \in Nat /\ n \in Nat /\ alCount + n <= N
          /\ DOMAIN bundle = 1 .. n
        BY <1>1, Commits, BundleIs, Sizes DEF TypeOK
    <2>3. \A s \in Slots : age(s) \in Nat
        <3>1. headPtr \in Slots
            BY <1>1 DEF TypeOK
        <3>2. \A s \in Slots : age(s) \in 0 .. N - 1
            BY <3>1, Positions
        <3> QED BY <3>2, Sizes
    <2>4. \A s \in Slots : \A i \in 1 .. n : age(s) = alCount + i - 1 => dataAl'[s] = bundle[i]
        BY <1>1, Dispatches
    <2> HIDE DEF c, n
    <2>5. ASSUME NEW s \in Slots, (s \in InFlight)'
          PROVE  age(s)' = age(s) - c /\ age(s) < alCount + n
        BY <2>1, <2>2, <2>3, <2>5, Sizes DEF InFlight
    <2> SUFFICES ASSUME NEW s \in Slots, NEW t \in Slots, (s \in InFlight)', (t \in InFlight)',
                        age(t)' = age(s)' + 1, dataAl'[s] = "first"
                 PROVE  dataAl'[t] = "second"
        BY <1>3, <1>4 DEF PairInv, Paired, FlushIsEmpty, InFlight
    <2>6. age(t) = age(s) + 1 /\ age(t) < alCount + n /\ age(s) \in Nat /\ age(t) \in Nat
        BY <2>2, <2>3, <2>5
    <2>7. CASE age(t) < alCount
        <3>1. s \in InFlight /\ t \in InFlight
            BY <2>2, <2>6, <2>7 DEF InFlight
        <3> QED BY <1>2, <2>6, <3>1 DEF PairInv, Paired
    <2>8. CASE age(t) = alCount
        <3>1. 1 \in 1 .. n /\ age(t) = alCount + 1 - 1
            BY <2>2, <2>6, <2>8
        <3>2. dataAl'[t] = bundle[1] /\ 1 \in DOMAIN bundle
            BY <2>2, <2>4, <3>1
        <3>3. alCount > 0 /\ age(s) = alCount - 1 /\ s \in InFlight
            BY <2>2, <2>6, <2>8 DEF InFlight
        <3>4. s = tailAddr(SIZE_ACTIVELIST - 1)
            <4>1. headPtr \in Slots
                BY <1>1 DEF TypeOK
            <4>2. age(tailAddr(SIZE_ACTIVELIST - 1)) = age(s) /\ tailAddr(SIZE_ACTIVELIST - 1) \in Slots
                BY <1>1, <3>3, Youngest DEF InFlight
            <4> QED BY <4>1, <4>2, Positions
        <3>5. dataAl[tailAddr(SIZE_ACTIVELIST - 1)] = "first"
            BY <1>2, <3>3, <3>4
        <3>6. bundle[1] = "second" <=>
                  (IF 1 > 1 THEN bundle[1 - 1]
                   ELSE IF alCount > 0 THEN dataAl[tailAddr(SIZE_ACTIVELIST - 1)]
                   ELSE "none") = "first"
            BY <1>1, <3>2, Zenon DEF WellPaired
        <3> QED BY <3>2, <3>3, <3>5, <3>6
    <2>9. CASE age(t) > alCount
        <3> DEFINE i == age(t) - alCount
        <3>1. i \in 1 .. n /\ i + 1 \in 1 .. n /\ i + 1 > 1 /\ (i + 1) - 1 = i
              /\ age(s) = alCount + i - 1 /\ age(t) = alCount + (i + 1) - 1
            BY <2>2, <2>6, <2>9
        <3> HIDE DEF i
        <3>2. dataAl'[s] = bundle[i] /\ dataAl'[t] = bundle[i + 1]
            BY <2>4, <3>1
        <3>3. bundle[i + 1] = "second" <=>
                  (IF i + 1 > 1 THEN bundle[(i + 1) - 1]
                   ELSE IF alCount > 0 THEN dataAl[tailAddr(SIZE_ACTIVELIST - 1)]
                   ELSE "none") = "first"
            <4>1. i + 1 \in DOMAIN bundle
                BY <2>2, <3>1
            <4> QED BY <1>1, <4>1, Zenon DEF WellPaired
        <3> QED BY <3>1, <3>2, <3>3
    <2> QED BY <2>2, <2>6, <2>7, <2>8, <2>9
<1> QED BY <1>5, <1>6

LEMMA PairNext ==
    ASSUME IInv, PairInv, IInv', [Next]_vars
    PROVE  PairInv'
<1>1. CASE Flush
    BY <1>1, PairFlush
<1>2. ASSUME NEW bundle \in Bundles, NEW W \in SUBSET InFlight,
             NEW misp \in SUBSET {s \in W : dataAl[s] = "branch"},
             NEW wrongLoads \in WrongLoads(W), Cycle(bundle, W, misp, wrongLoads)
      PROVE  PairInv'
    BY <1>2, PairCycle
<1>3. CASE UNCHANGED vars
    <2>1. /\ headPtr' = headPtr /\ alCount' = alCount /\ dataAl' = dataAl
          /\ violateBit' = violateBit /\ conflicts' = conflicts
          /\ (flushCycle' <=> flushCycle)
        BY <1>3 DEF vars, ptrVars, ramVars, flagVars, flushCycle, recoverFlag
    <2> QED BY <2>1 DEF PairInv, Paired, MarkedAreWrong, FlushIsEmpty, InFlight, age
<1> QED BY <1>1, <1>2, <1>3 DEF Next

-----------------------------------------------------------------------------
(* Nothing blocks a ready head, and a group ends with a whole pair *)

\* The commit group is the longest there is.
LEMMA CommitEnds ==
    ASSUME TypeOK
    PROVE  /\ totalCommit \in 0 .. COMMIT_WIDTH
           /\ \A i \in 0 .. totalCommit - 1 : commitVector(i)
           /\ totalCommit < COMMIT_WIDTH => ~commitVector(totalCommit)
<1> DEFINE c == totalCommit
           S == {k \in 0 .. COMMIT_WIDTH : \A i \in 0 .. k - 1 : commitVector(i)}
<1>1. 0 \in S /\ S \in SUBSET (0 .. COMMIT_WIDTH)
    BY Sizes
<1>2. c \in S /\ \A y \in S : c >= y
    BY <1>1, Sizes, Greatest DEF totalCommit
<1>3. c \in 0 .. COMMIT_WIDTH /\ \A i \in 0 .. c - 1 : commitVector(i)
    BY <1>2
<1> HIDE DEF c
<1>4. ASSUME c < COMMIT_WIDTH, commitVector(c)
      PROVE  FALSE
    <2>1. \A i \in 0 .. (c + 1) - 1 : i \in 0 .. c - 1 \/ i = c
        BY <1>3, Sizes
    <2>2. c + 1 \in S
        BY <1>3, <1>4, <2>1, Sizes
    <2> QED BY <1>2, <1>3, <2>2, Sizes
<1> QED BY <1>3, <1>4 DEF c

\* What lanes 0 and 1 of the head are.
LEMMA HeadLanes ==
    ASSUME TypeOK, NEW i \in 0 .. N - 1, i < alCount
    PROVE  headAddr(i) \in InFlight /\ headAddr(i) \in Slots /\ age(headAddr(i)) = i
<1>1. headPtr \in Slots
    BY DEF TypeOK
<1> QED BY <1>1, Positions DEF InFlight

\* A pair leaves as a whole: the last instruction of a commit group is not the
\* first half of one.
LEMMA CommitWhole ==
    ASSUME IInv, PairInv, totalCommit > 0
    PROVE  dataAl[headAddr(totalCommit - 1)] # "first"
<1> DEFINE c == totalCommit
<1> SUFFICES ASSUME dataAl[headAddr(c - 1)] = "first" PROVE FALSE
    OBVIOUS
<1>1. /\ c \in 1 .. COMMIT_WIDTH /\ commitVector(c - 1) /\ COMMIT_WIDTH <= N /\ COMMIT_WIDTH \in Nat
      /\ c < COMMIT_WIDTH => ~commitVector(c)
      /\ alCount \in Nat
    <2>1. /\ c \in 0 .. COMMIT_WIDTH
          /\ \A i \in 0 .. c - 1 : commitVector(i)
          /\ c < COMMIT_WIDTH => ~commitVector(c)
        BY CommitEnds DEF IInv
    <2>2. COMMIT_WIDTH \in Nat /\ COMMIT_WIDTH <= N /\ alCount \in Nat
        BY Sizes DEF IInv, TypeOK
    <2> HIDE DEF c
    <2>3. c > 0
        BY DEF c
    <2>4. c - 1 \in 0 .. c - 1
        BY <2>1, <2>2, <2>3
    <2> QED BY <2>1, <2>2, <2>3, <2>4
<1> HIDE DEF c
<1>2. commitFission(c - 1) /\ c - 1 + 1 = c
    BY <1>1 DEF commitFission, commitVector, commitVector_f
<1>3. c - 1 < COMMIT_WIDTH - 1 /\ commitVector_f(c)
    BY <1>1, <1>2 DEF commitVector
<1>4. c < alCount /\ c - 1 < alCount /\ c \in 0 .. N - 1 /\ c - 1 \in 0 .. N - 1 /\ c < COMMIT_WIDTH
    BY <1>1, <1>3, Sizes DEF commitVector_f
<1>5. /\ headAddr(c) \in InFlight /\ headAddr(c - 1) \in InFlight
      /\ age(headAddr(c)) = age(headAddr(c - 1)) + 1
    BY <1>1, <1>4, HeadLanes DEF IInv
<1>6. dataAl[headAddr(c)] = "second"
    BY <1>5 DEF PairInv, Paired
<1>7. commitVector(c)
    BY <1>3, <1>6 DEF commitVector, commitFission
<1> QED BY <1>1, <1>4, <1>7

\* A ready head leaves, alone or with its other half, or asks for a flush.
LEMMA HeadLeaves ==
    ASSUME IInv, PairInv, alCount > 0, commitReady(0),
           commitFission(0) => alCount > 1 /\ commitReady(1), ~recovers
    PROVE  totalCommit > 0
<1>1. /\ TypeOK /\ alCount \in Nat /\ 0 \in 0 .. N - 1 /\ 1 \in 0 .. N - 1
      /\ COMMIT_WIDTH \in Nat /\ COMMIT_WIDTH >= 2
    BY Sizes DEF IInv, TypeOK
<1>2. ~mispredFlag(0) /\ ~violateFlag(0) /\ ~exceptionFlag(0)
    BY DEF recovers
<1>3. commitVector_f(0)
    BY <1>1, <1>2 DEF commitVector_f
<1>4. ASSUME commitFission(0)
      PROVE  commitVector_f(1)
    <2>1. 1 < alCount /\ commitReady(1)
        BY <1>1, <1>4
    <2>2. /\ headAddr(0) \in InFlight /\ headAddr(1) \in InFlight
          /\ age(headAddr(1)) = age(headAddr(0)) + 1
          /\ headAddr(1) \in Slots
        BY <1>1, <2>1, HeadLanes
    <2>3. dataAl[headAddr(0)] = "first"
        BY <1>4 DEF commitFission
    <2>4. dataAl[headAddr(1)] = "second"
        BY <2>2, <2>3 DEF PairInv, Paired
    <2>5. ~violateFlag(1)
        BY <1>2, <1>4, <2>1 DEF violateFlag
    <2>6. ~exceptionFlag(1)
        BY <2>4 DEF exceptionFlag
    <2>7. ~mispredFlag(1)
        BY <2>2, <2>4 DEF mispredFlag, commitReady, IInv, BitsFitKinds
    <2> QED BY <1>2, <2>1, <2>5, <2>6, <2>7 DEF commitVector_f
<1>5. commitVector(0)
    <2>1. 0 < COMMIT_WIDTH - 1 /\ 0 + 1 = 1
        BY <1>1
    <2> QED BY <1>3, <1>4, <2>1 DEF commitVector
<1>6. totalCommit \in 0 .. COMMIT_WIDTH
      /\ (totalCommit < COMMIT_WIDTH => ~commitVector(totalCommit))
    BY <1>1, CommitEnds
<1>7. totalCommit # 0
    BY <1>1, <1>5, <1>6
<1> QED BY <1>1, <1>6, <1>7

-----------------------------------------------------------------------------
(* The list retires in order *)

Window == [i \in 1 .. alCount |-> entry(i)]

\* Going round from a slot and coming back.
LEMMA PositionFrom ==
    ASSUME NEW h \in Slots, NEW i \in 0 .. N - 1
    PROVE  /\ Wrap(h + i) \in Slots
           /\ i = IF Wrap(h + i) >= h THEN Wrap(h + i) - h
                  ELSE Wrap(h + i) + SIZE_ACTIVELIST - h
BY Sizes DEF Slots, Wrap, N

\* A window of no instruction.
LEMMA EmptyWindow ==
    ASSUME alCount = 0
    PROVE  Window = <<>>
BY DEF Window

\* The window has as many places as instructions in flight.
LEMMA WindowLength ==
    ASSUME alCount \in Nat
    PROVE  Len(Window) = alCount
BY DEF Window

\* The fields of an entry.
LEMMA EntryFields ==
    ASSUME NEW i
    PROVE  /\ entry(i).kind = dataAl[headAddr(i - 1)]
           /\ entry(i).done = executed[headAddr(i - 1)]
           /\ entry(i).wrong <=> conflicts[headAddr(i - 1)] # {}
           /\ entry(i).misp <=> executed[headAddr(i - 1)] /\ mispredict[headAddr(i - 1)]
<1> DEFINE s == headAddr(i - 1)
           w == conflicts[s] # {}
           m == executed[s] /\ mispredict[s]
<1>1. entry(i) = [kind |-> dataAl[s], done |-> executed[s], wrong |-> w, misp |-> m]
    BY DEF entry
<1>2. (w <=> conflicts[s] # {}) /\ (m <=> executed[s] /\ mispredict[s])
    OBVIOUS
<1> HIDE DEF w, m, s
<1>3. /\ entry(i).kind = dataAl[s] /\ entry(i).done = executed[s]
      /\ entry(i).wrong = w /\ entry(i).misp = m
    BY <1>1
<1>4. (entry(i).wrong <=> w) /\ (entry(i).misp <=> m)
    BY <1>3, Zenon
<1> QED BY <1>2, <1>3, <1>4, Zenon DEF s

\* The oldest k in the window are those that commit, and may leave.
LEMMA LeaversMay ==
    ASSUME IInv, PairInv, ~flushCycle, ~recovers
    PROVE  /\ totalCommit \in 0 .. alCount
           /\ \A i \in 1 .. totalCommit : Retirement!MayLeave(Window[i])
           /\ totalCommit > 0 => Window[totalCommit].kind # "first"
<1> DEFINE c == totalCommit
<1>1. /\ c \in 0 .. COMMIT_WIDTH /\ c <= alCount /\ alCount \in Nat /\ COMMIT_WIDTH \in Nat
      /\ COMMIT_WIDTH <= N /\ \A i \in 0 .. c - 1 : commitVector(i)
    BY Commits, CommitEnds, Sizes DEF IInv, TypeOK
<1> HIDE DEF c
<1>2. ASSUME NEW i \in 1 .. c
      PROVE  Retirement!MayLeave(Window[i])
    <2> DEFINE s == headAddr(i - 1)
    <2>1. i \in 1 .. alCount /\ i - 1 \in 0 .. c - 1 /\ i - 1 \in 0 .. N - 1 /\ i - 1 < alCount
        BY <1>1, Sizes
    <2>2. Window[i] = entry(i)
        BY <2>1 DEF Window
    <2>3. commitVector_f(i - 1)
        BY <1>1, <2>1 DEF commitVector
    <2>4. executed[s] /\ dataAl[s] # "syscall"
        BY <2>3 DEF commitVector_f, commitReady, exceptionFlag
    <2>5. ~mispredict[s]
        <3>1. CASE i - 1 > 0
            BY <2>3, <2>4, <3>1 DEF commitVector_f, mispredFlag, commitReady
        <3>2. CASE ~(i - 1 > 0)
            <4>1. i - 1 = 0
                BY <2>1, <3>2
            <4>2. ~mispredFlag(i - 1)
                BY <4>1 DEF recovers
            <4> QED BY <2>4, <4>2 DEF mispredFlag, commitReady
        <3> QED BY <3>1, <3>2
    <2>6. conflicts[s] = {}
        <3>1. s \in committing
            BY <2>1 DEF committing, c
        <3>2. s \in Slots
            BY <2>1, HeadLanes DEF IInv
        <3> QED BY <3>1, <3>2, WrongStays DEF IInv
    <2>7. /\ entry(i).kind = dataAl[s] /\ entry(i).done = executed[s]
          /\ entry(i).wrong <=> conflicts[s] # {}
          /\ entry(i).misp <=> executed[s] /\ mispredict[s]
        BY EntryFields
    <2> HIDE DEF s
    <2> QED BY <2>2, <2>4, <2>5, <2>6, <2>7, Zenon DEF Retirement!MayLeave
<1>3. ASSUME c > 0
      PROVE  Window[c].kind # "first"
    <2>1. dataAl[headAddr(c - 1)] # "first"
        BY <1>3, CommitWhole DEF c
    <2>2. c \in 1 .. alCount
        BY <1>1, <1>3
    <2> QED BY <2>1, <2>2 DEF Window, entry
<1> QED BY <1>1, <1>2, <1>3 DEF c

\* The fields of an entry of the next state.
LEMMA NextEntryFields ==
    ASSUME NEW i
    PROVE  /\ entry(i)'.kind = dataAl'[Wrap(headPtr' + (i - 1))]
           /\ entry(i)'.done = executed'[Wrap(headPtr' + (i - 1))]
<1> DEFINE s == Wrap(headPtr' + (i - 1))
           w == conflicts'[s] # {}
           m == executed'[s] /\ mispredict'[s]
<1>1. entry(i)' = [kind |-> dataAl'[s], done |-> executed'[s], wrong |-> w, misp |-> m]
    BY DEF entry, headAddr
<1> HIDE DEF w, m, s
<1> QED BY <1>1 DEF s

\* An entry whose slot keeps its kind and bits is the same entry.
LEMMA SameEntry ==
    ASSUME NEW i, NEW j, Wrap(headPtr' + (i - 1)) = headAddr(j - 1),
           LET s == headAddr(j - 1)
           IN  /\ dataAl'[s] = dataAl[s] /\ executed'[s] = executed[s]
               /\ conflicts'[s] # {} <=> conflicts[s] # {}
               /\ executed[s] => mispredict'[s] = mispredict[s]
    PROVE  entry(i)' = entry(j)
<1> DEFINE s == headAddr(j - 1)
           w == conflicts[s] # {}
           m == executed[s] /\ mispredict[s]
           v == conflicts'[s] # {}
           p == executed'[s] /\ mispredict'[s]
<1>1. entry(j) = [kind |-> dataAl[s], done |-> executed[s], wrong |-> w, misp |-> m]
    BY DEF entry
<1>2. entry(i)' = [kind |-> dataAl'[s], done |-> executed'[s], wrong |-> v, misp |-> p]
    BY DEF entry, headAddr
<1>3. dataAl'[s] = dataAl[s] /\ executed'[s] = executed[s]
    OBVIOUS
<1>4. (w <=> v) /\ (m <=> p)
    BY <1>3
<1>5. w = v /\ m = p
    BY <1>4, Zenon
<1> HIDE DEF w, m, v, p, s
<1> QED BY <1>1, <1>2, <1>3, <1>5, Zenon

\* An entry whose slot has neither executed nor is known to be wrong is fresh.
LEMMA FreshEntry ==
    ASSUME NEW i,
           LET s == Wrap(headPtr' + (i - 1))
           IN  executed'[s] = FALSE /\ conflicts'[s] = {}
    PROVE  entry(i)' = Retirement!Fresh(dataAl'[Wrap(headPtr' + (i - 1))])
<1> DEFINE s == Wrap(headPtr' + (i - 1))
           w == conflicts'[s] # {}
           m == executed'[s] /\ mispredict'[s]
<1>1. entry(i)' = [kind |-> dataAl'[s], done |-> executed'[s], wrong |-> w, misp |-> m]
    BY DEF entry, headAddr
<1>2. ~w /\ ~m /\ executed'[s] = FALSE
    OBVIOUS
<1>3. w = FALSE /\ m = FALSE
    BY <1>2, Zenon
<1> HIDE DEF w, m
<1> QED BY <1>1, <1>2, <1>3, Zenon DEF Retirement!Fresh

\* A cycle without a flush: the oldest leave, others execute, new ones arrive.
LEMMA CycleRetires ==
    ASSUME IInv, PairInv, IInv', NEW bundle \in Bundles, NEW W \in SUBSET InFlight,
           NEW misp \in SUBSET {s \in W : dataAl[s] = "branch"},
           NEW wrongLoads \in WrongLoads(W), Cycle(bundle, W, misp, wrongLoads),
           ~recovers
    PROVE  Retirement!Next
<1> DEFINE c == totalCommit
           n == Len(bundle)
           slot(i) == Wrap(headPtr' + (i - 1))
<1>1. /\ TypeOK /\ NoStaleBits /\ ConflictsOpen /\ ~flushCycle /\ (alStall => bundle = <<>>)
      /\ PointerUpdate(bundle) /\ DispatchWrite(bundle) /\ IsWriteBack(W)
      /\ WriteBack(W, misp, wrongLoads)
    BY DEF IInv, Cycle
<1>2. \A s \in InFlight : dataAl'[s] = dataAl[s]
    BY Stays
<1>3. /\ alCount' = alCount + n - c
      /\ \A s \in Slots : age(s)' = IF age(s) < c THEN age(s) - c + N ELSE age(s) - c
    BY <1>1, Moves
<1>4. /\ c \in Nat /\ c <= alCount /\ alCount \in Nat /\ n \in Nat /\ alCount + n <= N
      /\ \A i \in 1 .. n : bundle[i] \in Kinds
      /\ \A s \in Slots : s \in committing <=> age(s) < c
    BY <1>1, Commits, BundleIs, Sizes DEF TypeOK
<1>5. headPtr \in Slots /\ headPtr' \in Slots
    BY DEF IInv, TypeOK
<1>6. \A s \in Slots : \A i \in 1 .. n : age(s) = alCount + i - 1 => dataAl'[s] = bundle[i]
    BY <1>1, Dispatches
<1> HIDE DEF c, n
<1>7. alCount' \in Nat /\ N \in Nat /\ alCount' <= N - c
    BY <1>3, <1>4, Sizes
<1>8. ASSUME NEW i \in 1 .. alCount'
      PROVE  /\ slot(i) \in Slots /\ age(slot(i)) = c + (i - 1)
             /\ slot(i) = headAddr(c + (i - 1))
    <2>1. i - 1 \in 0 .. N - 1 /\ i - 1 < N - c
        BY <1>4, <1>7
    <2>2. slot(i) = Wrap(headPtr' + (i - 1))
        OBVIOUS
    <2>3. /\ Wrap(headPtr' + (i - 1)) \in Slots
          /\ i - 1 = IF Wrap(headPtr' + (i - 1)) >= headPtr' THEN Wrap(headPtr' + (i - 1)) - headPtr'
                     ELSE Wrap(headPtr' + (i - 1)) + SIZE_ACTIVELIST - headPtr'
        BY <1>5, <2>1, PositionFrom
    <2>4. PICK s \in Slots : s = slot(i)
        BY <2>2, <2>3
    <2> HIDE DEF slot
    <2>5. age(s)' = i - 1
        BY <2>2, <2>3, <2>4 DEF age
    <2>6. age(s) \in 0 .. N - 1 /\ s = headAddr(age(s))
        BY <1>5, <2>4, Positions
    <2>7. i - 1 = IF age(s) < c THEN age(s) - c + N ELSE age(s) - c
        BY <1>3, <2>4, <2>5
    <2>8. age(s) = c + (i - 1)
        BY <1>4, <1>7, <2>1, <2>6, <2>7
    <2> QED BY <2>4, <2>6, <2>8
<1> HIDE DEF slot
<1>9. ASSUME NEW i \in 1 .. alCount - c
      PROVE  Retirement!Executes(Window[i + c], Window'[i])
    <2> DEFINE s == slot(i)
    <2>1. /\ i \in 1 .. alCount' /\ i + c \in 1 .. alCount /\ c + (i - 1) = (i + c) - 1
          /\ ~(c + (i - 1) < c) /\ c + (i - 1) < alCount
        BY <1>3, <1>4
    <2>2. /\ s \in Slots /\ s = Wrap(headPtr' + (i - 1)) /\ s = headAddr((i + c) - 1)
          /\ s \in InFlight /\ s \notin committing
        BY <1>4, <1>8, <2>1 DEF slot, InFlight
    <2>3. Window'[i] = entry(i)' /\ Window[i + c] = entry(i + c)
        BY <2>1 DEF Window
    <2> HIDE DEF s
    <2>4. /\ dataAl'[s] = dataAl[s]
          /\ executed'[s] <=> s \in W \/ executed[s]
          /\ mispredict'[s] = IF s \in W THEN s \in misp ELSE mispredict[s]
          /\ conflicts'[s] = conflicts[s] \union wrongLoads[s]
        BY <1>1, <1>2, <2>2 DEF WriteBack
    <2>5. /\ s \in W => ~executed[s]
          /\ s \notin W => wrongLoads[s] = {}
        BY <1>1, <2>2, WrongLoadsIs DEF IsWriteBack
    <2>6. executed[s] \in BOOLEAN /\ executed'[s] \in BOOLEAN
        BY <2>2 DEF IInv, TypeOK
    <2>7. ASSUME s \notin W
          PROVE  entry(i)' = entry(i + c)
        <3>1. executed'[s] = executed[s]
            BY <2>4, <2>6, <2>7, Zenon
        <3>2. conflicts'[s] = conflicts[s] /\ mispredict'[s] = mispredict[s]
            BY <2>4, <2>5, <2>7
        <3> QED BY <2>2, <2>4, <3>1, <3>2, SameEntry
    <2>8. /\ entry(i)'.kind = entry(i + c).kind
          /\ entry(i + c).done = executed[s] /\ entry(i)'.done = executed'[s]
        BY <2>2, <2>4, EntryFields, NextEntryFields
    <2>9. entry(i + c).done => entry(i)' = entry(i + c)
        BY <2>5, <2>7, <2>8, Zenon
    <2>10. ~entry(i)'.done => entry(i)' = entry(i + c)
        BY <2>4, <2>7, <2>8, Zenon
    <2> QED BY <2>3, <2>8, <2>9, <2>10, Zenon DEF Retirement!Executes
<1>10. ASSUME NEW i \in alCount - c + 1 .. alCount'
       PROVE  Window'[i] \in {Retirement!Fresh(kind) : kind \in Kinds}
    <2> DEFINE s == slot(i)
               j == i - (alCount - c)
    <2>1. /\ i \in 1 .. alCount' /\ j \in 1 .. n /\ c + (i - 1) = alCount + j - 1
          /\ ~(c + (i - 1) < alCount)
        BY <1>3, <1>4
    <2>2. s \in Slots /\ s = Wrap(headPtr' + (i - 1)) /\ age(s) = alCount + j - 1 /\ s \notin InFlight
        BY <1>8, <2>1 DEF slot, InFlight
    <2> HIDE DEF s, j
    <2>3. dataAl'[s] \in Kinds
        BY <1>4, <1>6, <2>1, <2>2
    <2>4. s \notin W /\ ~executed[s] /\ conflicts[s] = {}
        BY <1>1, <2>2 DEF NoStaleBits, ConflictsOpen
    <2>5. wrongLoads[s] = {}
        BY <1>1, <2>2, <2>4, WrongLoadsIs
    <2>6. executed'[s] = FALSE
        <3>1. ~executed'[s]
            BY <1>1, <2>2, <2>4 DEF WriteBack
        <3>2. executed'[s] \in BOOLEAN
            BY <2>2 DEF IInv, TypeOK
        <3> QED BY <3>1, <3>2, Zenon
    <2>7. conflicts'[s] = {}
        BY <1>1, <2>2, <2>4, <2>5 DEF WriteBack
    <2>8. Window'[i] = entry(i)'
        BY <2>1 DEF Window
    <2>9. entry(i)' = Retirement!Fresh(dataAl'[s])
        BY <2>2, <2>6, <2>7, FreshEntry
    <2> QED BY <2>3, <2>8, <2>9
<1>11. /\ c \in 0 .. alCount
       /\ \A i \in 1 .. c : Retirement!MayLeave(Window[i])
       /\ c > 0 => Window[c].kind # "first"
    BY <1>1, LeaversMay DEF c
<1>12. Len(Window) = alCount /\ Len(Window') = alCount'
    <2>1. Len(Window) = alCount
        BY <1>4, WindowLength
    <2>2. Len(Window') = alCount'
        BY <1>7 DEF Window
    <2> QED BY <2>1, <2>2
<1>13. SubSeq(Window', alCount - c + 1, alCount') \in Retirement!Arrivals
    <2> DEFINE F == {Retirement!Fresh(kind) : kind \in Kinds}
    <2>1. \A i \in alCount - c + 1 .. alCount' : Window'[i] \in F
        BY <1>10
    <2>2. alCount - c + 1 \in Int /\ alCount' \in Int
        BY <1>4, <1>7
    <2> HIDE DEF F
    <2>3. SubSeq(Window', alCount - c + 1, alCount') \in Seq(F)
        BY <2>1, <2>2, SubSeqProperties
    <2> QED BY <2>3 DEF Retirement!Arrivals, F
<1>14. alCount' >= alCount - c
    BY <1>3, <1>4
<1>15. Retirement!Retire(c)
    BY <1>9, <1>11, <1>12, <1>13, <1>14 DEF Retirement!Retire, Window
<1>16. c \in 0 .. Len(Window)
    BY <1>11, <1>12
<1> QED BY <1>15, <1>16 DEF Retirement!Next, Window

\* A cycle that asks for a flush drops the whole window for a reason the
\* oldest instruction, or the pair it begins, gives.
LEMMA CycleRestarts ==
    ASSUME IInv, PairInv, NEW bundle \in Bundles, NEW W \in SUBSET InFlight,
           NEW misp, NEW wrongLoads, Cycle(bundle, W, misp, wrongLoads),
           recovers
    PROVE  Retirement!Next
<1> DEFINE h == headAddr(0)
           t == headAddr(1)
<1>1. /\ TypeOK /\ NoStaleBits /\ MarkedAreWrong /\ ~flushCycle /\ PointerUpdate(bundle)
      /\ alCount \in Nat /\ headPtr \in Slots /\ 0 \in 0 .. N - 1 /\ 1 \in 0 .. N - 1
    BY Sizes DEF IInv, PairInv, Cycle, TypeOK
<1>2. alCount' = 0 /\ Window' = <<>>
    <2>1. alCount' = 0
        BY <1>1 DEF PointerUpdate
    <2> QED BY <2>1 DEF Window
<1>3. h \in Slots /\ age(h) = 0 /\ t \in Slots /\ age(t) = 1
    BY <1>1, Positions
<1>4. commitReady(0) /\ executed[h] /\ h \in InFlight
    <2>1. commitReady(0) \/ (commitFission(0) /\ commitReady(1))
        BY DEF recovers, mispredFlag, violateFlag, exceptionFlag
    <2>2. commitReady(0)
        BY <2>1 DEF commitFission
    <2> QED BY <1>1, <1>3, <2>2 DEF commitReady, NoStaleBits
<1>5. alCount >= 1 /\ 1 \in 1 .. alCount
    BY <1>1, <1>3, <1>4 DEF InFlight
<1>6. Window[1] = entry(1) /\ Len(Window) = alCount /\ Window # <<>>
    <2>1. Window[1] = entry(1)
        BY <1>5 DEF Window
    <2>2. Len(Window) = alCount
        BY <1>1, WindowLength
    <2>3. Window # <<>>
        BY <1>5, <2>2
    <2> QED BY <2>1, <2>2, <2>3
<1>7. /\ entry(1).kind = dataAl[h] /\ entry(1).done = executed[h]
      /\ entry(1).wrong <=> conflicts[h] # {}
      /\ entry(1).misp <=> executed[h] /\ mispredict[h]
    <2>1. 1 - 1 = 0
        OBVIOUS
    <2> QED BY <2>1, EntryFields
<1>8. ASSUME alCount > 1
      PROVE  /\ Window[2] = entry(2)
             /\ entry(2).done = executed[t]
             /\ entry(2).wrong <=> conflicts[t] # {}
    <2>1. 2 - 1 = 1 /\ 2 \in 1 .. alCount
        BY <1>1, <1>8
    <2>2. Window[2] = entry(2)
        BY <2>1 DEF Window
    <2>3. entry(2).done = executed[t] /\ (entry(2).wrong <=> conflicts[t] # {})
        BY <2>1, EntryFields
    <2> QED BY <2>2, <2>3
<1>9. \/ entry(1).kind = "syscall"
      \/ entry(1).misp
      \/ entry(1).wrong
      \/ entry(1).kind = "first" /\ alCount > 1 /\ entry(2).done /\ entry(2).wrong
    <2>1. CASE mispredFlag(0)
        BY <1>4, <1>7, <2>1 DEF mispredFlag
    <2>2. CASE exceptionFlag(0)
        BY <1>7, <2>2 DEF exceptionFlag
    <2>3. CASE violateBit[h]
        BY <1>1, <1>3, <1>7, <2>3 DEF MarkedAreWrong
    <2>4. CASE commitFission(0) /\ commitReady(1) /\ violateBit[t]
        <3>1. t \in InFlight
            BY <1>1, <1>3, <2>4 DEF NoStaleBits
        <3>2. alCount > 1
            BY <1>1, <1>3, <3>1 DEF InFlight
        <3>3. executed[t] /\ conflicts[t] # {} /\ dataAl[h] = "first"
            BY <1>1, <1>3, <2>4 DEF MarkedAreWrong, commitFission, commitReady
        <3> QED BY <1>7, <1>8, <3>2, <3>3
    <2> QED BY <2>1, <2>2, <2>3, <2>4 DEF recovers, violateFlag
<1> HIDE DEF h, t
<1>10. entry(1).done
    BY <1>4, <1>7, Zenon
<1>11. /\ \/ Window[1].kind = "syscall"
          \/ Window[1].misp
          \/ Window[1].wrong
          \/ /\ Window[1].kind = "first" /\ Len(Window) > 1
             /\ Window[2].done /\ Window[2].wrong
       /\ Window[1].done /\ Window # <<>> /\ Window' = <<>>
    BY <1>2, <1>6, <1>8, <1>9, <1>10, Zenon
<1>12. Retirement!Restarts
    BY <1>11, Zenon DEF Retirement!Restarts, Window
<1> QED BY <1>12 DEF Retirement!Next

\* Every step of the list is a step of in-order retirement or a stutter.
LEMMA StepRetires ==
    ASSUME IInv, PairInv, IInv', PairInv', [Next]_vars
    PROVE  [Retirement!Next]_Window
<1>1. CASE Flush
    <2>1. alCount = 0 /\ alCount' = 0
        BY <1>1 DEF Flush, PairInv, FlushIsEmpty
    <2>2. Window = <<>> /\ Window' = <<>>
        BY <2>1 DEF Window
    <2> QED BY <2>2
<1>2. ASSUME NEW bundle \in Bundles, NEW W \in SUBSET InFlight,
             NEW misp \in SUBSET {s \in W : dataAl[s] = "branch"},
             NEW wrongLoads \in WrongLoads(W), Cycle(bundle, W, misp, wrongLoads)
      PROVE  Retirement!Next
    <2>1. CASE recovers
        BY <1>2, <2>1, CycleRestarts
    <2>2. CASE ~recovers
        BY <1>2, <2>2, CycleRetires
    <2> QED BY <2>1, <2>2
<1>3. CASE UNCHANGED vars
    BY <1>3 DEF vars, ptrVars, ramVars, Window, entry, headAddr
<1> QED BY <1>1, <1>2, <1>3 DEF Next

-----------------------------------------------------------------------------
(* Theorems *)

\* The invariant is inductive: a bit belongs to an instruction in flight of a
\* kind it can be said of, and a load found wrong is behind what stops it.
THEOREM Inductive == Spec => []IInv
<1> QED BY InitOK, NextOK, PTL DEF Spec

\* Pointers and count agree and every table holds what it may, for every size.
THEOREM Typing == Spec => []TypeOK
<1>1. IInv => TypeOK
    BY DEF IInv
<1> QED BY <1>1, Inductive, PTL

\* No executed or violate bit outlives its instruction between flushes,
\* though dispatch clears none.
THEOREM NoStale == Spec => []NoStaleBits
<1>1. IInv => NoStaleBits
    BY DEF IInv
<1> QED BY <1>1, Inductive, PTL

\* At most one of misprediction, violation and exception flushes at a time.
THEOREM OneReason == Spec => []OneFlag
<1>1. ASSUME IInv PROVE OneFlag
    <2> DEFINE S == {f \in 1 .. 3 : flagVars[f]}
    <2>1. Exclusive /\ flagVars = <<mispredFlag_reg, violateFlag_reg, exceptionFlag_reg>>
        BY <1>1 DEF IInv, flagVars
    <2>2. \A f, g \in S : f = g
        BY <2>1 DEF Exclusive
    <2> HIDE DEF S
    <2>3. CASE S = {}
        BY <2>3, FS_EmptySet DEF OneFlag, S
    <2>4. CASE S # {}
        <3>1. PICK f \in S : TRUE
            BY <2>4
        <3>2. S = {f}
            BY <2>2, <3>1
        <3>3. Cardinality(S) = 1
            BY <3>2, FS_Singleton
        <3> QED BY <3>3 DEF OneFlag, S
    <2> QED BY <2>3, <2>4
<1> QED BY <1>1, Inductive, PTL

\* A load found wrong never leaves by commit: it stays in flight until a flush.
THEOREM WrongNeverCommits ==
    Spec => [](~flushCycle => \A s \in committing : conflicts[s] = {})
<1>0. committing \subseteq Slots \/ ~TypeOK
    BY Commits DEF InFlight
<1>1. IInv => (~flushCycle => \A s \in committing : conflicts[s] = {})
    BY <1>0, WrongStays DEF IInv
<1> QED BY <1>1, Inductive, PTL

\* The halves of a split instruction stay together, whoever is marked as wrong
\* is, and a flush finds the list empty.
THEOREM PairsStayTogether == Spec => []PairInv
<1> QED BY InitOK, NextOK, PairInit, PairNext, Inductive, PTL DEF Spec

\* In no state can the bits of the lanes block a head that is ready: it leaves,
\* with its other half if it has one, or the cycle asks for a flush.
THEOREM HeadNeverBlocked == Spec => ReadyHeadLeaves
<1>1. ASSUME IInv, PairInv, [Next]_vars
      PROVE  [ /\ ~flushCycle
               /\ alCount > 0
               /\ commitReady(0)
               /\ commitFission(0) => alCount > 1 /\ commitReady(1)
               => totalCommit > 0 \/ flushCycle' ]_vars
    <2>1. CASE UNCHANGED vars
        BY <2>1
    <2>2. CASE Flush
        BY <2>2 DEF Flush
    <2>3. ASSUME NEW bundle \in Bundles, NEW W \in SUBSET InFlight,
                 NEW misp \in SUBSET {s \in W : dataAl[s] = "branch"},
                 NEW wrongLoads \in WrongLoads(W), Cycle(bundle, W, misp, wrongLoads),
                 alCount > 0, commitReady(0),
                 commitFission(0) => alCount > 1 /\ commitReady(1)
          PROVE  totalCommit > 0 \/ flushCycle'
        <3>1. flushCycle' <=> recovers
            BY <1>1, <2>3, Stays
        <3> QED BY <1>1, <2>3, <3>1, HeadLeaves
    <2> QED BY <1>1, <2>1, <2>2, <2>3 DEF Next
<1> QED BY <1>1, Inductive, PairsStayTogether, PTL DEF Spec, ReadyHeadLeaves

\* The circular list with its uncleared RAMs implements in-order retirement:
\* what leaves has executed, is neither wrong nor mispredicted nor half a pair.
THEOREM RetiresInOrder == Spec => ImplementsInOrderRetire
<1>1. Init => Retirement!Init
    BY DEF Init, Retirement!Init
<1>2. IInv /\ PairInv /\ IInv' /\ PairInv' /\ [Next]_vars => [Retirement!Next]_Window
    BY StepRetires
<1> QED BY <1>1, <1>2, Inductive, PairsStayTogether, PTL
        DEF Spec, ImplementsInOrderRetire, Retirement!Spec, Window
=============================================================================
