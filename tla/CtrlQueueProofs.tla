--------------------------- MODULE CtrlQueueProofs ---------------------------
(***************************************************************************)
(* The control queue for every size and every width of fetch and commit:   *)
(* the count never leaves its range, also after a system call has thrown   *)
(* bits away, and until then pointers, count and bits are one ring.        *)
(***************************************************************************)
EXTENDS CtrlQueue, FiniteSetTheorems, FunctionTheorems, TLAPS

N == SIZE_CTI_QUEUE

CommittedIDs == {id \in CtiIDs : ctiqCommitted[id]}

\* Each bit that is set stands for a committed entry: what keeps an update
\* from taking more than was committed, when the pointers are no longer right.
BitsBounded == Cardinality(CommittedIDs) <= pending

\* The update of one entry a cycle leaves a place free among the committed
\* ones, so that equal pointers always mean that none is pending.
NeverAllPending == ~sawException => pending <= N - 1

IInv == TypeOK /\ BitsBounded /\ QueueAgrees /\ NeverAllPending

-----------------------------------------------------------------------------
(* The ring *)

LEMMA Sizes ==
    /\ N \in Nat /\ N >= 2 /\ N > FETCH_WIDTH /\ N > COMMIT_WIDTH
    /\ FETCH_WIDTH \in Nat /\ FETCH_WIDTH >= 1 /\ COMMIT_WIDTH \in Nat /\ COMMIT_WIDTH >= 1
    /\ CtiIDs = 0 .. N - 1
BY QueueAssumption DEF N, CtiIDs

\* The pointers pass the end of the ring at most once in a step.
LEMMA WrapsOnce ==
    \A x \in 0 .. 2 * N - 1 : Wrap(x) = IF x >= N THEN x - N ELSE x
<1> SUFFICES ASSUME NEW x \in 0 .. 2 * N - 1 PROVE Wrap(x) = IF x >= N THEN x - N ELSE x
    OBVIOUS
<1>1. N \in Nat /\ N > 0 /\ x \in Nat /\ x < N + N
    BY Sizes
<1>2. CASE x < N
    BY <1>1, <1>2 DEF Wrap, N
<1>3. CASE x >= N
    BY <1>1, <1>3 DEF Wrap, N
<1> QED BY <1>1, <1>2, <1>3

\* Two advances are one, as long as together they do not lap the ring.
LEMMA Chain ==
    ASSUME NEW h \in CtiIDs, NEW a \in 0 .. N, NEW b \in 0 .. N, a + b <= N
    PROVE  Wrap(Wrap(h + a) + b) = Wrap(h + (a + b))
<1>1. h \in 0 .. N - 1 /\ N \in Nat /\ N >= 2
    BY Sizes
<1>2. h + a \in 0 .. 2 * N - 1 /\ h + (a + b) \in 0 .. 2 * N - 1
    BY <1>1
<1>3. Wrap(h + a) = IF h + a >= N THEN h + a - N ELSE h + a
    BY <1>1, <1>2, WrapsOnce
<1>4. Wrap(h + (a + b)) = IF h + (a + b) >= N THEN h + (a + b) - N ELSE h + (a + b)
    BY <1>1, <1>2, WrapsOnce
<1> DEFINE y == Wrap(h + a) + b
<1>5. y = (IF h + a >= N THEN h + a - N ELSE h + a) + b
    BY <1>3
<1> HIDE DEF y
<1>6. y \in 0 .. 2 * N - 1
    BY <1>1, <1>5
<1>7. Wrap(y) = IF y >= N THEN y - N ELSE y
    BY <1>6, WrapsOnce
<1> QED BY <1>1, <1>4, <1>5, <1>6, <1>7 DEF y

\* How far an entry is behind another.
dist(h, id) == IF id >= h THEN id - h ELSE id + N - h

\* n entries from distance d behind h on, as the code names them.
LEMMA Windows ==
    ASSUME NEW h \in CtiIDs, NEW d \in 0 .. N - 1, NEW n \in 0 .. N, d + n <= N
    PROVE  \A id \in CtiIDs :
              (\E i \in 0 .. n - 1 : id = Wrap(Wrap(h + d) + i))
                  <=> dist(h, id) >= d /\ dist(h, id) < d + n
<1>1. \A i \in 0 .. n - 1 : Wrap(Wrap(h + d) + i) = IF h + d + i >= N THEN h + d + i - N
                                                        ELSE h + d + i
    <2> SUFFICES ASSUME NEW i \in 0 .. n - 1
                 PROVE  Wrap(Wrap(h + d) + i) = IF h + d + i >= N THEN h + d + i - N
                                                      ELSE h + d + i
        OBVIOUS
    <2>1. h + d \in 0 .. 2 * N - 1 /\ h \in 0 .. N - 1 /\ N \in Nat
        BY Sizes
    <2>2. Wrap(h + d) = IF h + d >= N THEN h + d - N ELSE h + d
        BY <2>1, WrapsOnce
    <2>3. Wrap(h + d) \in 0 .. N - 1
        BY <2>1, <2>2
    <2>4. Wrap(h + d) + i \in 0 .. 2 * N - 1
        BY <2>1, <2>3
    <2>5. Wrap(Wrap(h + d) + i) = IF Wrap(h + d) + i >= N THEN Wrap(h + d) + i - N
                                        ELSE Wrap(h + d) + i
        <3> DEFINE y == Wrap(h + d) + i
        <3> HIDE DEF y
        <3>1. y \in 0 .. 2 * N - 1
            BY <2>4 DEF y
        <3>2. Wrap(y) = IF y >= N THEN y - N ELSE y
            BY <3>1, WrapsOnce
        <3>3. Wrap(y) = IF Wrap(h + d) + i >= N THEN y - N ELSE y
            BY <3>2 DEF y
        <3> QED BY <2>1, <2>3, <3>3 DEF y
    <2> QED BY <2>1, <2>2, <2>3, <2>5
<1> SUFFICES ASSUME NEW id \in CtiIDs
             PROVE  (\E i \in 0 .. n - 1 : id = Wrap(Wrap(h + d) + i))
                        <=> dist(h, id) >= d /\ dist(h, id) < d + n
    OBVIOUS
<1>2. id \in 0 .. N - 1 /\ h \in 0 .. N - 1 /\ N \in Nat /\ dist(h, id) \in 0 .. N - 1
    BY Sizes DEF dist
<1>3. \A i \in 0 .. n - 1 : id = Wrap(Wrap(h + d) + i) <=> dist(h, id) = d + i
    BY <1>1, <1>2 DEF dist
<1>4. CASE dist(h, id) >= d /\ dist(h, id) < d + n
    <2>1. dist(h, id) - d \in 0 .. n - 1 /\ dist(h, id) = d + (dist(h, id) - d)
        BY <1>2, <1>4
    <2> QED BY <1>3, <1>4, <2>1
<1>5. CASE ~(dist(h, id) >= d /\ dist(h, id) < d + n)
    <2>1. \A i \in 0 .. n - 1 : dist(h, id) # d + i
        BY <1>2, <1>5
    <2> QED BY <1>3, <1>5, <2>1
<1> QED BY <1>4, <1>5

\* The n entries from h on.
LEMMA FromHead ==
    ASSUME NEW h \in CtiIDs, NEW n \in 0 .. N
    PROVE  \A id \in CtiIDs : (\E i \in 0 .. n - 1 : id = Wrap(h + i)) <=> dist(h, id) < n
<1>1. /\ 0 \in 0 .. N - 1 /\ 0 + n = n /\ n <= N /\ h + 0 = h
      /\ h \in 0 .. 2 * N - 1 /\ h < N /\ h \in Nat /\ N \in Nat
    BY Sizes
<1>2. Wrap(h + 0) = h
    BY <1>1, WrapsOnce
<1>3. \A id \in CtiIDs : dist(h, id) >= 0
    BY <1>1, Sizes DEF dist
<1>4. \A id \in CtiIDs : (\E i \in 0 .. n - 1 : id = Wrap(Wrap(h + 0) + i))
                             <=> dist(h, id) >= 0 /\ dist(h, id) < 0 + n
    BY <1>1, Windows
<1> QED BY <1>1, <1>2, <1>3, <1>4

-----------------------------------------------------------------------------

LEMMA InitOK == Init => IInv
<1> SUFFICES ASSUME Init PROVE IInv
    OBVIOUS
<1>1. TypeOK
    <2>1. 0 \in CtiIDs /\ 0 \in 0 .. N /\ 0 \in 0 .. FETCH_WIDTH
        BY Sizes
    <2> QED BY <2>1 DEF Init, TypeOK, N
<1>2. CommittedIDs = {}
    BY DEF Init, CommittedIDs
<1>3. BitsBounded
    BY <1>2, FS_EmptySet DEF Init, BitsBounded
<1>4. Wrap(0) = 0
    BY WrapsOnce, Sizes
<1>5. QueueAgrees
    BY <1>4 DEF Init, QueueAgrees
<1>6. NeverAllPending
    BY Sizes DEF Init, NeverAllPending
<1> QED BY <1>1, <1>3, <1>5, <1>6 DEF IInv

\* A pop clears one bit, c commits set at most c.
LEMMA BitsStayBounded ==
    ASSUME IInv, NEW c \in Nat, CommittedWrite(c), pending' = pending + c - popped
    PROVE  BitsBounded' /\ pending' \in Nat
<1> DEFINE Set == {Wrap(commitPtr + i) : i \in 0 .. c - 1}
           Kept == IF updateEn THEN CommittedIDs \ {headPtr} ELSE CommittedIDs
<1>1. IsFiniteSet(CtiIDs) /\ CommittedIDs \subseteq CtiIDs
    BY Sizes, FS_Interval DEF CommittedIDs
<1>2. IsFiniteSet(CommittedIDs) /\ Cardinality(CommittedIDs) \in Nat
    BY <1>1, FS_Subset, FS_CardinalityType
<1>3. IsFiniteSet(Set) /\ Cardinality(Set) <= c /\ Cardinality(Set) \in Nat
    <2>1. 0 \in Int /\ c - 1 \in Int /\ (0 > c - 1 => c = 0)
        OBVIOUS
    <2>2. IsFiniteSet(0 .. c - 1) /\ Cardinality(0 .. c - 1) = c
        BY <2>1, FS_Interval
    <2>3. IsFiniteSet(Set) /\ Cardinality(Set) <= Cardinality(0 .. c - 1)
        <3> DEFINE f == [i \in 0 .. c - 1 |-> Wrap(commitPtr + i)]
        <3>1. f \in Surjection(0 .. c - 1, Set)
            BY Fun_IsSurj
        <3> QED BY <2>2, <3>1, FS_Surjection DEF ExistsSurjection
    <2> QED BY <2>2, <2>3, FS_CardinalityType
<1>4. IsFiniteSet(Kept) /\ Cardinality(Kept) = Cardinality(CommittedIDs) - popped
    <2>1. CASE updateEn
        <3>1. headPtr \in CommittedIDs
            BY <2>1 DEF updateEn, CommittedIDs, IInv, TypeOK
        <3> QED BY <1>2, <2>1, <3>1, FS_RemoveElement DEF popped
    <2>2. CASE ~updateEn
        BY <1>2, <2>2 DEF popped
    <2> QED BY <2>1, <2>2
<1>5. CommittedIDs' \subseteq Kept \union Set
    BY DEF CommittedWrite, CommittedIDs, Set, Kept
<1> HIDE DEF Set, Kept
<1>6. Cardinality(CommittedIDs') <= Cardinality(Kept) + Cardinality(Set)
    <2>1. IsFiniteSet(Kept \union Set)
          /\ Cardinality(Kept \union Set) = Cardinality(Kept) + Cardinality(Set) - Cardinality(Kept \cap Set)
        BY <1>3, <1>4, FS_Union
    <2>2. Cardinality(Kept \cap Set) \in Nat
        BY <1>3, <1>4, FS_Intersection, FS_CardinalityType
    <2>3. Cardinality(CommittedIDs') <= Cardinality(Kept \union Set) /\ IsFiniteSet(CommittedIDs')
        BY <1>5, <2>1, FS_Subset
    <2>4. /\ Cardinality(CommittedIDs') \in Nat /\ Cardinality(Kept \union Set) \in Nat
          /\ Cardinality(Kept) \in Nat
        BY <1>4, <2>1, <2>3, FS_CardinalityType
    <2> QED BY <1>3, <2>1, <2>2, <2>3, <2>4
<1>7. Cardinality(CommittedIDs') \in Nat
    BY <1>3, <1>4, <1>5, FS_Union, FS_Subset, FS_CardinalityType
<1>8. popped \in {0, 1} /\ pending \in Nat /\ Cardinality(CommittedIDs) <= pending
    BY DEF popped, IInv, TypeOK, BitsBounded
<1>9. Cardinality(CommittedIDs') <= pending'
    BY <1>2, <1>3, <1>4, <1>6, <1>7, <1>8
<1> QED BY <1>2, <1>7, <1>8, <1>9 DEF BitsBounded

-----------------------------------------------------------------------------
(* A cycle without a flush *)

LEMMA ClockTypes ==
    ASSUME IInv, NEW stall \in BOOLEAN, NEW n \in 0 .. FETCH_WIDTH,
           NEW c \in 0 .. COMMIT_WIDTH, Clock(stall, n, c)
    PROVE  /\ headPtr' \in CtiIDs /\ commitPtr' \in CtiIDs /\ tailPtr' \in CtiIDs
           /\ queueCount' \in 0 .. SIZE_CTI_QUEUE /\ ctrlCount' \in 0 .. FETCH_WIDTH
           /\ ctiqCommitted' \in [CtiIDs -> BOOLEAN]
           /\ inflight' \in Nat /\ sawException' \in BOOLEAN
           /\ headPtr + popped \in 0 .. 2 * N - 1
           /\ commitPtr + c \in 0 .. 2 * N - 1
           /\ tailPtr + pushed(stall) \in 0 .. 2 * N - 1
           /\ popped \in 0 .. 1 /\ pushed(stall) \in Nat
           /\ popped <= queueCount /\ queueCount + pushed(stall) <= N
<1> DEFINE q == pushed(stall)
           p == popped
<1>1. /\ headPtr \in 0 .. N - 1 /\ commitPtr \in 0 .. N - 1 /\ tailPtr \in 0 .. N - 1
      /\ queueCount \in 0 .. N /\ ctrlCount \in 0 .. FETCH_WIDTH /\ inflight \in Nat
      /\ N \in Nat /\ N >= 2 /\ FETCH_WIDTH \in Nat /\ FETCH_WIDTH < N
      /\ COMMIT_WIDTH \in Nat /\ COMMIT_WIDTH < N
    BY Sizes DEF IInv, TypeOK, N
<1>2. q \in 0 .. FETCH_WIDTH /\ queueCount + q <= N
    BY <1>1 DEF pushed, ctiQueueFull, N
<1>3. p \in 0 .. 1 /\ p <= queueCount
    BY <1>1 DEF popped, updateEn
<1>4. /\ headPtr' = Wrap(headPtr + p) /\ commitPtr' = Wrap(commitPtr + c)
      /\ tailPtr' = Wrap(tailPtr + q) /\ queueCount' = queueCount + q - p
      /\ inflight' = inflight + q - c /\ c <= inflight
      /\ ctrlCount' \in {n, ctrlCount} /\ sawException' = sawException
    BY DEF Clock, HeadUpdate, CommitUpdate
<1> HIDE DEF q, p
<1>5. /\ headPtr + p \in 0 .. 2 * N - 1 /\ commitPtr + c \in 0 .. 2 * N - 1
      /\ tailPtr + q \in 0 .. 2 * N - 1
    BY <1>1, <1>2, <1>3
<1>6. \A x \in 0 .. 2 * N - 1 : Wrap(x) \in CtiIDs
    BY <1>1, Sizes, WrapsOnce
<1>7. headPtr' \in CtiIDs /\ commitPtr' \in CtiIDs /\ tailPtr' \in CtiIDs
    BY <1>4, <1>5, <1>6
<1>8. queueCount' \in 0 .. N /\ inflight' \in Nat
    BY <1>1, <1>2, <1>3, <1>4
<1>9. ctrlCount' \in 0 .. FETCH_WIDTH
    BY <1>1, <1>4
<1>10. ctiqCommitted' \in [CtiIDs -> BOOLEAN] /\ sawException' \in BOOLEAN
    BY <1>4 DEF Clock, CommittedWrite, IInv, TypeOK
<1> QED BY <1>2, <1>3, <1>5, <1>7, <1>8, <1>9, <1>10 DEF p, q, N

LEMMA ClockOK ==
    ASSUME IInv, NEW stall \in BOOLEAN, NEW n \in 0 .. FETCH_WIDTH,
           NEW c \in 0 .. COMMIT_WIDTH, Clock(stall, n, c),
           recoverFlag' \in BOOLEAN, exceptionFlag' \in BOOLEAN
    PROVE  IInv'
<1> DEFINE q == pushed(stall)
           p == popped
<1>1. BitsBounded' /\ pending' \in Nat
    BY BitsStayBounded, Sizes DEF Clock
<1>2. TypeOK'
    BY <1>1, ClockTypes DEF TypeOK
<1>3. CASE sawException
    BY <1>1, <1>2, <1>3 DEF Clock, IInv, QueueAgrees, NeverAllPending
<1>4. CASE ~sawException
    <2>1. /\ headPtr' = Wrap(headPtr + p) /\ commitPtr' = Wrap(commitPtr + c)
          /\ tailPtr' = Wrap(tailPtr + q) /\ queueCount' = queueCount + q - p
          /\ inflight' = inflight + q - c /\ pending' = pending + c - p
          /\ c <= inflight /\ sawException' = sawException /\ ~recoverFlag
        BY DEF Clock, HeadUpdate, CommitUpdate
    <2>2. /\ headPtr \in 0 .. N - 1 /\ queueCount \in 0 .. N /\ inflight \in Nat
          /\ pending \in Nat /\ pending <= N - 1 /\ queueCount = inflight + pending
          /\ commitPtr = Wrap(headPtr + pending) /\ tailPtr = Wrap(commitPtr + inflight)
          /\ commitPtr \in 0 .. N - 1 /\ tailPtr \in 0 .. N - 1
        BY <1>4, Sizes DEF IInv, TypeOK, QueueAgrees, NeverAllPending, N
    <2>3. \A id \in CtiIDs : ctiqCommitted[id] <=> dist(headPtr, id) < pending
        <3>1. pending \in 0 .. N /\ headPtr \in CtiIDs
            BY <2>2, Sizes
        <3>2. \A id \in CtiIDs : (\E i \in 0 .. pending - 1 : id = Wrap(headPtr + i)) <=> dist(headPtr, id) < pending
            BY <3>1, FromHead
        <3> QED BY <1>4, <3>2 DEF IInv, QueueAgrees
    <2>4. p = IF pending > 0 THEN 1 ELSE 0
        <3>1. headPtr \in CtiIDs /\ dist(headPtr, headPtr) = 0
            BY <2>2, Sizes DEF dist
        <3> QED BY <2>1, <2>2, <2>3, <3>1 DEF popped, updateEn
    <2>5. /\ N \in Nat /\ N >= 2 /\ c \in Nat /\ c < N /\ q \in Nat /\ q < N
          /\ queueCount + q <= N
        BY ClockTypes, Sizes DEF pushed, IInv, TypeOK
    <2>names. \A id \in CtiIDs : ctiqCommitted'[id] <=>
                  \/ \E i \in 0 .. c - 1 : id = Wrap(commitPtr + i)
                  \/ ctiqCommitted[id] /\ ~(p = 1 /\ id = headPtr)
        BY DEF Clock, CommittedWrite, popped
    <2> HIDE DEF p, q
    <2>6. /\ pending' \in Nat /\ pending' <= N - 1 /\ pending + c <= N
          /\ queueCount' = inflight' + pending' /\ inflight' \in Nat /\ inflight' <= N
        BY <2>1, <2>2, <2>4, <2>5
    <2>7. headPtr' = IF headPtr + p >= N THEN headPtr + p - N ELSE headPtr + p
        <3>1. headPtr + p \in 0 .. 2 * N - 1
            BY <2>2, <2>4, <2>5
        <3>2. Wrap(headPtr + p) = IF headPtr + p >= N THEN headPtr + p - N ELSE headPtr + p
            BY <2>2, <2>4, <2>5, <3>1, WrapsOnce
        <3> QED BY <2>1, <3>2
    <2>9. headPtr' \in 0 .. N - 1
        BY <2>2, <2>4, <2>5, <2>7
    <2>10. commitPtr' = Wrap(headPtr' + pending') /\ tailPtr' = Wrap(commitPtr' + inflight')
        <3>1. /\ p \in 0 .. N /\ pending \in 0 .. N /\ c \in 0 .. N /\ pending' \in 0 .. N
              /\ inflight \in 0 .. N /\ inflight' \in 0 .. N /\ q \in 0 .. N
              /\ pending + c <= N /\ p + pending' = pending + c
              /\ inflight + q <= N /\ c + inflight' = inflight + q
            BY <2>1, <2>2, <2>4, <2>5, <2>6
        <3>2. headPtr \in CtiIDs /\ commitPtr \in CtiIDs
            BY <2>2, Sizes
        <3>3. Wrap(Wrap(headPtr + pending) + c) = Wrap(headPtr + (pending + c))
            BY <3>1, <3>2, Chain
        <3>4. Wrap(Wrap(headPtr + p) + pending') = Wrap(headPtr + (p + pending'))
            BY <3>1, <3>2, Chain
        <3>5. Wrap(Wrap(commitPtr + inflight) + q) = Wrap(commitPtr + (inflight + q))
            BY <3>1, <3>2, Chain
        <3>6. Wrap(Wrap(commitPtr + c) + inflight') = Wrap(commitPtr + (c + inflight'))
            BY <3>1, <3>2, Chain
        <3>7. commitPtr' = Wrap(headPtr' + pending')
            BY <2>1, <2>2, <3>1, <3>3, <3>4
        <3>8. tailPtr' = Wrap(commitPtr' + inflight')
            BY <2>1, <2>2, <3>1, <3>5, <3>6
        <3> QED BY <3>7, <3>8
    <2>11. \A id \in CtiIDs : ctiqCommitted'[id] <=> dist(headPtr', id) < pending'
        <3> SUFFICES ASSUME NEW id \in CtiIDs
                     PROVE  ctiqCommitted'[id] <=> dist(headPtr', id) < pending'
            OBVIOUS
        <3>1. /\ id \in 0 .. N - 1 /\ dist(headPtr, id) \in 0 .. N - 1
              /\ dist(headPtr, id) = IF id >= headPtr THEN id - headPtr ELSE id + N - headPtr
              /\ dist(headPtr', id) = IF id >= headPtr' THEN id - headPtr' ELSE id + N - headPtr'
            BY <2>2, Sizes DEF dist
        <3>2. dist(headPtr', id) = IF p = 1 /\ id = headPtr THEN N - 1 ELSE dist(headPtr, id) - p
            BY <2>2, <2>4, <2>5, <2>7, <3>1
        <3>3. (\E i \in 0 .. c - 1 : id = Wrap(commitPtr + i))
                  <=> dist(headPtr, id) >= pending /\ dist(headPtr, id) < pending + c
            <4>1. pending \in 0 .. N - 1 /\ c \in 0 .. N /\ headPtr \in CtiIDs
                BY <2>2, <2>5, Sizes
            <4> QED BY <2>2, <2>6, <4>1, Windows
        <3>4. ctiqCommitted[id] <=> dist(headPtr, id) < pending
            BY <2>3
        <3>5. id = headPtr <=> dist(headPtr, id) = 0
            BY <2>2, <2>5, <3>1
        <3> HIDE DEF dist
        <3> QED BY <2>1, <2>2, <2>4, <2>5, <2>6, <2>names, <3>1, <3>2, <3>3, <3>4, <3>5
    <2>12. QueueAgrees'
        <3>1. pending' \in 0 .. N /\ headPtr' \in CtiIDs
            BY <2>5, <2>6, <2>9, Sizes
        <3>2. \A id \in CtiIDs : (\E i \in 0 .. pending' - 1 : id = Wrap(headPtr' + i)) <=> dist(headPtr', id) < pending'
            BY <3>1, FromHead
        <3> QED BY <2>6, <2>10, <2>11, <3>2 DEF QueueAgrees
    <2> QED BY <1>1, <1>2, <2>6, <2>12 DEF IInv, NeverAllPending
<1> QED BY <1>3, <1>4

-----------------------------------------------------------------------------
(* The cycles of the flags *)

LEMMA RecoveredCount ==
    ASSUME IInv
    PROVE  /\ queueCount_recover \in 0 .. N - 1
           /\ ~sawException => queueCount_recover = pending
<1>1. /\ headPtr \in 0 .. N - 1 /\ commitPtr \in 0 .. N - 1 /\ N \in Nat /\ N >= 2 /\ pending \in Nat
    BY Sizes DEF IInv, TypeOK
<1>2. queueCount_recover = IF commitPtr >= headPtr THEN commitPtr - headPtr
                           ELSE N - headPtr + commitPtr
    BY DEF queueCount_recover, N
<1>3. queueCount_recover \in 0 .. N - 1
    BY <1>1, <1>2
<1>4. CASE ~sawException
    <2>1. pending <= N - 1 /\ commitPtr = Wrap(headPtr + pending)
        BY <1>4 DEF IInv, QueueAgrees, NeverAllPending
    <2>2. headPtr + pending \in 0 .. 2 * N - 1
        BY <1>1, <2>1
    <2>3. commitPtr = IF headPtr + pending >= N THEN headPtr + pending - N ELSE headPtr + pending
        BY <1>1, <2>1, <2>2, WrapsOnce
    <2> QED BY <1>1, <1>2, <1>3, <2>1, <2>3
<1> QED BY <1>3, <1>4

LEMMA RecoverOK ==
    ASSUME IInv, Recover
    PROVE  IInv'
<1>1. /\ tailPtr' = commitPtr /\ queueCount' = queueCount_recover /\ ctrlCount' = 0
      /\ recoverFlag' = FALSE /\ inflight' = 0 /\ headPtr' = headPtr /\ commitPtr' = commitPtr
      /\ ctiqCommitted' = ctiqCommitted /\ exceptionFlag' = exceptionFlag
      /\ pending' = pending /\ sawException' = sawException
    BY DEF Recover
<1>2. TypeOK'
    <2>1. queueCount' \in 0 .. SIZE_CTI_QUEUE /\ 0 \in 0 .. FETCH_WIDTH
        BY <1>1, RecoveredCount, Sizes DEF N
    <2> QED BY <1>1, <2>1 DEF IInv, TypeOK
<1>3. BitsBounded' /\ NeverAllPending'
    BY <1>1 DEF IInv, BitsBounded, CommittedIDs, NeverAllPending
<1>4. QueueAgrees'
    <2> SUFFICES ASSUME ~sawException PROVE QueueAgrees'
        BY <1>1 DEF QueueAgrees
    <2>1. queueCount' = inflight' + pending'
        BY <1>1, RecoveredCount DEF IInv, TypeOK
    <2>2. tailPtr' = Wrap(commitPtr' + inflight')
        <3>1. commitPtr + 0 = commitPtr /\ commitPtr \in 0 .. 2 * N - 1 /\ commitPtr < N
              /\ commitPtr \in Nat /\ N \in Nat
            BY Sizes DEF IInv, TypeOK
        <3>2. Wrap(commitPtr) = commitPtr
            BY <3>1, WrapsOnce
        <3> QED BY <1>1, <3>1, <3>2
    <2> QED BY <1>1, <2>1, <2>2 DEF IInv, QueueAgrees
<1> QED BY <1>2, <1>3, <1>4 DEF IInv

LEMMA ExceptionOK ==
    ASSUME IInv, Exception
    PROVE  IInv'
<1>1. /\ tailPtr' = commitPtr /\ queueCount' = queueCount_recover /\ ctrlCount' = 0
      /\ exceptionFlag' = FALSE /\ inflight' = 0 /\ headPtr' = Wrap(headPtr + popped)
      /\ commitPtr' = commitPtr /\ ctiqCommitted' = [id \in CtiIDs |-> FALSE]
      /\ recoverFlag' = recoverFlag /\ pending' = 0 /\ sawException' = TRUE
    BY DEF Exception, HeadUpdate
<1>2. headPtr' \in CtiIDs
    <2>1. headPtr + popped \in 0 .. 2 * N - 1 /\ N \in Nat /\ N >= 2
        BY Sizes DEF IInv, TypeOK, popped
    <2>2. \A x \in 0 .. 2 * N - 1 : Wrap(x) \in CtiIDs
        BY <2>1, Sizes, WrapsOnce
    <2> QED BY <1>1, <2>1, <2>2
<1>3. queueCount' \in 0 .. SIZE_CTI_QUEUE /\ 0 \in 0 .. FETCH_WIDTH
    BY <1>1, RecoveredCount, Sizes DEF N
<1>4. TypeOK'
    BY <1>1, <1>2, <1>3 DEF IInv, TypeOK
<1>5. BitsBounded'
    <2>1. CommittedIDs' = {}
        BY <1>1 DEF CommittedIDs
    <2> QED BY <1>1, <2>1, FS_EmptySet DEF BitsBounded
<1> QED BY <1>1, <1>4, <1>5 DEF IInv, QueueAgrees, NeverAllPending

-----------------------------------------------------------------------------
(* The theorems *)

LEMMA NextOK == IInv /\ [Next]_vars => IInv'
<1> SUFFICES ASSUME IInv, [Next]_vars PROVE IInv'
    OBVIOUS
<1>1. ASSUME NEW stall \in BOOLEAN, NEW n \in 0 .. FETCH_WIDTH, NEW c \in 0 .. COMMIT_WIDTH,
             Cycle(stall, n, c)
      PROVE  IInv'
    <2>1. Clock(stall, n, c) /\ recoverFlag' \in BOOLEAN /\ exceptionFlag' \in BOOLEAN
        BY <1>1 DEF Cycle, flags, IInv, TypeOK
    <2> QED BY <2>1, ClockOK
<1>2. ASSUME NEW stall \in BOOLEAN, NEW isException \in BOOLEAN, NEW n \in 0 .. FETCH_WIDTH,
             NEW c \in 0 .. 1, FlushDecision(stall, n, c, isException)
      PROVE  IInv'
    <2>1. c \in 0 .. COMMIT_WIDTH
        BY Sizes
    <2>2. Clock(stall, n, c) /\ recoverFlag' \in BOOLEAN /\ exceptionFlag' \in BOOLEAN
        BY <1>2 DEF FlushDecision
    <2> QED BY <2>1, <2>2, ClockOK
<1>3. CASE UNCHANGED vars
    BY <1>3 DEF vars, ptrVars, ghostVars, flags, IInv, TypeOK, BitsBounded, CommittedIDs,
                QueueAgrees, NeverAllPending
<1> QED BY <1>1, <1>2, <1>3, RecoverOK, ExceptionOK DEF Next

\* The ring, its count and its bits stay together, through commits that outrun
\* the updates and through recoveries; after a system call the count is still
\* bounded and no update takes more than was committed.
THEOREM Inductive == Spec => []IInv
<1> QED BY InitOK, NextOK, PTL DEF Spec

\* The count never leaves 0 .. SIZE_CTI_QUEUE, also when a system call has made
\* it disagree with the pointers.
THEOREM Typing == Spec => []TypeOK
<1>1. IInv => TypeOK
    BY DEF IInv
<1> QED BY <1>1, Inductive, PTL

\* The count that a recovery computes from two pointers is the number of
\* committed entries, for every size of the ring and every width of commit.
THEOREM Agreement == Spec => []QueueAgrees
<1>1. IInv => QueueAgrees
    BY DEF IInv
<1> QED BY <1>1, Inductive, PTL
=============================================================================
