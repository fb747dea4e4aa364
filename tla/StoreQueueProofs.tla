-------------------------- MODULE StoreQueueProofs --------------------------
(***************************************************************************)
(* The store queue for every size and every width of dispatch and commit:  *)
(* pointers, count and bits are one queue, committed stores keep their     *)
(* address, and what is written to the data cache is the oldest retired    *)
(* store, but for the head that a flush has erased.                        *)
(***************************************************************************)
EXTENDS StoreQueue, FiniteSetTheorems, FunctionTheorems, TLAPS

N == SIZE_LSQ

\* How many of the valid entries are committed: all that are not speculative.
numCommitted == stqCount - Len(speculative)

\* How many of those the cycle of a flush has written already.
erased == IF headErased THEN 1 ELSE 0

\* How many stores this cycle writes to the data cache.
leaving == IF commitSt THEN 1 ELSE 0

Pointers ==
    /\ Len(speculative) <= stqCount
    /\ stqTail = Wrap(stqHead + stqCount)
    /\ stqCommitPtr = Wrap(stqHead + numCommitted)

Bits ==
    \A s \in Entries :
        /\ stqValid[s] <=> fromHead(s) < stqCount
        /\ stqCommit[s] <=> fromHead(s) < numCommitted

Addresses ==
    \A s \in Entries :
        /\ stqCommit[s] => stqAddrValid[s]
        /\ stqAddrValid[s] => stqValid[s]

\* An entry with an address holds its own store: a committed one that of the
\* retired stores, one in flight that of the speculative stores.
Contents ==
    /\ Len(retired) = numCommitted - erased
    /\ \A s \in Entries :
          /\ fromHead(s) >= erased /\ fromHead(s) < numCommitted
                => stqData[s] = retired[fromHead(s) - erased + 1]
          /\ fromHead(s) >= numCommitted /\ stqAddrValid[s]
                => stqData[s] = speculative[fromHead(s) - numCommitted + 1]

IInv == TypeOK /\ Pointers /\ Bits /\ Addresses /\ Contents /\ (recoverFlag => ~headErased)

-----------------------------------------------------------------------------
(* Positions in the ring *)

LEMMA Sizes ==
    /\ N \in Nat /\ N >= 1 /\ N >= DISPATCH_WIDTH /\ N >= COMMIT_WIDTH
    /\ DISPATCH_WIDTH \in Nat /\ COMMIT_WIDTH \in Nat
BY QueueAssumption DEF N

\* Every entry has one distance from the head, and every distance one entry.
LEMMA Positions ==
    ASSUME stqHead \in Entries
    PROVE  /\ \A s \in Entries : fromHead(s) \in 0 .. N - 1 /\ s = Wrap(stqHead + fromHead(s))
           /\ \A i \in 0 .. N - 1 : Wrap(stqHead + i) \in Entries
                                    /\ fromHead(Wrap(stqHead + i)) = i
BY Sizes DEF Entries, fromHead, Wrap, N

\* n entries from distance d on, as the code names them: by their own number.
LEMMA Windows ==
    ASSUME stqHead \in Entries, NEW d \in Nat, NEW n \in Nat, d + n <= N, d <= N
    PROVE  \A s \in Entries :
              (\E i \in 1 .. n : s = Wrap(Wrap(stqHead + d) + i - 1))
                 <=> fromHead(s) >= d /\ fromHead(s) < d + n
<1> SUFFICES ASSUME NEW s \in Entries
             PROVE  (\E i \in 1 .. n : s = Wrap(Wrap(stqHead + d) + i - 1))
                       <=> fromHead(s) >= d /\ fromHead(s) < d + n
    OBVIOUS
<1>1. ASSUME NEW i \in 1 .. n
      PROVE  Wrap(Wrap(stqHead + d) + i - 1) = Wrap(stqHead + (d + i - 1))
    BY Sizes DEF Wrap, Entries, N
<1>2. ASSUME NEW i \in 1 .. n
      PROVE  s = Wrap(stqHead + (d + i - 1)) <=> fromHead(s) = d + i - 1
    BY Sizes, Positions
<1>3. fromHead(s) \in 0 .. N - 1
    BY Positions
<1>4. CASE fromHead(s) >= d /\ fromHead(s) < d + n
    <2>1. fromHead(s) - d + 1 \in 1 .. n /\ fromHead(s) = d + (fromHead(s) - d + 1) - 1
        BY <1>3, <1>4
    <2> QED BY <1>1, <1>2, <1>4, <2>1
<1>5. CASE ~(fromHead(s) >= d /\ fromHead(s) < d + n)
    <2>1. \A i \in 1 .. n : fromHead(s) # d + i - 1
        BY <1>3, <1>5
    <2> QED BY <1>1, <1>2, <1>5, <2>1
<1> QED BY <1>4, <1>5

\* A window of n entries has n of them.
LEMMA WindowSize ==
    ASSUME stqHead \in Entries, NEW d \in Nat, NEW n \in Nat, d + n <= N
    PROVE  Cardinality({s \in Entries : fromHead(s) >= d /\ fromHead(s) < d + n}) = n
<1> DEFINE W == {s \in Entries : fromHead(s) >= d /\ fromHead(s) < d + n}
           I == d .. d + n - 1
           f == [i \in I |-> Wrap(stqHead + i)]
<1>1. \A i \in I : i \in 0 .. N - 1 /\ Wrap(stqHead + i) \in W /\ fromHead(Wrap(stqHead + i)) = i
    BY Sizes, Positions
<1>2. \A s \in W : fromHead(s) \in I /\ Wrap(stqHead + fromHead(s)) = s
    BY Sizes, Positions
<1> HIDE DEF W, I
<1>3. f \in Bijection(I, W)
    <2>1. f \in [I -> W]
        BY <1>1
    <2>2. \A i, j \in I : f[i] = f[j] => i = j
        BY <1>1
    <2>3. \A s \in W : \E i \in I : f[i] = s
        BY <1>2
    <2> QED BY <2>1, <2>2, <2>3, Fun_IsBij
<1>4. IsFiniteSet(I) /\ Cardinality(I) = n
    <2>1. d \in Int /\ d + n - 1 \in Int
        OBVIOUS
    <2> QED BY <2>1, FS_Interval DEF I
<1>5. Cardinality(W) = Cardinality(I)
    BY <1>3, <1>4, FS_Bijection DEF ExistsBijection
<1> QED BY <1>4, <1>5 DEF W

LEMMA Joined ==
    ASSUME NEW V, NEW a \in Seq(V), NEW b \in Seq(V)
    PROVE  /\ a \o b \in Seq(V) /\ Len(a \o b) = Len(a) + Len(b)
           /\ \A j \in 1 .. Len(a) + Len(b) :
                 (a \o b)[j] = IF j <= Len(a) THEN a[j] ELSE b[j - Len(a)]
OBVIOUS

LEMMA Parts ==
    ASSUME NEW V, NEW a \in Seq(V), NEW c \in 0 .. Len(a)
    PROVE  /\ SubSeq(a, c + 1, Len(a)) \in Seq(V) /\ SubSeq(a, 1, c) \in Seq(V)
           /\ Len(SubSeq(a, c + 1, Len(a))) = Len(a) - c /\ Len(SubSeq(a, 1, c)) = c
           /\ \A j \in 1 .. Len(a) - c : SubSeq(a, c + 1, Len(a))[j] = a[c + j]
           /\ \A j \in 1 .. c : SubSeq(a, 1, c)[j] = a[j]
<1>1. Len(a) \in Nat /\ c \in Nat
    OBVIOUS
<1>2. SubSeq(a, 1, c) = [j \in 1 .. c |-> a[j]]
    BY <1>1
<1>3. SubSeq(a, c + 1, Len(a)) = [j \in 1 .. Len(a) - c |-> a[c + j]]
    BY <1>1
<1> QED BY <1>1, <1>2, <1>3

-----------------------------------------------------------------------------
(* Initial states *)

LEMMA InitOK == Init => IInv
<1> SUFFICES ASSUME Init PROVE IInv
    OBVIOUS
<1>1. 0 \in Entries
    BY Sizes DEF Entries, N
<1>2. TypeOK
    BY <1>1, Sizes DEF Init, TypeOK, N
<1>3. Len(speculative) = 0 /\ Len(retired) = 0 /\ stqCount = 0
    BY DEF Init
<1>4. numCommitted = 0 /\ erased = 0 /\ Wrap(0) = 0
    <2>1. Wrap(0) = 0
        BY Sizes DEF Wrap, N
    <2>2. numCommitted = 0
        BY <1>3 DEF numCommitted
    <2> QED BY <2>1, <2>2 DEF Init, erased
<1>5. Pointers
    <2>1. stqHead = 0 /\ stqTail = 0 /\ stqCommitPtr = 0
        BY DEF Init
    <2> QED BY <1>3, <1>4, <2>1 DEF Pointers
<1>6. \A s \in Entries : fromHead(s) \in 0 .. N - 1
    BY <1>1, Positions DEF Init
<1>7. \A s \in Entries : ~stqValid[s] /\ ~stqCommit[s] /\ ~stqAddrValid[s]
    BY DEF Init
<1>8. Bits /\ Addresses
    BY <1>3, <1>4, <1>6, <1>7 DEF Bits, Addresses
<1>9. Contents
    BY <1>3, <1>4, <1>6, <1>7 DEF Contents
<1> QED BY <1>2, <1>5, <1>8, <1>9 DEF Init, IInv

-----------------------------------------------------------------------------
(* A cycle without a flush *)

\* What the parts of the invariant say of the numbers in it.
LEMMA Numbers ==
    ASSUME IInv
    PROVE  /\ Len(speculative) \in Nat /\ Len(retired) \in Nat
           /\ stqHead \in Entries /\ stqCount \in 0 .. N
           /\ numCommitted \in 0 .. N /\ numCommitted <= stqCount
           /\ stqCount = numCommitted + Len(speculative)
           /\ erased \in {0, 1}
           /\ \A s \in Entries : fromHead(s) \in 0 .. N - 1
           /\ stqHead \in 0 .. N - 1 /\ fromHead(stqHead) = 0
           /\ commitSt <=> numCommitted > 0
<1>1. /\ Len(speculative) \in Nat /\ Len(retired) \in Nat
      /\ stqHead \in Entries /\ stqCount \in 0 .. N /\ erased \in {0, 1}
    BY DEF IInv, TypeOK, N, erased
<1>2. /\ numCommitted \in 0 .. N /\ numCommitted <= stqCount
      /\ stqCount = numCommitted + Len(speculative)
    BY <1>1, Sizes DEF IInv, Pointers, numCommitted
<1>3. /\ \A s \in Entries : fromHead(s) \in 0 .. N - 1
      /\ stqHead \in 0 .. N - 1 /\ fromHead(stqHead) = 0
    <2>1. stqHead \in 0 .. N - 1 /\ stqHead \in Int
        BY <1>1, Sizes DEF Entries, N
    <2>2. fromHead(stqHead) = 0
        BY <2>1 DEF fromHead
    <2> QED BY <1>1, <2>1, <2>2, Positions
<1>4. commitSt <=> numCommitted > 0
    BY <1>1, <1>2, <1>3 DEF commitSt, IInv, Bits
<1> QED BY <1>1, <1>2, <1>3, <1>4

\* The c entries a group commits are the oldest c in flight, though the guard
\* looks at each of them on its own and the queue may be full.
LEMMA CommitsWithin ==
    ASSUME IInv, NEW c \in 0 .. COMMIT_WIDTH,
           \A i \in 1 .. c : commitStIndex(i) \in InFlight
    PROVE  c <= Len(speculative)
<1> DEFINE m == Len(speculative)
           k == numCommitted
<1> SUFFICES ASSUME c > m PROVE FALSE
    BY Numbers, Sizes
<1>1. m + 1 \in 1 .. c /\ m \in Nat /\ c \in Nat
    BY Numbers, Sizes
<1>2. commitStIndex(m + 1) = Wrap(Wrap(stqHead + k) + m)
    BY Numbers DEF commitStIndex, IInv, Pointers
<1>3. commitStIndex(m + 1) \in InFlight
    BY <1>1
<1>4. CASE stqCount < N
    <2>1. Wrap(Wrap(stqHead + k) + m) = Wrap(stqHead + stqCount)
        BY <1>4, Numbers, Sizes DEF Wrap, N
    <2>2. fromHead(Wrap(stqHead + stqCount)) = stqCount
        BY <1>4, Numbers, Positions, Sizes
    <2> QED BY <1>2, <1>3, <2>1, <2>2, Numbers DEF InFlight, IInv, Bits
<1>5. CASE stqCount = N
    <2>1. k > 0
        BY <1>1, <1>5, Numbers, Sizes
    <2>2. Wrap(Wrap(stqHead + k) + m) = stqHead
        <3>1. /\ stqHead \in Nat /\ stqHead < N /\ k \in Nat /\ k > 0 /\ m \in Nat /\ k + m = N
              /\ N \in Nat
            BY <1>5, <2>1, Numbers, Sizes
        <3> HIDE DEF k, m
        <3> QED BY <3>1 DEF Wrap, N
    <2> QED BY <1>2, <1>3, <2>1, <2>2, Numbers DEF InFlight, IInv, Bits
<1> QED BY <1>4, <1>5, Numbers, Sizes

\* A write takes the oldest retired store, unless a flush has erased it.
LEMMA Unwritten ==
    ASSUME IInv
    PROVE  /\ unwritten \in Seq(Values) /\ Len(unwritten) = numCommitted - leaving
           /\ \A j \in 1 .. numCommitted - leaving : unwritten[j] = retired[j + leaving - erased]
<1> DEFINE k == numCommitted
           p == leaving
<1>1. /\ retired \in Seq(Values) /\ Len(retired) = k - erased /\ Len(retired) \in Nat
      /\ erased \in {0, 1} /\ p = IF k > 0 THEN 1 ELSE 0
      /\ k \in Nat /\ p \in Nat /\ p <= 1 /\ p <= k
    BY Numbers DEF IInv, TypeOK, Contents, leaving
<1>names. p = 1 <=> commitSt
    BY DEF leaving
<1> HIDE DEF k, p
<1>2. CASE commitSt /\ ~headErased
    <2>1. unwritten = SubSeq(retired, 1 + 1, Len(retired)) /\ erased = 0 /\ p = 1
        BY <1>names, <1>2 DEF unwritten, erased
    <2>2. 1 \in 0 .. Len(retired)
        BY <1>1, <2>1
    <2>3. /\ unwritten \in Seq(Values) /\ Len(unwritten) = Len(retired) - 1
          /\ \A j \in 1 .. Len(retired) - 1 : unwritten[j] = retired[1 + j]
        BY <1>1, <2>1, <2>2, Parts
    <2> QED BY <1>1, <2>1, <2>3 DEF k, p
<1>3. CASE ~(commitSt /\ ~headErased)
    <2>1. unwritten = retired /\ p = erased
        BY <1>1, <1>names, <1>3 DEF unwritten, erased
    <2> QED BY <1>1, <2>1 DEF k, p
<1> QED BY <1>2, <1>3

LEMMA ClockOK ==
    ASSUME IInv, NEW bundle \in Bundles, NEW executing \in MayExecute,
           NEW c \in 0 .. COMMIT_WIDTH, Clock(bundle, executing, c), recoverFlag' \in BOOLEAN
    PROVE  IInv'
<1> DEFINE n == Len(bundle)
           m == Len(speculative)
           k == numCommitted
           p == IF commitSt THEN 1 ELSE 0
           new == newStores(n)
           com == committing(c)
\* The numbers
<1>1. n \in 0 .. DISPATCH_WIDTH /\ bundle \in Seq(Values)
    BY DEF Bundles
<1>2. /\ c <= m /\ c \in Nat /\ m \in Nat /\ n \in Nat /\ n <= N - stqCount
      /\ p \in Nat /\ p <= 1 /\ p <= k /\ k \in Nat /\ k <= N /\ stqCount = k + m /\ stqCount <= N
      /\ N \in Nat /\ N >= 1
    <2>1. c <= m
        BY CommitsWithin DEF Clock
    <2>2. n <= N - stqCount /\ n \in Nat
        BY <1>1, Numbers, Sizes DEF Clock, storeStall, N
    <2>3. p <= k
        BY Numbers
    <2> QED BY <2>1, <2>2, <2>3, Numbers, Sizes
<1>3. /\ stqHead' = Wrap(stqHead + p) /\ stqTail' = Wrap(stqTail + n)
      /\ stqCommitPtr' = Wrap(stqCommitPtr + c) /\ stqCount' = stqCount + n - p
      /\ headErased' = FALSE
    BY DEF Clock
<1>seqs. /\ speculative' = SubSeq(speculative, c + 1, m) \o bundle
         /\ retired' = unwritten \o SubSeq(speculative, 1, c)
    BY DEF Clock
<1>4. /\ SubSeq(speculative, c + 1, m) \in Seq(Values) /\ SubSeq(speculative, 1, c) \in Seq(Values)
      /\ Len(SubSeq(speculative, c + 1, m)) = m - c /\ Len(SubSeq(speculative, 1, c)) = c
    BY <1>2, Parts DEF IInv, TypeOK
<1>5. speculative' \in Seq(Values) /\ Len(speculative') = m - c + n
    BY <1>1, <1>2, <1>seqs, <1>4, Joined
<1>names. k = numCommitted /\ m = Len(speculative) /\ n = Len(bundle) /\ (p = 1 <=> commitSt)
    OBVIOUS
<1> HIDE DEF n, m, k, p
<1>6. numCommitted' = k + c - p /\ erased' = 0 /\ stqCount' \in 0 .. N
    <2>1. stqCount' - Len(speculative') = k + c - p
        BY <1>2, <1>3, <1>5
    <2>2. stqCount' \in 0 .. N
        BY <1>2, <1>3
    <2> QED BY <1>3, <2>1, <2>2 DEF numCommitted, erased
\* The entries
<1>head. stqHead \in 0 .. N - 1 /\ Entries = 0 .. N - 1 /\ stqTail = Wrap(stqHead + stqCount)
      /\ stqCommitPtr = Wrap(stqHead + k)
    BY <1>names, Numbers DEF Entries, N, IInv, Pointers
<1>7. /\ stqHead' \in Entries
      /\ \A s \in Entries : fromHead(s)' = IF p = 1 /\ s = stqHead THEN N - 1 ELSE fromHead(s) - p
    <2>1. stqHead' = IF stqHead + p >= N THEN stqHead + p - N ELSE stqHead + p
        BY <1>2, <1>3, <1>head DEF Wrap, N
    <2>2. \A s \in Entries :
             /\ fromHead(s) = IF s >= stqHead THEN s - stqHead ELSE s + N - stqHead
             /\ fromHead(s)' = IF s >= stqHead' THEN s - stqHead' ELSE s + N - stqHead'
        BY DEF fromHead, N
    <2>3. stqHead' \in 0 .. N - 1
        BY <1>2, <1>head, <2>1
    <2>4. ASSUME NEW s \in Entries
          PROVE  fromHead(s)' = IF p = 1 /\ s = stqHead THEN N - 1 ELSE fromHead(s) - p
        <3>1. /\ s \in 0 .. N - 1
              /\ fromHead(s) = IF s >= stqHead THEN s - stqHead ELSE s + N - stqHead
              /\ fromHead(s)' = IF s >= stqHead' THEN s - stqHead' ELSE s + N - stqHead'
            BY <1>head, <2>2
        <3> HIDE DEF fromHead
        <3>2. CASE p = 0
            BY <1>2, <1>head, <2>1, <3>1, <3>2
        <3>3. CASE p = 1
            BY <1>2, <1>head, <2>1, <3>1, <3>3
        <3> QED BY <1>2, <3>2, <3>3
    <2> QED BY <1>head, <2>3, <2>4
<1>8. \A s \in Entries : s \in new <=> fromHead(s) >= stqCount /\ fromHead(s) < stqCount + n
    <2>1. \A s \in Entries : s \in new <=> \E i \in 1 .. n : s = Wrap(Wrap(stqHead + stqCount) + i - 1)
        <3>1. \A s \in Entries : s \in new <=> \E i \in 1 .. n : s = Wrap(stqTail + i - 1)
            BY <1>names DEF newStores, stqID
        <3>2. stqTail = Wrap(stqHead + stqCount)
            BY <1>head
        <3>3. \A i \in 1 .. n : Wrap(stqTail + i - 1) = Wrap(Wrap(stqHead + stqCount) + i - 1)
            BY <3>2
        <3> QED BY <3>1, <3>3
    <2>2. /\ stqHead \in Entries /\ stqCount \in Nat /\ stqCount <= N
          /\ n \in Nat /\ stqCount + n <= N
        BY <1>2, <1>head
    <2>3. \A s \in Entries : (\E i \in 1 .. n : s = Wrap(Wrap(stqHead + stqCount) + i - 1))
                                <=> fromHead(s) >= stqCount /\ fromHead(s) < stqCount + n
        BY <2>2, Windows
    <2> QED BY <2>1, <2>3
<1>9. \A s \in Entries : s \in com <=> fromHead(s) >= k /\ fromHead(s) < k + c
    <2>1. \A s \in Entries : s \in com <=> \E i \in 1 .. c : s = Wrap(Wrap(stqHead + k) + i - 1)
        <3>1. \A s \in Entries : s \in com <=> \E i \in 1 .. c : s = Wrap(stqCommitPtr + i - 1)
            BY DEF committing, commitStIndex
        <3>2. stqCommitPtr = Wrap(stqHead + k)
            BY <1>head
        <3>3. \A i \in 1 .. c : Wrap(stqCommitPtr + i - 1) = Wrap(Wrap(stqHead + k) + i - 1)
            BY <3>2
        <3> QED BY <3>1, <3>3
    <2>2. stqHead \in Entries /\ k \in Nat /\ k <= N /\ c \in Nat /\ k + c <= N
        BY <1>2, <1>head
    <2>3. \A s \in Entries : (\E i \in 1 .. c : s = Wrap(Wrap(stqHead + k) + i - 1))
                                <=> fromHead(s) >= k /\ fromHead(s) < k + c
        BY <2>2, Windows
    <2> QED BY <2>1, <2>3
<1> HIDE DEF new, com
<1>10. \A s \in Entries : written(s) <=> p = 1 /\ s = stqHead
    BY <1>names DEF written
<1>11. \A s \in Entries : /\ stqValid[s] <=> fromHead(s) < stqCount
                          /\ stqCommit[s] <=> fromHead(s) < k
    BY <1>names DEF IInv, Bits
<1>12. \A s \in Entries : /\ fromHead(s) \in 0 .. N - 1
                          /\ fromHead(s) = 0 <=> s = stqHead
                          /\ fromCommitPtr(s) = IF fromHead(s) >= k THEN fromHead(s) - k
                                                ELSE fromHead(s) - k + N
    <2>1. \A s \in Entries : 
             /\ fromHead(s) = IF s >= stqHead THEN s - stqHead ELSE s + N - stqHead
             /\ fromCommitPtr(s) = IF s >= stqCommitPtr THEN s - stqCommitPtr
                                   ELSE s + N - stqCommitPtr
        BY DEF fromHead, fromCommitPtr, N
    <2>2. stqCommitPtr = IF stqHead + k >= N THEN stqHead + k - N ELSE stqHead + k
        BY <1>2, <1>head DEF Wrap, N
    <2>3. ASSUME NEW s \in Entries
          PROVE  /\ fromHead(s) \in 0 .. N - 1
                 /\ fromHead(s) = 0 <=> s = stqHead
                 /\ fromCommitPtr(s) = IF fromHead(s) >= k THEN fromHead(s) - k
                                       ELSE fromHead(s) - k + N
        <3>1. /\ s \in 0 .. N - 1
              /\ fromHead(s) = IF s >= stqHead THEN s - stqHead ELSE s + N - stqHead
              /\ fromCommitPtr(s) = IF s >= stqCommitPtr THEN s - stqCommitPtr
                                    ELSE s + N - stqCommitPtr
            BY <1>head, <2>1
        <3>2. CASE stqHead + k >= N
            BY <1>2, <1>head, <2>2, <3>1, <3>2
        <3>3. CASE ~(stqHead + k >= N)
            BY <1>2, <1>head, <2>2, <3>1, <3>3
        <3> QED BY <3>2, <3>3
    <2> QED BY <2>3
\* The conjuncts
<1>13. Pointers'
    <2>1. stqTail' = Wrap(stqHead' + stqCount')
        BY <1>2, <1>3, <1>head DEF Wrap, N
    <2>2. stqCommitPtr' = Wrap(stqHead' + (k + c - p))
        BY <1>2, <1>3, <1>head DEF Wrap, N
    <2> QED BY <1>2, <1>3, <1>5, <1>6, <2>1, <2>2 DEF Pointers
<1>14. Bits'
    <2> SUFFICES ASSUME NEW s \in Entries
                 PROVE  /\ stqValid'[s] <=> fromHead(s)' < stqCount'
                        /\ stqCommit'[s] <=> fromHead(s)' < numCommitted'
        BY DEF Bits
    <2>1. /\ stqValid'[s] <=> s \in new \/ (stqValid[s] /\ ~written(s))
          /\ stqCommit'[s] <=> s \in com \/ (stqCommit[s] /\ ~written(s))
        BY <1>names DEF Clock, new, com
    <2> QED BY <1>2, <1>3, <1>6, <1>7, <1>8, <1>9, <1>10, <1>11, <1>12, <2>1
<1>15. executing \subseteq InFlight /\ \A s \in executing : ~stqAddrValid[s]
    BY DEF MayExecute
<1>16. Addresses'
    <2> SUFFICES ASSUME NEW s \in Entries
                 PROVE  /\ stqCommit'[s] => stqAddrValid'[s]
                        /\ stqAddrValid'[s] => stqValid'[s]
        BY DEF Addresses
    <2>1. /\ stqValid'[s] <=> s \in new \/ (stqValid[s] /\ ~written(s))
          /\ stqCommit'[s] <=> s \in com \/ (stqCommit[s] /\ ~written(s))
          /\ stqAddrValid'[s] <=> s \in executing \/ (stqAddrValid[s] /\ ~written(s))
        BY <1>names DEF Clock, new, com
    <2>2. s \in com => stqAddrValid[s] /\ s \in InFlight
        BY DEF Clock, committing, com
    <2>3. s \in InFlight => stqValid[s] /\ ~written(s)
        BY DEF InFlight, written, commitSt
    <2> QED BY <1>15, <2>1, <2>2, <2>3 DEF IInv, Addresses
<1>17. /\ unwritten \in Seq(Values) /\ Len(unwritten) = k - p
       /\ \A j \in 1 .. k - p : unwritten[j] = retired[j + p - erased]
    BY Unwritten DEF k, p, leaving
<1>18. TypeOK'
    <2>1. stqTail' \in Entries /\ stqCommitPtr' \in Entries
        BY <1>2, <1>3, <1>head DEF Wrap, N
    <2>2. retired' \in Seq(Values)
        BY <1>seqs, <1>4, <1>17, Joined
    <2>3. stqData' \in [Entries -> Values \union {zero}]
        <3>1. ASSUME NEW s \in executing
              PROVE  speculative[fromCommitPtr(s) + 1] \in Values
            <4>1. fromCommitPtr(s) + 1 \in 1 .. m
                BY <1>2, <1>11, <1>12, <1>15, <3>1 DEF InFlight
            <4> QED BY <1>names, <4>1 DEF IInv, TypeOK
        <3> QED BY <3>1 DEF Clock, EntryWrite, IInv, TypeOK
    <2> QED BY <1>3, <1>5, <1>6, <1>7, <2>1, <2>2, <2>3 DEF Clock, TypeOK, N
<1>19. Contents'
    <2>1. /\ Len(retired') = k - p + c
          /\ \A j \in 1 .. k - p + c :
                retired'[j] = IF j <= k - p THEN retired[j + p - erased] ELSE speculative[j - (k - p)]
        <3>1. \A j \in 1 .. c : SubSeq(speculative, 1, c)[j] = speculative[j]
            BY <1>2, <1>names, Parts DEF IInv, TypeOK
        <3>2. /\ Len(retired') = k - p + c
              /\ \A j \in 1 .. k - p + c :
                    retired'[j] = IF j <= k - p THEN unwritten[j]
                                  ELSE SubSeq(speculative, 1, c)[j - (k - p)]
            <4> DEFINE a == unwritten
                       b == SubSeq(speculative, 1, c)
            <4>1. a \in Seq(Values) /\ b \in Seq(Values) /\ retired' = a \o b
                  /\ Len(a) = k - p /\ Len(b) = c
                BY <1>seqs, <1>4, <1>17
            <4> HIDE DEF a, b
            <4>2. /\ Len(a \o b) = Len(a) + Len(b)
                  /\ \A j \in 1 .. Len(a) + Len(b) :
                        (a \o b)[j] = IF j <= Len(a) THEN a[j] ELSE b[j - Len(a)]
                BY <4>1, Joined
            <4> QED BY <4>1, <4>2 DEF a, b
        <3>3. ASSUME NEW j \in 1 .. k - p + c
              PROVE  retired'[j] = IF j <= k - p THEN retired[j + p - erased] ELSE speculative[j - (k - p)]
            <4>1. CASE j <= k - p
                <5>1. j \in 1 .. k - p
                    BY <1>2, <4>1
                <5> QED BY <1>17, <3>2, <4>1, <5>1
            <4>2. CASE ~(j <= k - p)
                <5>1. j - (k - p) \in 1 .. c
                    BY <1>2, <4>2
                <5> QED BY <3>1, <3>2, <4>2, <5>1
            <4> QED BY <4>1, <4>2
        <3> QED BY <3>2, <3>3
    <2>2. \A j \in 1 .. m - c : speculative'[j] = speculative[c + j]
        <3>1. \A j \in 1 .. m - c : SubSeq(speculative, c + 1, m)[j] = speculative[c + j]
            BY <1>2, <1>names, Parts DEF IInv, TypeOK
        <3> DEFINE a == SubSeq(speculative, c + 1, m)
        <3>2. a \in Seq(Values) /\ speculative' = a \o bundle /\ Len(a) = m - c
            BY <1>seqs, <1>4
        <3>3. \A j \in 1 .. m - c : a[j] = speculative[c + j]
            BY <3>1
        <3> HIDE DEF a
        <3>4. Len(bundle) \in Nat
            BY <1>1
        <3>5. \A j \in 1 .. Len(a) + Len(bundle) :
                  (a \o bundle)[j] = IF j <= Len(a) THEN a[j] ELSE bundle[j - Len(a)]
            BY <1>1, <3>2, Joined
        <3> QED BY <1>2, <3>2, <3>3, <3>4, <3>5
    <2>3. \A s \in Entries : stqData'[s] = IF s \in executing THEN speculative[fromCommitPtr(s) + 1]
                                           ELSE IF written(s) THEN zero ELSE stqData[s]
        BY DEF Clock, EntryWrite
    <2> SUFFICES ASSUME NEW s \in Entries
                 PROVE  /\ fromHead(s)' >= 0 /\ fromHead(s)' < k + c - p
                              => stqData'[s] = retired'[fromHead(s)' + 1]
                        /\ fromHead(s)' >= k + c - p /\ stqAddrValid'[s]
                              => stqData'[s] = speculative'[fromHead(s)' - (k + c - p) + 1]
        <3>1. \A s \in Entries : fromHead(s)' \in Int
            BY <1>2, <1>7, <1>12
        <3> QED BY <1>2, <1>6, <2>1, <3>1 DEF Contents
    <2> DEFINE f == fromHead(s)
    <2>4. f \in 0 .. N - 1 /\ erased \in {0, 1} /\ erased <= p /\ stqCount = k + m
        BY <1>2, <1>12, <1>names, Numbers DEF IInv, Contents
    <2>5. /\ f >= erased /\ f < k => stqData[s] = retired[f - erased + 1]
          /\ f >= k /\ stqAddrValid[s] => stqData[s] = speculative[f - k + 1]
        BY <1>names DEF IInv, Contents
    <2>6. /\ s \in executing => f >= k /\ f < k + m /\ ~stqAddrValid[s]
          /\ s \in executing => fromCommitPtr(s) = f - k
        BY <1>2, <1>11, <1>12, <1>15, <2>4 DEF InFlight
    <2> HIDE DEF f
    <2>7. ASSUME fromHead(s)' >= 0, fromHead(s)' < k + c - p
          PROVE  stqData'[s] = retired'[fromHead(s)' + 1]
        <3>1. fromHead(s)' = f - p /\ ~written(s)
            BY <1>2, <1>7, <1>10, <2>4, <2>7 DEF f
        <3>2. CASE f < k
            BY <1>2, <2>1, <2>3, <2>4, <2>5, <2>6, <2>7, <3>1, <3>2
        <3>3. CASE f >= k
            <4>1. s \in com
                BY <1>2, <1>9, <2>4, <2>7, <3>1, <3>3 DEF f
            <4>2. stqAddrValid[s]
                BY <4>1 DEF Clock, committing, com
            <4>3. stqData'[s] = speculative[f - k + 1]
                BY <2>3, <2>5, <2>6, <3>1, <3>3, <4>2
            <4> DEFINE j == fromHead(s)' + 1
            <4>4. j \in 1 .. k - p + c /\ ~(j <= k - p) /\ j - (k - p) = f - k + 1
                BY <1>2, <2>4, <2>7, <3>1, <3>3
            <4> HIDE DEF j
            <4>5. retired'[j] = speculative[j - (k - p)]
                BY <2>1, <4>4
            <4>6. stqData'[s] = retired'[j]
                BY <4>3, <4>4, <4>5
            <4> QED BY <4>6 DEF j
        <3> QED BY <1>2, <2>4, <3>2, <3>3
    <2>8. ASSUME fromHead(s)' >= k + c - p, stqAddrValid'[s]
          PROVE  stqData'[s] = speculative'[fromHead(s)' - (k + c - p) + 1]
        <3>1. s \in executing \/ (stqAddrValid[s] /\ ~written(s))
            BY <2>8 DEF Clock
        <3>2. stqValid[s] /\ ~written(s)
            BY <1>2, <1>10, <1>11, <1>12, <2>4, <2>6, <3>1 DEF IInv, Addresses, f
        <3>3. fromHead(s)' = f - p /\ f < k + m /\ f >= k + c
            BY <1>2, <1>7, <1>10, <1>11, <2>4, <2>8, <3>2 DEF f
        <3>4. stqData'[s] = speculative[f - k + 1]
            BY <1>2, <2>3, <2>4, <2>5, <2>6, <3>1, <3>2, <3>3
        <3>5. /\ fromHead(s)' - (k + c - p) + 1 = f - k - c + 1
              /\ f - k - c + 1 \in 1 .. m - c /\ c + (f - k - c + 1) = f - k + 1
            BY <1>2, <2>4, <3>3
        <3> QED BY <2>2, <3>4, <3>5
    <2> QED BY <2>7, <2>8
<1> QED BY <1>3, <1>13, <1>14, <1>16, <1>18, <1>19 DEF IInv

-----------------------------------------------------------------------------
(* The cycle of a flush *)

\* The entries in flight are as many as the stores the program has in flight,
\* so the count of a flush is right.
LEMMA InFlightCount == IInv => Cardinality(InFlight) = Len(speculative)
<1> SUFFICES ASSUME IInv PROVE Cardinality(InFlight) = Len(speculative)
    OBVIOUS
<1> DEFINE k == numCommitted
           m == Len(speculative)
<1>1. k \in Nat /\ m \in Nat /\ k + m <= N /\ stqCount = k + m /\ stqHead \in Entries
    BY Numbers, Sizes
<1>2. \A s \in Entries : stqValid[s] /\ ~stqCommit[s] <=> fromHead(s) >= k /\ fromHead(s) < k + m
    <2>1. \A s \in Entries : fromHead(s) \in Nat
        BY Numbers, Sizes
    <2> QED BY <1>1, <2>1 DEF IInv, Bits
<1>3. InFlight = {s \in Entries : fromHead(s) >= k /\ fromHead(s) < k + m}
    BY <1>2 DEF InFlight
<1> QED BY <1>1, <1>3, WindowSize

LEMMA RecoverOK ==
    ASSUME IInv, NEW executing \in MayExecute, Recover(executing)
    PROVE  IInv'
<1> DEFINE k == numCommitted
           m == Len(speculative)
           p == leaving
<1>1. /\ k \in Nat /\ m \in Nat /\ p \in Nat /\ p <= 1 /\ p <= k /\ k <= N
      /\ N \in Nat /\ N >= 1 /\ stqCount = k + m /\ stqCount <= N /\ erased = 0
    BY Numbers, Sizes DEF leaving, IInv, Recover, erased
<1>2. /\ stqTail' = stqCommitPtr /\ stqCount' = k /\ stqHead' = stqHead
      /\ stqCommitPtr' = stqCommitPtr /\ stqCommit' = stqCommit
      /\ speculative' = <<>> /\ Len(speculative') = 0 /\ retired' = unwritten
      /\ headErased' = commitSt /\ recoverFlag' = FALSE
    BY <1>1, InFlightCount DEF Recover, stqCount_on_recover
<1>3. numCommitted' = k /\ erased' = p
    BY <1>1, <1>2 DEF numCommitted, erased, leaving
<1>4. \A s \in Entries : /\ fromHead(s)' = fromHead(s) /\ fromHead(s) \in 0 .. N - 1
                         /\ stqValid[s] <=> fromHead(s) < k + m
                         /\ stqCommit[s] <=> fromHead(s) < k
    <2>1. \A s \in Entries : fromHead(s)' = fromHead(s)
        BY <1>2 DEF fromHead
    <2> QED BY <1>1, <2>1, Numbers DEF IInv, Bits
<1>5. \A s \in Entries : /\ stqValid'[s] <=> fromHead(s) < k
                         /\ stqAddrValid'[s] <=> fromHead(s) < k
    <2>1. \A s \in Entries : /\ stqValid'[s] <=> stqValid[s] /\ stqCommit[s]
                             /\ stqAddrValid'[s] <=> stqValid[s] /\ stqCommit[s]
        BY DEF Recover, stqValid_on_recover, stqAddrValid_on_recover
    <2>2. \A s \in Entries : stqCommit[s] => stqValid[s]
        BY <1>1, <1>4
    <2> QED BY <1>4, <2>1, <2>2
<1>6. /\ unwritten \in Seq(Values) /\ Len(unwritten) = k - p
      /\ \A j \in 1 .. k - p : unwritten[j] = retired[j + p]
    BY <1>1, Unwritten
<1>7. Pointers' /\ Bits' /\ Addresses'
    <2>1. Pointers'
        BY <1>1, <1>2, <1>3 DEF Pointers, IInv, Wrap
    <2>2. Bits'
        BY <1>2, <1>3, <1>4, <1>5 DEF Bits
    <2>3. Addresses'
        BY <1>2, <1>4, <1>5 DEF Addresses
    <2> QED BY <2>1, <2>2, <2>3
<1>8. executing \subseteq InFlight /\ \A s \in executing : s \in Entries /\ fromHead(s) >= k
    BY <1>1, <1>4 DEF MayExecute, InFlight
<1>9. \A s \in Entries : stqData'[s] = IF s \in executing THEN speculative[fromCommitPtr(s) + 1]
                                       ELSE IF written(s) THEN zero ELSE stqData[s]
    BY DEF Recover, EntryWrite
<1>10. Contents'
    <2> HIDE DEF k, m, p
    <2>1. ASSUME NEW s \in Entries, fromHead(s)' >= p, fromHead(s)' < k
          PROVE  stqData'[s] = retired'[fromHead(s)' - p + 1]
        <3>1. ~written(s) /\ s \notin executing
            BY <1>1, <1>4, <1>8, <2>1, Numbers DEF written, leaving, p
        <3>2. stqData'[s] = stqData[s]
            BY <1>9, <3>1
        <3>3. stqData[s] = retired[fromHead(s) - 0 + 1]
            BY <1>1, <1>4, <2>1 DEF IInv, Contents, k
        <3>4. fromHead(s) - p + 1 \in 1 .. k - p /\ fromHead(s) - p + 1 + p = fromHead(s) - 0 + 1
            BY <1>1, <1>4, <2>1
        <3> QED BY <1>2, <1>4, <1>6, <3>2, <3>3, <3>4
    <2>2. \A s \in Entries : fromHead(s)' >= k => ~stqAddrValid'[s]
        BY <1>1, <1>4, <1>5
    <2> QED BY <1>1, <1>2, <1>3, <1>6, <2>1, <2>2 DEF Contents
<1>11. TypeOK'
    <2>1. \A s \in executing : speculative[fromCommitPtr(s) + 1] \in Values
        <3> SUFFICES ASSUME NEW s \in executing PROVE fromCommitPtr(s) + 1 \in 1 .. m
            BY DEF IInv, TypeOK
        <3>1. s \in Entries /\ fromHead(s) >= k /\ fromHead(s) < k + m /\ stqHead \in 0 .. N - 1
            BY <1>4, <1>8, Numbers DEF InFlight
        <3>2. s \in 0 .. N - 1 /\ stqCommitPtr = Wrap(stqHead + k)
            BY <3>1 DEF Entries, N, IInv, Pointers
        <3> HIDE DEF k, m
        <3>3. stqCommitPtr = IF stqHead + k >= N THEN stqHead + k - N ELSE stqHead + k
            BY <1>1, <3>1, <3>2 DEF Wrap, N
        <3>4. /\ fromHead(s) = IF s >= stqHead THEN s - stqHead ELSE s + N - stqHead
              /\ fromCommitPtr(s) = IF s >= stqCommitPtr THEN s - stqCommitPtr
                                    ELSE s + N - stqCommitPtr
            BY DEF fromHead, fromCommitPtr, N
        <3> QED BY <1>1, <3>1, <3>2, <3>3, <3>4
    <2>2. stqData' \in [Entries -> Values \union {zero}]
        BY <2>1 DEF Recover, EntryWrite, IInv, TypeOK
    <2>3. /\ stqValid' \in [Entries -> BOOLEAN] /\ stqAddrValid' \in [Entries -> BOOLEAN]
          /\ headErased' \in BOOLEAN /\ speculative' \in Seq(Values)
        BY DEF Recover, stqValid_on_recover, stqAddrValid_on_recover, commitSt, IInv, TypeOK
    <2>4. stqCount' \in 0 .. SIZE_LSQ
        BY <1>1, <1>2 DEF N
    <2> QED BY <1>2, <1>6, <2>2, <2>3, <2>4 DEF IInv, TypeOK
<1> QED BY <1>2, <1>7, <1>10, <1>11 DEF IInv

-----------------------------------------------------------------------------
(* The theorems *)

LEMMA NextOK == IInv /\ [Next]_vars => IInv'
<1> SUFFICES ASSUME IInv, [Next]_vars PROVE IInv'
    OBVIOUS
<1>1. ASSUME NEW bundle \in Bundles, NEW executing \in MayExecute, NEW c \in 0 .. COMMIT_WIDTH,
             Cycle(bundle, executing, c)
      PROVE  IInv'
    <2>1. Clock(bundle, executing, c) /\ recoverFlag' \in BOOLEAN
        BY <1>1 DEF Cycle, IInv, TypeOK
    <2> QED BY <2>1, ClockOK
<1>2. ASSUME NEW bundle \in Bundles, NEW executing \in MayExecute, FlushDecision(bundle, executing)
      PROVE  IInv'
    <2>1. Clock(bundle, executing, 0) /\ recoverFlag' \in BOOLEAN /\ 0 \in 0 .. COMMIT_WIDTH
        BY <1>2, Sizes DEF FlushDecision
    <2> QED BY <2>1, ClockOK
<1>3. ASSUME NEW executing \in MayExecute, Recover(executing)
      PROVE  IInv'
    BY <1>3, RecoverOK
<1>4. CASE UNCHANGED vars
    <2> USE <1>4 DEF vars, ptrVars, bitVars, ghostVars
    <2>1. /\ stqHead' = stqHead /\ stqTail' = stqTail /\ stqCommitPtr' = stqCommitPtr
          /\ stqCount' = stqCount /\ stqValid' = stqValid /\ stqCommit' = stqCommit
          /\ stqAddrValid' = stqAddrValid /\ stqData' = stqData /\ recoverFlag' = recoverFlag
          /\ speculative' = speculative /\ retired' = retired /\ headErased' = headErased
        OBVIOUS
    <2> QED BY <2>1 DEF IInv, TypeOK, Pointers, Bits, Addresses, Contents, numCommitted, erased,
                        fromHead
<1> QED BY <1>1, <1>2, <1>3, <1>4 DEF Next

\* Bits, pointers, count and contents of the queue stay one queue, through
\* any interleaving of dispatch, execution, commit, write and flush.
THEOREM Inductive == Spec => []IInv
<1>1. Init => IInv
    BY InitOK
<1>2. IInv /\ [Next]_vars => IInv'
    BY NextOK
<1> QED BY <1>1, <1>2, PTL DEF Spec

\* The pointers never leave the queue and its count never passes its size.
THEOREM Typing == Spec => []TypeOK
<1>1. IInv => TypeOK
    BY DEF IInv
<1> QED BY <1>1, Inductive, PTL

\* The bits, the pointers and the count, which a cycle and a flush compute
\* each on its own, agree for every size of the queue.
THEOREM Agreement == Spec => []QueueAgrees
<1>1. IInv => QueueAgrees
    <2> SUFFICES ASSUME IInv PROVE QueueAgrees
        OBVIOUS
    <2> DEFINE k == numCommitted
    <2>1. k \in Nat /\ 0 + k <= N /\ stqHead \in Entries
        BY Numbers, Sizes
    <2>2. \A s \in Entries : stqCommit[s] <=> fromHead(s) >= 0 /\ fromHead(s) < 0 + k
        <3>1. \A s \in Entries : fromHead(s) \in Nat
            BY Numbers, Sizes
        <3> QED BY <2>1, <3>1 DEF IInv, Bits
    <2>3. Committed = {s \in Entries : fromHead(s) >= 0 /\ fromHead(s) < 0 + k}
        BY <2>2 DEF Committed
    <2>4. Cardinality(Committed) = k
        BY <2>1, <2>3, WindowSize
    <2> QED BY <2>4, InFlightCount DEF QueueAgrees, IInv, Pointers, Bits
<1> QED BY <1>1, Inductive, PTL

\* No committed store is without its address, whatever a flush rebuilds.
THEOREM AddressKept == Spec => []CommittedHaveAddress
<1>1. IInv => CommittedHaveAddress
    BY DEF IInv, Addresses, CommittedHaveAddress, Committed
<1> QED BY <1>1, Inductive, PTL

\* The stores reach the data cache in the order of the program, each once and
\* with its own data, but for the head that a flush has written and erased.
THEOREM InOrder == Spec => WritesInOrder
<1>1. IInv => (commitSt /\ ~headErased => retired # <<>> /\ stqData[stqHead] = Head(retired))
    <2> SUFFICES ASSUME IInv, commitSt, ~headErased
                 PROVE  retired # <<>> /\ stqData[stqHead] = Head(retired)
        OBVIOUS
    <2>1. erased = 0 /\ numCommitted > 0 /\ numCommitted \in Nat /\ stqHead \in Entries
          /\ fromHead(stqHead) = 0
        BY Numbers, Sizes DEF erased
    <2>2. Len(retired) = numCommitted /\ stqData[stqHead] = retired[1] /\ retired \in Seq(Values)
        BY <2>1 DEF IInv, Contents, TypeOK
    <2> QED BY <2>1, <2>2
<1>2. IInv /\ [Next]_vars =>
          [commitSt /\ ~headErased => retired # <<>> /\ stqData[stqHead] = Head(retired)]_vars
    BY <1>1
<1> QED BY <1>2, Inductive, PTL DEF Spec, WritesInOrder
=============================================================================
