--------------------------- MODULE SyscallProofs ---------------------------
(***************************************************************************)
(* Safety of the system calls for every number of threads, every layout of *)
(* memory and every program that unlocks only what it holds: all that a    *)
(* call changes keeps its type, a lock byte in shared memory has one       *)
(* holder, the simulator's own streams stay open, a call that succeeds has *)
(* stored where its arguments say, and a break covers what was asked for   *)
(* and never shrinks.                                                      *)
(***************************************************************************)
EXTENDS Syscall, FiniteSetTheorems, WellFoundedInduction, TLAPS

Streams == {0, 1, 2}

\* The registers of a thread that waits for its call to be served.
CallRegs(r) ==
    /\ DOMAIN r = {"r2", "r3", "r4", "r5", "r6", "r7", "r29"}
    /\ r.r4 \in Nat /\ r.r5 \in Nat /\ r.r6 \in Nat /\ r.r7 \in Nat

Held(r, t) == r.r2 = Sys.unlock => r.r4 \in Locks /\ t \in holder[Cell(t, r.r4)]

ThreadsOK ==
    /\ numThreads \in 1 .. MAX_THREADS
    /\ DOMAIN phase = Threads /\ phase = [t \in Threads |-> phase[t]]
    /\ DOMAIN regs = Threads /\ regs = [t \in Threads |-> regs[t]]
    /\ DOMAIN shm = Threads /\ shm = [t \in Threads |-> shm[t]]
    /\ DOMAIN wrote = Threads /\ wrote = [t \in Threads |-> wrote[t]]
    /\ bytes \in [Cells -> {0, 1}]
    /\ holder \in [Cells -> SUBSET Threads]
    /\ program \in DOMAIN Programs

OneHolder ==
    \A a \in Locks : LET c == <<SHARED, a>> IN
        /\ \A u, v \in holder[c] : u = v
        /\ bytes[c] = 1 <=> holder[c] # {}

\* A thread that is about to unlock holds the lock: nobody else can take it from
\* it between its trap and the service of it, not even by waking it up.
UnlockersHold == \A t \in Threads : phase[t] = "trapped" => CallRegs(regs[t]) /\ Held(regs[t], t)

IInv == ThreadsOK /\ OneHolder /\ UnlockersHold /\ Streams \subseteq fds

-----------------------------------------------------------------------------

LEMMA LockCodes ==
    /\ Sys.unlock = 202 /\ Sys.test_and_set = 200
    /\ Sys.unlock \notin {0, 1}
BY DEF Sys

LEMMA ThreadNumbers == MAX_THREADS \in Nat \ {0} /\ Threads \subseteq Nat
<1>1. MAX_THREADS \in Nat \ {0}
    BY MachineAssumption
<1> QED BY <1>1 DEF Threads

LEMMA LockAddresses ==
    ASSUME NEW t \in Threads, NEW a \in Locks
    PROVE  Cell(t, a) \in Cells /\ <<SHARED, a>> \in Cells
BY DEF Cell, Cells

LEMMA InitOK == Init => IInv
<1> SUFFICES ASSUME Init PROVE IInv
    OBVIOUS
<1>1. ThreadsOK
    BY MachineAssumption DEF Init, ThreadsOK
<1>2. OneHolder
    BY DEF Init, OneHolder, Cells
<1>3. UnlockersHold
    BY DEF Init, UnlockersHold
<1> QED BY <1>1, <1>2, <1>3 DEF Init, IInv, Streams

-----------------------------------------------------------------------------
(* Calls that have nothing to do with locks and threads *)

\* Thread t is served, or the simulator ends; no lock is touched.
OtherCall(t) ==
    /\ UNCHANGED <<program, numThreads, shm, bytes, holder>>
    /\ Streams \subseteq fds => Streams \subseteq fds'
    /\ \/ UNCHANGED <<regs, phase, wrote>>
       \/ /\ phase' = [phase EXCEPT ![t] = "served"]
          /\ \E r : regs' = [regs EXCEPT ![t] = r]
          /\ \E outs : wrote' = [wrote EXCEPT ![t] = outs]
          /\ \A a \in wrote'[t] : Permitted("Write", a)
          /\ regs'[t].r7 = 0 => wrote'[t] \subseteq NamedMemory(regs[t])

LEMMA ServeIsOther ==
    ASSUME IInv, NEW t \in Threads, NEW ins, NEW outs, NEW r, NEW err,
           Serve(t, ins, outs, r, err),
           r.r7 = 0 => outs \subseteq NamedMemory(regs[t]),
           UNCHANGED <<shm, bytes, holder>>,
           Streams \subseteq fds => Streams \subseteq fds'
    PROVE  OtherCall(t)
<1>1. CASE \A a \in outs : Permitted("Write", a)
    <2>1. CASE \A a \in ins : Permitted("Read", a)
        <3>1. /\ phase' = [phase EXCEPT ![t] = "served"]
              /\ regs' = [regs EXCEPT ![t] = r] /\ wrote' = [wrote EXCEPT ![t] = outs]
              /\ UNCHANGED <<program, numThreads>>
            BY <1>1, <2>1 DEF Serve
        <3>2. regs'[t] = r /\ wrote'[t] = outs
            BY <3>1 DEF IInv, ThreadsOK
        <3> QED BY <1>1, <3>1, <3>2 DEF OtherCall
    <2>2. CASE ~\A a \in ins : Permitted("Read", a)
        BY <2>2 DEF Serve, OtherCall
    <2> QED BY <2>1, <2>2
<1>2. CASE ~\A a \in outs : Permitted("Write", a)
    BY <1>2 DEF Serve, OtherCall
<1> QED BY <1>1, <1>2

LEMMA OtherCallOK ==
    ASSUME IInv, NEW t \in Threads, OtherCall(t)
    PROVE  IInv'
<1>1. ThreadsOK'
    BY DEF IInv, ThreadsOK, OtherCall, Cells
<1>2. OneHolder'
    BY DEF IInv, OneHolder, OtherCall
<1>3. UnlockersHold'
    <2> SUFFICES ASSUME NEW w \in Threads, phase'[w] = "trapped"
                 PROVE  (CallRegs(regs[w]) /\ Held(regs[w], w))'
        BY DEF UnlockersHold
    <2>1. phase[w] = "trapped" /\ regs'[w] = regs[w]
        BY DEF IInv, ThreadsOK, OtherCall
    <2>2. CallRegs(regs[w]) /\ Held(regs[w], w)
        BY <2>1 DEF IInv, UnlockersHold
    <2> QED BY <2>1, <2>2 DEF CallRegs, Held, Cell, IsShared, OtherCall
<1> QED BY <1>1, <1>2, <1>3 DEF IInv, OtherCall

LEMMA ProxyIsOther ==
    ASSUME IInv, NEW t \in Threads, NEW ins, NEW outs, NEW vals,
           Proxy(t, ins, outs, vals), outs \subseteq NamedMemory(regs[t])
    PROVE  OtherCall(t)
<1>1. PICK a \in HostAnswers(vals) : Serve(t, ins, outs, Result(regs[t], a), a.err)
    BY DEF Proxy
<1>2. UNCHANGED <<shm, bytes, holder, fds>>
    BY DEF Proxy, memVars
<1> QED BY <1>1, <1>2, ServeIsOther

LEMMA LocalIsOther ==
    ASSUME IInv, NEW t \in Threads, NEW r, Local(t, r)
    PROVE  OtherCall(t)
<1>1. Serve(t, {}, {}, r, errno) /\ UNCHANGED <<shm, bytes, holder, fds>>
    BY DEF Local, memVars
<1>2. {} \subseteq NamedMemory(regs[t])
    OBVIOUS
<1> QED BY <1>1, <1>2, ServeIsOther

LEMMA NewFdIsOther ==
    ASSUME IInv, NEW t \in Threads, NEW ins, NewFd(t, ins)
    PROVE  OtherCall(t)
<1>1. PICK a \in HostAnswers(LowestFd) :
            Serve(t, ins, {}, Result(regs[t], a), a.err) /\ fds' = fds \cup ({a.res} \ {-1})
    BY DEF NewFd
<1>2. UNCHANGED <<shm, bytes, holder>> /\ {} \subseteq NamedMemory(regs[t])
    BY DEF NewFd, memVars
<1> QED BY <1>1, <1>2, ServeIsOther

LEMMA AbortIsOther ==
    ASSUME NEW t \in Threads, Abort
    PROVE  OtherCall(t)
BY DEF Abort, OtherCall, memVars

LEMMA Codes ==
    /\ Sys.read = 3 /\ Sys.ioctl = 54 /\ Sys.select = 93 /\ Sys.gettimeofday = 116
    /\ Sys.stat = 38 /\ Sys.lstat = 40 /\ Sys.fstat = 62 /\ Sys.getrusage = 117
    /\ Sys.getrlimit = 144 /\ Sys.setrlimit = 145
BY DEF Sys

\* The memory a call may store to, call by call.
LEMMA NamedBy ==
    ASSUME NEW r
    PROVE  /\ r.r2 = Sys.read => NamedMemory(r) = Bytes(r.r5, r.r6)
           /\ r.r2 = Sys.ioctl => NamedMemory(r) = {r.r6}
           /\ r.r2 = Sys.select => NamedMemory(r) = {r.r5, r.r6, r.r7}
           /\ r.r2 = Sys.gettimeofday => NamedMemory(r) = {r.r4, r.r5}
           /\ r.r2 \in {Sys.stat, Sys.lstat, Sys.fstat, Sys.getrusage, Sys.getrlimit, Sys.setrlimit}
                => NamedMemory(r) = {r.r5}
BY Codes DEF NamedMemory

LEMMA ResultRegs ==
    ASSUME NEW r, CallRegs(r), NEW a
    PROVE  /\ Result(r, a).r7 = IF a.res # -1 THEN 0 ELSE 1
           /\ Result(r, a).r2 = IF a.res # -1 THEN a.res ELSE a.err
           /\ Result(r, a).r5 = r.r5 /\ Result(r, a).r6 = r.r6
BY DEF Result, CallRegs

-----------------------------------------------------------------------------
(* Each call *)

LEMMA ReadOther ==
    ASSUME IInv, NEW t \in Threads, Read(t)
    PROVE  OtherCall(t)
<1> DEFINE r == regs[t]
<1>1. PICK a \in HostAnswers(0 .. r.r6) :
            Serve(t, {}, Bytes(r.r5, Result(r, a).r2), Result(r, a), a.err)
    BY DEF Read
<1>2. r.r2 = Sys.read /\ CallRegs(r) /\ UNCHANGED <<shm, bytes, holder, fds>>
    BY DEF Read, Calls, IInv, UnlockersHold, memVars
<1>3. ASSUME Result(r, a).r7 = 0
      PROVE  Bytes(r.r5, Result(r, a).r2) \subseteq NamedMemory(r)
    <2>1. Result(r, a).r2 = a.res /\ a.res \in 0 .. r.r6
        BY <1>2, <1>3, ResultRegs DEF HostAnswers
    <2>2. NamedMemory(r) = Bytes(r.r5, r.r6)
        BY <1>2, NamedBy
    <2> QED BY <1>2, <2>1, <2>2 DEF Bytes, CallRegs
<1> QED BY <1>1, <1>2, <1>3, ServeIsOther

LEMMA WriteOther ==
    ASSUME IInv, NEW t \in Threads, Write(t)
    PROVE  OtherCall(t)
<1>1. \E ins, r, err : Serve(t, ins, {}, r, err)
    BY DEF Write
<1>2. UNCHANGED <<shm, bytes, holder, fds>> /\ {} \subseteq NamedMemory(regs[t])
    BY DEF Write, memVars
<1> QED BY <1>1, <1>2, ServeIsOther

LEMMA CloseOther ==
    ASSUME IInv, NEW t \in Threads, Close(t)
    PROVE  OtherCall(t)
<1> DEFINE r == regs[t]
<1>1. CASE r.r4 \in {0, 1, 2}
    BY <1>1, LocalIsOther DEF Close
<1>2. CASE r.r4 \notin {0, 1, 2}
    <2>1. \E ins, s, err : Serve(t, ins, {}, s, err)
        BY <1>2 DEF Close
    <2>2. fds' \in {fds, fds \ {r.r4}}
        BY <1>2 DEF Close
    <2>3. UNCHANGED <<shm, bytes, holder>> /\ {} \subseteq NamedMemory(regs[t])
        BY <1>2 DEF Close, memVars
    <2>4. Streams \subseteq fds => Streams \subseteq fds'
        BY <1>2, <2>2 DEF Streams
    <2> QED BY <2>1, <2>3, <2>4, ServeIsOther
<1> QED BY <1>1, <1>2

LEMMA BrkOther ==
    ASSUME IInv, NEW t \in Threads, Brk(t)
    PROVE  OtherCall(t)
<1>1. \E ins, s, err : Serve(t, ins, {}, s, err)
    BY DEF Brk
<1>2. UNCHANGED <<shm, bytes, holder, fds>> /\ {} \subseteq NamedMemory(regs[t])
    BY DEF Brk
<1> QED BY <1>1, <1>2, ServeIsOther

LEMMA PipeOther ==
    ASSUME IInv, NEW t \in Threads, Pipe(t)
    PROVE  OtherCall(t)
<1>1. \E ins, s, err : Serve(t, ins, {}, s, err)
    BY DEF Pipe
<1>2. /\ UNCHANGED <<shm, bytes, holder>> /\ {} \subseteq NamedMemory(regs[t])
      /\ Streams \subseteq fds => Streams \subseteq fds'
    BY DEF Pipe, memVars
<1> QED BY <1>1, <1>2, ServeIsOther

LEMMA Dup2Other ==
    ASSUME IInv, NEW t \in Threads, Dup2(t)
    PROVE  OtherCall(t)
<1>1. \E ins, s, err : Serve(t, ins, {}, s, err)
    BY DEF Dup2
<1>2. /\ UNCHANGED <<shm, bytes, holder>> /\ {} \subseteq NamedMemory(regs[t])
      /\ Streams \subseteq fds => Streams \subseteq fds'
    BY DEF Dup2, memVars
<1> QED BY <1>1, <1>2, ServeIsOther

\* The third set of select is where the error flag is stored: it is only right
\* to store to it because the flag is 0, which is no address.
LEMMA SelectOther ==
    ASSUME IInv, NEW t \in Threads, Select(t)
    PROVE  OtherCall(t)
<1> DEFINE r == regs[t]
           Outs(a, timeout) == Pointed({Result(r, a).r5, Result(r, a).r6, Result(r, a).r7, timeout})
<1>1. PICK timeout \in {0, r.r5}, a \in HostAnswers({0, 1}) :
            \E ins : Serve(t, ins, Outs(a, timeout), Result(r, a), a.err)
    BY DEF Select
<1>2. r.r2 = Sys.select /\ CallRegs(r) /\ UNCHANGED <<shm, bytes, holder, fds>>
    BY DEF Select, Calls, IInv, UnlockersHold, memVars
<1>3. ASSUME Result(r, a).r7 = 0
      PROVE  Outs(a, timeout) \subseteq NamedMemory(r)
    <2>1. NamedMemory(r) = {r.r5, r.r6, r.r7}
        BY <1>2, NamedBy
    <2>2. Result(r, a).r5 = r.r5 /\ Result(r, a).r6 = r.r6
        BY <1>2, ResultRegs
    <2> QED BY <1>3, <2>1, <2>2 DEF Pointed
<1> QED BY <1>1, <1>2, <1>3, ServeIsOther

\* The others copy structures to the places they are given, or nothing.
LEMMA SimpleOther ==
    ASSUME IInv, NEW t \in Threads,
           \/ Open(t) \/ Creat(t) \/ NameCall(t) \/ Lseek(t) \/ ProcessId(t) \/ Access(t)
           \/ Stat(t) \/ Dup(t) \/ GroupId(t) \/ Ioctl(t) \/ Fstat(t) \/ Limits(t) \/ Fcntl(t)
           \/ Fsync(t) \/ Signals(t) \/ Ftruncate(t) \/ Gettimeofday(t) \/ Getrusage(t)
           \/ Writev(t) \/ Utimes(t) \/ Rlimit(t)
    PROVE  OtherCall(t)
<1>1. CASE Open(t)
    BY <1>1, NewFdIsOther, AbortIsOther DEF Open
<1>2. CASE Creat(t) \/ Dup(t) \/ (Fcntl(t) /\ NewFd(t, {}))
    BY <1>2, NewFdIsOther DEF Creat, Dup
<1>3. CASE \/ NameCall(t) \/ Lseek(t) \/ ProcessId(t) \/ Access(t) \/ GroupId(t)
           \/ Fcntl(t) /\ Proxy(t, {}, {}, {0})
           \/ Fsync(t) \/ Ftruncate(t) \/ Writev(t) \/ Utimes(t)
    <2>1. \E ins, vals : Proxy(t, ins, {}, vals)
        BY <1>3 DEF NameCall, Lseek, ProcessId, Access, GroupId, Fsync, Ftruncate, Writev, Utimes
    <2> QED BY <2>1, ProxyIsOther
<1>4. CASE Stat(t) \/ Fstat(t) \/ Getrusage(t) \/ Rlimit(t)
    <2>1. \E ins, vals : Proxy(t, ins, {regs[t].r5}, vals)
        BY <1>4 DEF Stat, Fstat, Getrusage, Rlimit
    <2>2. NamedMemory(regs[t]) = {regs[t].r5}
        BY <1>4, NamedBy DEF Stat, Fstat, Getrusage, Rlimit, Calls
    <2> QED BY <2>1, <2>2, ProxyIsOther
<1>5. CASE Ioctl(t)
    <2>1. CASE regs[t].r5 \in IoctlRequests
        <3>1. Proxy(t, Pointed({regs[t].r6}), Pointed({regs[t].r6}), {0})
            BY <1>5, <2>1 DEF Ioctl
        <3>2. Pointed({regs[t].r6}) \subseteq NamedMemory(regs[t])
            BY <1>5, NamedBy DEF Ioctl, Calls, Pointed
        <3> QED BY <3>1, <3>2, ProxyIsOther
    <2>2. CASE regs[t].r5 \notin IoctlRequests
        BY <1>5, <2>2, LocalIsOther DEF Ioctl
    <2> QED BY <2>1, <2>2
<1>6. CASE Limits(t)
    <2>1. CASE Proxy(t, {}, {}, {MaxFd + 1})
        BY <2>1, ProxyIsOther
    <2> QED BY <1>6, <2>1, LocalIsOther DEF Limits
<1>7. CASE Signals(t)
    BY <1>7, LocalIsOther DEF Signals
<1>8. CASE Gettimeofday(t)
    <2>1. \E ins, vals : Proxy(t, ins, Pointed({regs[t].r4, regs[t].r5}), vals)
        BY <1>8 DEF Gettimeofday
    <2>2. Pointed({regs[t].r4, regs[t].r5}) \subseteq NamedMemory(regs[t])
        BY <1>8, NamedBy DEF Gettimeofday, Calls, Pointed
    <2> QED BY <2>1, <2>2, ProxyIsOther
<1>9. Fcntl(t) => (Fcntl(t) /\ NewFd(t, {})) \/ (Fcntl(t) /\ Proxy(t, {}, {}, {0}))
    BY DEF Fcntl
<1> QED BY <1>1, <1>2, <1>3, <1>4, <1>5, <1>6, <1>7, <1>8, <1>9

-----------------------------------------------------------------------------
(* Threads and locks *)

\* The holder of a shared byte changes only from nobody to the caller.
LEMMA TestAndSetOK ==
    ASSUME IInv, NEW t \in Threads, TestAndSet(t)
    PROVE  IInv'
<1> DEFINE c == Cell(t, regs[t].r4)
           free == bytes[c] = 0
<1>1. /\ phase' = [phase EXCEPT ![t] = "served"]
      /\ \E r : regs' = [regs EXCEPT ![t] = r]
      /\ wrote' = [wrote EXCEPT ![t] = {}]
      /\ bytes' = [bytes EXCEPT ![c] = 1]
      /\ holder' = IF free THEN [holder EXCEPT ![c] = @ \cup {t}] ELSE holder
      /\ UNCHANGED <<program, numThreads, shm, fds>>
    BY DEF TestAndSet, Serve
<1>2. ThreadsOK'
    <2>1. holder' \in [Cells -> SUBSET Threads] /\ bytes' \in [Cells -> {0, 1}]
        BY <1>1 DEF IInv, ThreadsOK
    <2> QED BY <1>1, <2>1 DEF IInv, ThreadsOK, Cells
<1>3. OneHolder'
    <2> SUFFICES ASSUME NEW a \in Locks
                 PROVE  LET d == <<SHARED, a>> IN
                        /\ \A u, v \in holder'[d] : u = v
                        /\ bytes'[d] = 1 <=> holder'[d] # {}
        BY DEF OneHolder
    <2> DEFINE d == <<SHARED, a>>
    <2>1. d \in Cells
        BY DEF Cells, SHARED, Threads
    <2>2. (\A u, v \in holder[d] : u = v) /\ (bytes[d] = 1 <=> holder[d] # {})
        BY DEF IInv, OneHolder
    <2>3. CASE c # d
        BY <1>1, <2>1, <2>2, <2>3 DEF IInv, ThreadsOK
    <2>4. CASE c = d
        BY <1>1, <2>1, <2>2, <2>4 DEF IInv, ThreadsOK
    <2> QED BY <2>3, <2>4
<1>4. UnlockersHold'
    <2> SUFFICES ASSUME NEW w \in Threads, phase'[w] = "trapped"
                 PROVE  (CallRegs(regs[w]) /\ Held(regs[w], w))'
        BY DEF UnlockersHold
    <2>1. w # t /\ phase[w] = "trapped" /\ regs'[w] = regs[w]
        BY <1>1 DEF IInv, ThreadsOK
    <2>2. CallRegs(regs[w]) /\ Held(regs[w], w)
        BY <2>1 DEF IInv, UnlockersHold
    <2>3. \A d \in Cells : holder[d] \subseteq holder'[d]
        BY <1>1 DEF IInv, ThreadsOK
    <2>4. regs[w].r4 \in Locks => Cell(w, regs[w].r4) \in Cells
        BY LockAddresses
    <2>5. Cell(w, regs[w].r4)' = Cell(w, regs[w].r4)
        BY <1>1, <2>1 DEF Cell, IsShared
    <2> QED BY <2>1, <2>2, <2>3, <2>4, <2>5 DEF CallRegs, Held
<1> QED BY <1>1, <1>2, <1>3, <1>4 DEF IInv

\* The byte changes hands: the caller held it alone, and of the threads that
\* wakeup lets try again the first to look at a byte is the only one to get it.
LEMMA UnlockOK ==
    ASSUME IInv, NEW t \in Threads, Unlock(t)
    PROVE  IInv'
<1> DEFINE addr == regs[t].r4
           own == Cell(t, addr)
           cleared == [bytes EXCEPT ![own] = 0]
           left == [holder EXCEPT ![own] = @ \ {t}]
           won == Winners(addr, cleared)
<1>1. CASE Abort
    BY <1>1, AbortIsOther, OtherCallOK
<1>2. CASE /\ bytes' = [c \in Cells |->
                           IF \E w \in won : c = Cell(w, addr) THEN 1 ELSE cleared[c]]
           /\ holder' = [c \in Cells |-> left[c] \cup {w \in won : c = Cell(w, addr)}]
           /\ regs' = [w \in Threads |->
                          IF w \notin Waiters(addr) THEN regs[w]
                          ELSE [regs[w] EXCEPT !.r2 = IF w \in won THEN 0 ELSE 1]]
           /\ wrote' = [wrote EXCEPT ![t] = {}]
           /\ phase' = [phase EXCEPT ![t] = "served"]
           /\ UNCHANGED <<program, numThreads, shm, fds>>
    <2>1. addr \in Locks /\ own \in Cells /\ t \in holder[own]
        BY LockAddresses DEF Unlock, Calls, IInv, UnlockersHold, Held
    <2>2. won \subseteq Waiters(addr) /\ Waiters(addr) \subseteq Threads
        BY ThreadNumbers DEF Winners, Waiters, IInv, ThreadsOK, Threads
    <2>3. cleared \in [Cells -> {0, 1}] /\ left \in [Cells -> SUBSET Threads]
        BY DEF IInv, ThreadsOK
    <2>4. ThreadsOK'
        <3>1. bytes' \in [Cells -> {0, 1}]
            BY <1>2, <2>3
        <3>2. holder' \in [Cells -> SUBSET Threads]
            BY <1>2, <2>2, <2>3
        <3> QED BY <1>2, <3>1, <3>2 DEF IInv, ThreadsOK, Cells
    <2>5. ASSUME NEW w \in won, NEW v \in won, Cell(w, addr) = Cell(v, addr)
          PROVE  w = v
        <3>1. w \in Waiters(addr) /\ v \in Waiters(addr)
            BY <2>2
        <3>2. w \in Int /\ v \in Int
            <4>1. numThreads \in Int
                BY DEF IInv, ThreadsOK
            <4> QED BY <3>1, <4>1 DEF Waiters
        <3> QED BY <2>5, <3>2 DEF Winners
    <2>6. OneHolder'
        <3> SUFFICES ASSUME NEW a \in Locks
                     PROVE  LET d == <<SHARED, a>> IN
                            /\ \A u, v \in holder'[d] : u = v
                            /\ bytes'[d] = 1 <=> holder'[d] # {}
            BY DEF OneHolder
        <3> DEFINE d == <<SHARED, a>>
                   winners == {w \in won : d = Cell(w, addr)}
        <3>1. d \in Cells
            BY DEF Cells, SHARED, Threads
        <3>2. (\A u, v \in holder[d] : u = v) /\ (bytes[d] = 1 <=> holder[d] # {})
            BY DEF IInv, OneHolder
        <3>3. holder'[d] = left[d] \cup winners
            BY <1>2, <3>1
        <3>4. bytes'[d] = IF winners # {} THEN 1 ELSE cleared[d]
            <4>1. (\E w \in won : d = Cell(w, addr)) <=> winners # {}
                OBVIOUS
            <4>2. bytes'[d] = IF \E w \in won : d = Cell(w, addr) THEN 1 ELSE cleared[d]
                BY <1>2, <3>1
            <4> QED BY <4>1, <4>2
        <3>5. \A u, v \in winners : u = v
            BY <2>5
        <3> HIDE DEF winners
        <3>6. CASE d = own
            <4>1. left[d] = {} /\ cleared[d] = 0
                BY <2>1, <3>1, <3>2, <3>6 DEF IInv, ThreadsOK
            <4> QED BY <3>3, <3>4, <3>5, <4>1
        <3>7. CASE d # own
            <4>1. cleared[d] = bytes[d] /\ left[d] = holder[d] /\ bytes[d] \in {0, 1}
                BY <3>1, <3>7 DEF IInv, ThreadsOK
            <4>2. winners # {} => bytes[d] = 0
                BY <4>1 DEF Winners, winners
            <4>3. winners # {} => holder[d] = {}
                BY <3>2, <4>2
            <4> QED BY <3>2, <3>3, <3>4, <3>5, <4>1, <4>3
        <3> QED BY <3>6, <3>7
    <2>7. UnlockersHold'
        <3> SUFFICES ASSUME NEW w \in Threads, phase'[w] = "trapped"
                     PROVE  (CallRegs(regs[w]) /\ Held(regs[w], w))'
            BY DEF UnlockersHold
        <3>1. w # t /\ phase[w] = "trapped"
            BY <1>2 DEF IInv, ThreadsOK
        <3>2. CallRegs(regs[w]) /\ Held(regs[w], w)
            BY <3>1 DEF IInv, UnlockersHold
        <3>3. CASE w \in Waiters(addr)
            <4>1. \E x \in {0, 1} : regs'[w] = [regs[w] EXCEPT !.r2 = x]
                BY <1>2, <3>3
            <4>2. CallRegs(regs'[w]) /\ regs'[w].r2 \in {0, 1}
                BY <3>2, <4>1 DEF CallRegs
            <4> QED BY <4>2, LockCodes DEF CallRegs, Held
        <3>4. CASE w \notin Waiters(addr)
            <4>1. regs'[w] = regs[w]
                BY <1>2, <3>4
            <4>2. Cell(w, regs[w].r4)' = Cell(w, regs[w].r4)
                BY <1>2, <4>1 DEF Cell, IsShared
            <4>3. ASSUME regs[w].r2 = Sys.unlock
                  PROVE  w \in holder'[Cell(w, regs[w].r4)]
                <5> DEFINE e == Cell(w, regs[w].r4)
                <5>1. e \in Cells /\ w \in holder[e]
                    BY <3>2, <4>3, LockAddresses DEF Held
                <5>2. w \in left[e]
                    BY <3>1, <5>1 DEF IInv, ThreadsOK
                <5> QED BY <1>2, <5>1, <5>2
            <4> QED BY <3>2, <4>1, <4>2, <4>3 DEF CallRegs, Held
        <3> QED BY <3>3, <3>4
    <2> QED BY <1>2, <2>4, <2>6, <2>7 DEF IInv
<1> QED
    BY <1>1, <1>2 DEF Unlock

LEMMA DeclareShmemOK ==
    ASSUME IInv, NEW t \in Threads, DeclareShmem(t)
    PROVE  IInv'
<1>1. /\ phase' = [phase EXCEPT ![t] = "served"]
      /\ regs' = [regs EXCEPT ![t] = regs[t]]
      /\ wrote' = [wrote EXCEPT ![t] = {}]
      /\ \E region : shm' = [shm EXCEPT ![t] = region]
      /\ UNCHANGED <<program, numThreads, bytes, holder, fds>>
    BY DEF DeclareShmem, Serve
<1>2. ThreadsOK'
    BY <1>1 DEF IInv, ThreadsOK, Cells
<1>3. OneHolder'
    BY <1>1 DEF IInv, OneHolder
<1>4. UnlockersHold'
    <2> SUFFICES ASSUME NEW w \in Threads, phase'[w] = "trapped"
                 PROVE  (CallRegs(regs[w]) /\ Held(regs[w], w))'
        BY DEF UnlockersHold
    <2>1. w # t /\ phase[w] = "trapped" /\ regs'[w] = regs[w] /\ shm'[w] = shm[w]
        BY <1>1 DEF IInv, ThreadsOK
    <2>2. CallRegs(regs[w]) /\ Held(regs[w], w)
        BY <2>1 DEF IInv, UnlockersHold
    <2> QED BY <1>1, <2>1, <2>2 DEF CallRegs, Held, Cell, IsShared
<1> QED BY <1>1, <1>2, <1>3, <1>4 DEF IInv

LEMMA ForkOK ==
    ASSUME IInv, NEW t \in Threads, Fork(t)
    PROVE  IInv'
<1> DEFINE n == numThreads
<1>1. CASE Abort
    BY <1>1, AbortIsOther, OtherCallOK
<1>2. CASE n # MAX_THREADS
    <2>1. /\ regs' = [regs EXCEPT ![n] = regs[t]]
          /\ shm' = [shm EXCEPT ![n] = shm[t]]
          /\ bytes' = [c \in Cells |-> IF c[1] = n THEN bytes[<<t, c[2]>>] ELSE bytes[c]]
          /\ wrote' = [wrote EXCEPT ![t] = {}, ![n] = {regs[t].r4}]
          /\ numThreads' = n + 1
          /\ phase' = [phase EXCEPT ![t] = "served", ![n] = "user"]
          /\ UNCHANGED <<program, holder, fds>>
        BY <1>2 DEF Fork, NewThread, Slave
    <2>2. n \in Threads /\ n + 1 \in 1 .. MAX_THREADS /\ n # SHARED
        BY <1>2, ThreadNumbers DEF IInv, ThreadsOK, Threads, SHARED
    <2>3. \A c \in Cells : c = <<c[1], c[2]>> /\ <<t, c[2]>> \in Cells
        BY DEF Cells
    <2>4. ThreadsOK'
        <3>1. bytes' \in [Cells -> {0, 1}]
            BY <2>1, <2>3 DEF IInv, ThreadsOK
        <3> QED BY <2>1, <2>2, <3>1 DEF IInv, ThreadsOK, Cells
    <2>5. OneHolder'
        <3> SUFFICES ASSUME NEW a \in Locks
                     PROVE  bytes'[<<SHARED, a>>] = bytes[<<SHARED, a>>]
            BY <2>1 DEF OneHolder, IInv
        <3>1. <<SHARED, a>> \in Cells
            BY DEF Cells, SHARED, Threads
        <3> QED BY <2>1, <2>2, <3>1
    <2>6. UnlockersHold'
        <3> SUFFICES ASSUME NEW w \in Threads, phase'[w] = "trapped"
                     PROVE  (CallRegs(regs[w]) /\ Held(regs[w], w))'
            BY DEF UnlockersHold
        <3>1. w # n /\ phase[w] = "trapped" /\ regs'[w] = regs[w] /\ shm'[w] = shm[w]
            BY <2>1, <2>2 DEF IInv, ThreadsOK
        <3>2. CallRegs(regs[w]) /\ Held(regs[w], w)
            BY <3>1 DEF IInv, UnlockersHold
        <3> QED BY <2>1, <3>1, <3>2 DEF CallRegs, Held, Cell, IsShared
    <2> QED BY <2>1, <2>4, <2>5, <2>6 DEF IInv
<1> QED BY <1>1, <1>2 DEF Fork

\* A program traps with an unlock only when it has been told that it holds the
\* lock.
LEMMA TrapOK ==
    ASSUME IInv, NEW t \in Threads, Trap(t)
    PROVE  IInv'
<1>1. PICK q \in Programs[program][t + 1] :
            /\ Disciplined(t, q)
            /\ regs' = [regs EXCEPT ![t] = [q EXCEPT !.r3 = regs[t].r3, !.r29 = regs[t].r29]]
    BY DEF Trap
<1>2. /\ phase' = [phase EXCEPT ![t] = "trapped"] /\ wrote' = [wrote EXCEPT ![t] = {}]
      /\ UNCHANGED <<program, numThreads, shm, bytes, holder, fds>>
    BY DEF Trap, memVars
<1>3. /\ q \in [r2 : Nat, r3 : Nat, r4 : Words, r5 : Words, r6 : Words,
                r7 : Words, r29 : Words]
      /\ q.r2 \in {Sys.test_and_set, Sys.unlock} => q.r4 \in Locks
    BY ProgramsAssumption DEF IInv, ThreadsOK
<1>4. ThreadsOK'
    BY <1>1, <1>2 DEF IInv, ThreadsOK, Cells
<1>5. OneHolder'
    BY <1>2 DEF IInv, OneHolder
<1>6. UnlockersHold'
    <2> SUFFICES ASSUME NEW w \in Threads, phase'[w] = "trapped"
                 PROVE  (CallRegs(regs[w]) /\ Held(regs[w], w))'
        BY DEF UnlockersHold
    <2>1. CASE w = t
        <3>1. regs'[t] = [q EXCEPT !.r3 = regs[t].r3, !.r29 = regs[t].r29]
            BY <1>1 DEF IInv, ThreadsOK
        <3>2. CallRegs(regs'[t]) /\ regs'[t].r2 = q.r2 /\ regs'[t].r4 = q.r4
            BY <1>3, <3>1 DEF CallRegs, Words
        <3>3. Cell(t, q.r4)' = Cell(t, q.r4)
            BY <1>2 DEF Cell, IsShared
        <3> QED BY <1>1, <1>2, <1>3, <2>1, <3>2, <3>3 DEF CallRegs, Held, Disciplined
    <2>2. CASE w # t
        <3>1. phase[w] = "trapped" /\ regs'[w] = regs[w]
            BY <1>1, <1>2, <2>2 DEF IInv, ThreadsOK
        <3>2. CallRegs(regs[w]) /\ Held(regs[w], w)
            BY <3>1 DEF IInv, UnlockersHold
        <3> QED BY <1>2, <3>1, <3>2 DEF CallRegs, Held, Cell, IsShared
    <2> QED BY <2>1, <2>2
<1> QED BY <1>2, <1>4, <1>5, <1>6 DEF IInv

LEMMA ResumeOK ==
    ASSUME IInv, NEW t \in Threads, Resume(t)
    PROVE  IInv'
<1>1. /\ phase' = [phase EXCEPT ![t] = "user"]
      /\ UNCHANGED <<program, numThreads, regs, shm, bytes, holder, wrote, fds>>
    BY DEF Resume, memVars
<1>2. ThreadsOK'
    BY <1>1 DEF IInv, ThreadsOK, Cells
<1>3. OneHolder'
    BY <1>1 DEF IInv, OneHolder
<1>4. UnlockersHold'
    BY <1>1 DEF IInv, ThreadsOK, UnlockersHold, CallRegs, Held, Cell, IsShared
<1> QED BY <1>1, <1>2, <1>3, <1>4 DEF IInv

-----------------------------------------------------------------------------
(* Steps *)

LockCall(t) == TestAndSet(t) \/ Unlock(t) \/ DeclareShmem(t) \/ Fork(t)

\* A trap that is served is one of the calls above.
LEMMA TrapNowIs ==
    ASSUME IInv, NEW t \in Threads, TrapNow(t)
    PROVE  OtherCall(t) \/ LockCall(t)
<1>1. CASE Exit(t)
    BY <1>1 DEF Exit, OtherCall, memVars
<1>2. CASE Unimplemented(t) \/ NotBlocked(t)
    BY <1>2, AbortIsOther DEF Unimplemented, NotBlocked
<1>3. CASE \/ Read(t) \/ Write(t) \/ Close(t) \/ Brk(t) \/ Pipe(t) \/ Dup2(t) \/ Select(t)
    BY <1>3, ReadOther, WriteOther, CloseOther, BrkOther, PipeOther, Dup2Other, SelectOther
<1> QED BY <1>1, <1>2, <1>3, SimpleOther DEF TrapNow, LockCall

LEMMA NextOK ==
    ASSUME IInv, [Next]_vars
    PROVE  IInv'
<1>1. ASSUME NEW t \in Threads, TrapNow(t)
      PROVE  IInv'
    BY <1>1, TrapNowIs, OtherCallOK, TestAndSetOK, UnlockOK, DeclareShmemOK, ForkOK DEF LockCall
<1>2. CASE UNCHANGED vars
    <2>1. /\ UNCHANGED <<program, numThreads, shm, bytes, holder, fds, regs, phase, wrote>>
        BY <1>2 DEF vars, memVars
    <2> QED BY <2>1 DEF IInv, ThreadsOK, OneHolder, UnlockersHold, CallRegs, Held, Cell,
                        IsShared, Cells
<1> QED BY <1>1, <1>2, TrapOK, ResumeOK DEF Next

\* The invariant of this module holds in every behaviour, for any number of
\* threads, any memory layout and any programs that respect their locks.
THEOREM Inductive == Spec => []IInv
<1> QED BY InitOK, NextOK, PTL DEF Spec

\* The streams of the simulator itself survive whatever the programs close,
\* duplicate or replace (SS_SYS_close, syscall.cc).
THEOREM StreamsStayOpen == Spec => []StdStreamsOpen
<1>1. IInv => StdStreamsOpen
    BY DEF IInv, Streams, StdStreamsOpen
<1> QED BY <1>1, Inductive, PTL

\* A lock byte in shared memory is set exactly while one thread holds the lock:
\* test_and_set, unlock and wakeup exclude each other's threads.
THEOREM MutualExclusion == Spec => []LockHasOneHolder
<1>1. IInv => LockHasOneHolder
    <2>1. ASSUME NEW H, \A u, v \in H : u = v
          PROVE  Cardinality(H) <= 1
        <3>1. CASE H = {}
            <4>1. Cardinality(H) = 0
                BY <3>1, FS_EmptySet
            <4> QED BY <4>1
        <3>2. CASE H # {}
            <4>1. PICK u : u \in H
                BY <3>2
            <4>2. H = {u}
                BY <2>1, <4>1
            <4>3. Cardinality(H) = 1
                BY <4>2, FS_Singleton
            <4> QED BY <4>3
        <3> QED BY <3>1, <3>2
    <2> QED BY <2>1 DEF IInv, OneHolder, LockHasOneHolder
<1> QED BY <1>1, Inductive, PTL

-----------------------------------------------------------------------------
(* What a call stores *)

StoresWhereTold ==
    \A t \in Threads : Succeeds(t) => wrote'[t] \subseteq NamedMemory(regs[t]) \ (Text \cup {0})

LEMMA MayBeWritten ==
    ASSUME NEW a, Permitted("Write", a)
    PROVE  a \notin Text \cup {0}
<1>1. DataBase \in Nat /\ 0 < DataBase /\ Text \subseteq 1 .. DataBase - 1
    BY MachineAssumption
<1>2. a >= DataBase
    BY DEF Permitted
<1>3. a # 0
    BY <1>1, <1>2
<1>4. a \notin Text
    <2> SUFFICES ASSUME a \in 1 .. DataBase - 1
                 PROVE  FALSE
        BY <1>1
    <2> QED BY <1>1, <1>2
<1> QED BY <1>3, <1>4

LEMMA OtherStores ==
    ASSUME IInv, NEW t \in Threads, OtherCall(t)
    PROVE  StoresWhereTold
<1> SUFFICES ASSUME NEW w \in Threads, Succeeds(w)
             PROVE  wrote'[w] \subseteq NamedMemory(regs[w]) \ (Text \cup {0})
    BY DEF StoresWhereTold
<1>1. phase[w] = "trapped" /\ phase'[w] = "served" /\ regs'[w].r7 = 0
    BY DEF Succeeds, Served
<1>2. w = t
    BY <1>1 DEF OtherCall, IInv, ThreadsOK
<1>3. /\ \A a \in wrote'[t] : Permitted("Write", a)
      /\ wrote'[t] \subseteq NamedMemory(regs[t])
    BY <1>1, <1>2 DEF OtherCall
<1> QED BY <1>2, <1>3, MayBeWritten

LEMMA LockCallStores ==
    ASSUME IInv, NEW t \in Threads, LockCall(t)
    PROVE  StoresWhereTold
<1> SUFFICES ASSUME NEW w \in Threads, Succeeds(w)
             PROVE  wrote'[w] = {}
    BY DEF StoresWhereTold
<1>1. phase[w] = "trapped" /\ phase'[w] = "served"
    BY DEF Succeeds, Served
<1>2. CASE Abort
    BY <1>1, <1>2 DEF Abort
<1>3. CASE phase' = [phase EXCEPT ![t] = "served"] /\ wrote' = [wrote EXCEPT ![t] = {}]
    BY <1>1, <1>3 DEF IInv, ThreadsOK
<1>4. CASE Fork(t) /\ numThreads # MAX_THREADS
    <2>1. /\ phase' = [phase EXCEPT ![t] = "served", ![numThreads] = "user"]
          /\ wrote' = [wrote EXCEPT ![t] = {}, ![numThreads] = {regs[t].r4}]
        BY <1>4 DEF Fork, NewThread
    <2> QED BY <1>1, <2>1 DEF IInv, ThreadsOK
<1>5. CASE TestAndSet(t) \/ DeclareShmem(t)
    <2>1. phase' = [phase EXCEPT ![t] = "served"] /\ wrote' = [wrote EXCEPT ![t] = {}]
        BY <1>5 DEF TestAndSet, DeclareShmem, Serve
    <2> QED BY <1>3, <2>1
<1>6. CASE Unlock(t)
    BY <1>2, <1>3, <1>6 DEF Unlock
<1>7. CASE Fork(t)
    BY <1>2, <1>4, <1>7 DEF Fork
<1> QED BY <1>5, <1>6, <1>7 DEF LockCall

\* A call that reports success has stored only to the memory its arguments name
\* (syscall.cc): not beyond it, not to the text, not to address 0.
THEOREM StoresNamed == Spec => OnlyNamedMemory
<1>1. ASSUME IInv, Next
      PROVE  StoresWhereTold
    <2>1. ASSUME NEW t \in Threads, Trap(t) \/ Resume(t)
          PROVE  StoresWhereTold
        <3>1. \E p \in {"trapped", "user"} : phase' = [phase EXCEPT ![t] = p]
            BY <2>1 DEF Trap, Resume
        <3>2. \A w \in Threads : ~Served(w)
            BY <1>1, <3>1 DEF IInv, ThreadsOK, Served
        <3> QED BY <3>2 DEF StoresWhereTold, Succeeds
    <2>2. ASSUME NEW t \in Threads, TrapNow(t)
          PROVE  StoresWhereTold
        BY <1>1, <2>2, TrapNowIs, OtherStores, LockCallStores
    <2> QED BY <1>1, <2>1, <2>2 DEF Next
<1>2. IInv /\ [Next]_vars => [StoresWhereTold]_vars
    BY <1>1
<1> QED BY <1>2, Inductive, PTL DEF Spec, OnlyNamedMemory, StoresWhereTold
-----------------------------------------------------------------------------
(* Types *)

Breaks == {a \in Words : a > 0 /\ a % Page = 0}

Statuses == {"running", "exited", "aborted"}

\* A lock that is asked for is one of the Locks, and no break has wrapped
\* around to 0.
LocksNamed ==
    \A t \in Threads :
        phase[t] = "trapped" /\ regs[t].r2 = Sys.test_and_set => regs[t].r4 \in Locks
BreaksInPlace == brk \in [Threads -> Breaks]

TypeInv == IInv /\ TypeOK /\ LocksNamed /\ BreaksInPlace

\* The part of TypeOK that speaks of one thread.
ThreadType(t) ==
    /\ phase[t] \in {"none", "user", "trapped", "served"}
    /\ phase[t] = "none" <=> t >= numThreads
    /\ regs[t] \in Registers
    /\ brk[t] \in 0 .. AddrSpace - 1 /\ brk[t] % Page = 0
    /\ shm[t] \in [base : Nat, end : Nat]
    /\ wrote[t] \subseteq 0 .. AddrSpace

LEMMA Layout ==
    /\ Page \in Nat /\ Page > 0 /\ AddrSpace \in Nat /\ AddrSpace % Page = 0
    /\ DataBase \in Nat /\ DataEnd \in Nat /\ StackBase \in Nat
    /\ 0 < DataBase /\ DataBase <= DataEnd /\ DataEnd < StackBase /\ StackBase < AddrSpace
    /\ DataEnd + Page <= AddrSpace /\ Page <= AddrSpace /\ AddrSpace > 2
    /\ MaxFd \in Nat /\ MaxFd >= 2 /\ Errnos \subseteq Nat /\ ENOMEM \in Nat
    /\ Locks \subseteq Words
<1>1. /\ Page \in Nat /\ Page > 0 /\ AddrSpace \in Nat /\ AddrSpace % Page = 0
      /\ DataBase \in Nat /\ DataEnd \in Nat /\ StackBase \in Nat
      /\ 0 < DataBase /\ DataBase <= DataEnd /\ DataEnd < StackBase /\ StackBase < AddrSpace
      /\ DataEnd + Page <= AddrSpace
      /\ MaxFd \in Nat /\ MaxFd >= 2 /\ Errnos \subseteq Nat /\ ENOMEM \in Nat
      /\ Locks \subseteq DataBase .. StackBase - 1
    BY MachineAssumption
<1>2. Page <= AddrSpace
    BY <1>1
<1>3. Locks \subseteq Words
    BY <1>1 DEF Words
<1> QED BY <1>1, <1>2, <1>3

\* The remainder is what is left of a number after full pages.
LEMMA PageRemainder ==
    ASSUME NEW n \in Nat
    PROVE  /\ n % Page \in 0 .. Page - 1 /\ n % Page <= n
           /\ (n - (n % Page)) % Page = 0
           /\ n < Page => n % Page = n
<1>1. Page \in Nat /\ Page > 0
    BY Layout
<1> DEFINE q == n \div Page
           r == n % Page
<1>2. q \in Nat /\ r \in 0 .. Page - 1 /\ n = Page * q + r
    BY <1>1
<1>3. n - r = Page * q
    BY <1>1, <1>2
<1>4. (Page * q) % Page = 0
    <2> DEFINE d == (Page * q) \div Page
               e == (Page * q) % Page
    <2>1. Page * q \in Nat
        BY <1>1, <1>2
    <2>2. d \in Int /\ e \in 0 .. Page - 1 /\ Page * q = Page * d + e
        BY <1>1, <2>1
    <2>3. q \in Nat
        BY <1>2
    <2> HIDE DEF d, e, q
    <2>4. e = Page * (q - d)
        BY <1>1, <2>2, <2>3
    <2>5. ~ (q - d >= 1)
        <3>1. q - d >= 1 => Page * (q - d) >= Page
            BY <1>1, <2>2, <2>3
        <3> QED BY <1>1, <2>2, <2>4, <3>1
    <2>6. ~ (q - d <= -1)
        <3>1. q - d <= -1 => Page * (q - d) <= Page * (-1)
            BY <1>1, <2>2, <2>3
        <3> QED BY <1>1, <2>2, <2>4, <3>1
    <2>7. q - d = 0
        BY <2>2, <2>3, <2>5, <2>6
    <2>9. e = 0
        BY <1>1, <2>4, <2>7
    <2> QED BY <2>9, Zenon DEF e
<1>5. r <= n
    BY <1>1, <1>2
<1>6. n < Page => n % Page = n
    BY <1>1
<1> QED BY <1>2, <1>3, <1>4, <1>5, <1>6

\* Rounding up goes to a page and past the address, unless it wraps to 0.
LEMMA Rounding ==
    ASSUME NEW n \in Words
    PROVE  /\ RoundUp(n) \in Words /\ RoundUp(n) % Page = 0
           /\ RoundUp(n) > 0 => RoundUp(n) >= n
           /\ n > 0 /\ n + Page <= AddrSpace => RoundUp(n) > 0
<1> DEFINE s == (n + Page - 1) % AddrSpace
<1>1. /\ Page \in Nat /\ Page > 0 /\ AddrSpace \in Nat /\ Page <= AddrSpace
      /\ n \in Nat /\ n < AddrSpace
    BY Layout DEF Words
<1>2. s = IF n + Page - 1 < AddrSpace THEN n + Page - 1 ELSE n + Page - 1 - AddrSpace
    BY <1>1
<1>3. s \in Nat /\ s < AddrSpace
    BY <1>1, <1>2
<1>4. RoundUp(n) = s - (s % Page)
    BY DEF RoundUp
<1> HIDE DEF s
<1>5. /\ s % Page \in 0 .. Page - 1 /\ s % Page <= s
      /\ (s - (s % Page)) % Page = 0
      /\ s < Page => s % Page = s
    BY <1>3, PageRemainder
<1>6. RoundUp(n) \in Words /\ RoundUp(n) % Page = 0
    BY <1>1, <1>3, <1>4, <1>5 DEF Words
<1>7. CASE n + Page - 1 < AddrSpace
    BY <1>1, <1>2, <1>4, <1>5, <1>6, <1>7 DEF Words
<1>8. CASE n + Page - 1 >= AddrSpace
    <2>1. s < Page
        BY <1>1, <1>2, <1>8
    <2> QED BY <1>1, <1>3, <1>4, <1>5, <1>6, <1>8, <2>1
<1> QED BY <1>1, <1>6, <1>7, <1>8

LEMMA InitTyped == Init => TypeInv
<1> SUFFICES ASSUME Init PROVE TypeInv
    OBVIOUS
<1>1. IInv
    BY InitOK
<1>2. RoundUp(DataEnd) \in Breaks
    <2>1. DataEnd \in Words /\ DataEnd > 0 /\ DataEnd + Page <= AddrSpace
        BY Layout DEF Words
    <2> QED BY <2>1, Rounding DEF Breaks
<1>3. BreaksInPlace
    BY <1>2 DEF Init, BreaksInPlace
<1>4. ASSUME NEW t \in Threads PROVE ThreadType(t)
    <2>1. NoRegs \in Registers
        BY Layout DEF NoRegs, Registers, Words
    <2>2. t \in Nat
        BY ThreadNumbers
    <2>3. brk[t] \in Breaks
        BY <1>3 DEF BreaksInPlace
    <2>4. regs[t] \in Registers /\ shm[t] \in [base : Nat, end : Nat] /\ wrote[t] = {}
        BY <2>1 DEF Init
    <2>5. phase[t] = (IF t = 0 THEN "user" ELSE "none") /\ numThreads = 1
        BY DEF Init
    <2> QED BY <2>2, <2>3, <2>4, <2>5 DEF ThreadType, Breaks, Words
<1>5. /\ numThreads \in 1 .. MAX_THREADS
      /\ blocked \in [Threads -> BOOLEAN]
      /\ lockaddr \in [Threads -> Locks \cup {0}]
      /\ bytes \in [Cells -> {0, 1}] /\ holder \in [Cells -> SUBSET Threads]
      /\ errno \in Errnos \cup {0} /\ status \in {"running", "exited", "aborted"}
    BY <1>1 DEF Init, IInv, ThreadsOK
<1>6. fds \subseteq 0 .. MaxFd
    BY Layout DEF Init
<1>7. TypeOK
    BY <1>4, <1>5, <1>6 DEF TypeOK, ThreadType
<1>8. LocksNamed
    BY DEF Init, LocksNamed
<1> QED BY <1>1, <1>3, <1>7, <1>8 DEF TypeInv

\* Thread t is served, or the simulator ends, and what is written has its type.
TypedServe(t) ==
    /\ UNCHANGED <<program, numThreads>>
    /\ errno' \in Errnos \cup {0}
    /\ status' \in Statuses
    /\ \/ UNCHANGED <<regs, phase, wrote>>
       \/ /\ phase' = [phase EXCEPT ![t] = "served"]
          /\ \E r \in Registers : regs' = [regs EXCEPT ![t] = r]
          /\ \E outs \in SUBSET (0 .. AddrSpace) : wrote' = [wrote EXCEPT ![t] = outs]

\* A call that is not about locks or threads.
TypedCall(t) ==
    /\ TypedServe(t)
    /\ UNCHANGED <<shm, bytes, holder, blocked, lockaddr>>
    /\ brk' = brk \/ \E b \in Breaks : b >= brk[t] /\ brk' = [brk EXCEPT ![t] = b]
    /\ fds' \subseteq 0 .. MaxFd

LEMMA RegistersOf ==
    ASSUME TypeInv, NEW t \in Threads
    PROVE  /\ regs[t] \in Registers /\ DOMAIN regs[t] = {"r2", "r3", "r4", "r5", "r6", "r7", "r29"}
           /\ regs[t].r2 \in Int /\ regs[t].r3 \in Int
           /\ regs[t].r4 \in Nat /\ regs[t].r5 \in Nat /\ regs[t].r6 \in Nat
           /\ regs[t].r7 \in Nat /\ regs[t].r29 \in Nat
BY DEF TypeInv, TypeOK, Registers, Words

LEMMA ServeTyped ==
    ASSUME TypeInv, NEW t \in Threads, NEW ins, NEW outs, NEW r, NEW err,
           Serve(t, ins, outs, r, err),
           r \in Registers, outs \subseteq Int, err \in Errnos \cup {0}
    PROVE  TypedServe(t)
<1>1. errno \in Errnos \cup {0} /\ status \in Statuses
    BY DEF TypeInv, TypeOK, Statuses
<1>2. CASE \A a \in outs : Permitted("Write", a)
    <2>1. outs \subseteq 0 .. AddrSpace
        <3> SUFFICES ASSUME NEW a \in outs PROVE a \in 0 .. AddrSpace
            OBVIOUS
        <3>1. a \in Int /\ a >= DataBase /\ a < StackBase
            BY <1>2 DEF Permitted
        <3> QED BY <3>1, Layout
    <2> QED BY <1>1, <2>1 DEF Serve, TypedServe, Statuses
<1>3. CASE ~\A a \in outs : Permitted("Write", a)
    BY <1>1, <1>3 DEF Serve, TypedServe, Statuses
<1> QED BY <1>2, <1>3

LEMMA AbortTyped ==
    ASSUME TypeInv, NEW t \in Threads, Abort
    PROVE  TypedCall(t)
BY DEF Abort, TypedCall, TypedServe, Statuses, TypeInv, TypeOK, memVars, lockVars

LEMMA SmallWords == 0 \in Words /\ 1 \in Words /\ Errnos \cup {0} \subseteq Int /\ ENOMEM \in Int
<1>1. AddrSpace \in Nat /\ AddrSpace > 2 /\ Errnos \subseteq Nat /\ ENOMEM \in Nat
    BY Layout
<1> QED BY <1>1 DEF Words

\* The two registers a call answers in.
LEMMA Answer ==
    ASSUME NEW r \in Registers, NEW x \in Int, NEW y \in {0, 1}
    PROVE  /\ [r EXCEPT !.r2 = x, !.r7 = y] \in Registers
           /\ [r EXCEPT !.r2 = x, !.r7 = y].r7 = y
<1>1. y \in Words
    BY SmallWords
<1> QED BY <1>1 DEF Registers

LEMMA ResultTyped ==
    ASSUME TypeInv, NEW r \in Registers, NEW vals, vals \subseteq Int, NEW a \in HostAnswers(vals)
    PROVE  Result(r, a) \in Registers /\ a.err \in Errnos \cup {0} /\ a.res \in vals \cup {-1}
<1>1. a.res \in Int /\ a.err \in Errnos \cup {0} /\ a.res \in vals \cup {-1}
    <2>1. errno \in Errnos \cup {0}
        BY DEF TypeInv, TypeOK
    <2>2. \/ a.res \in vals /\ a.err = errno
          \/ a.res = -1 /\ a.err \in Errnos
        BY DEF HostAnswers
    <2>3. a.err \in Errnos \cup {0}
        BY <2>1, <2>2
    <2>4. a.res \in vals \cup {-1}
        BY <2>2
    <2>5. -1 \in Int
        OBVIOUS
    <2> QED BY <2>3, <2>4, <2>5
<1>2. a.err \in Int /\ 0 \in Words /\ 1 \in Words
    BY <1>1, SmallWords
<1>3. CASE a.res # -1
    <2>1. Result(r, a) = [r EXCEPT !.r2 = a.res, !.r7 = 0]
        BY <1>3 DEF Result
    <2> QED BY <1>1, <1>2, <2>1 DEF Registers
<1>4. CASE a.res = -1
    <2>1. Result(r, a) = [r EXCEPT !.r2 = a.err, !.r7 = 1]
        BY <1>4 DEF Result
    <2> QED BY <1>1, <1>2, <2>1 DEF Registers
<1> QED BY <1>3, <1>4

LEMMA DescriptorsOK == TypeInv => fds \subseteq 0 .. MaxFd
BY DEF TypeInv, TypeOK

LEMMA ProxyTyped ==
    ASSUME TypeInv, NEW t \in Threads, NEW ins, NEW outs, NEW vals,
           Proxy(t, ins, outs, vals), outs \subseteq Int, vals \subseteq Int
    PROVE  TypedCall(t)
<1>1. PICK a \in HostAnswers(vals) : Serve(t, ins, outs, Result(regs[t], a), a.err)
    BY DEF Proxy
<1>2. UNCHANGED <<brk, shm, bytes, holder, blocked, lockaddr, fds>>
    BY DEF Proxy, memVars, lockVars
<1>3. Result(regs[t], a) \in Registers /\ a.err \in Errnos \cup {0}
    BY RegistersOf, ResultTyped
<1>4. TypedServe(t)
    BY <1>1, <1>3, ServeTyped
<1> QED BY <1>2, <1>4, DescriptorsOK DEF TypedCall

LEMMA LocalTyped ==
    ASSUME TypeInv, NEW t \in Threads, NEW r \in Registers, Local(t, r)
    PROVE  TypedCall(t)
<1>1. Serve(t, {}, {}, r, errno) /\ UNCHANGED <<brk, shm, bytes, holder, blocked, lockaddr, fds>>
    BY DEF Local, memVars, lockVars
<1>2. errno \in Errnos \cup {0} /\ {} \subseteq Int
    BY DEF TypeInv, TypeOK
<1>3. TypedServe(t)
    BY <1>1, <1>2, ServeTyped
<1> QED BY <1>1, <1>3, DescriptorsOK DEF TypedCall

\* A set of descriptors has a lowest one.
LEMMA MinOfDescriptors ==
    ASSUME NEW S \in SUBSET (0 .. MaxFd), S # {}
    PROVE  Min(S) \in S
<1>1. \E x \in S : \A y \in S : x <= y
    <2> DEFINE R == {ss \in Nat \X Nat : ss[1] < ss[2]}
    <2>1. IsWellFoundedOn(R, Nat)
        BY NatLessThanWellFounded DEF OpToRel
    <2>2. S \subseteq Nat
        OBVIOUS
    <2>3. PICK x \in S : \A y \in S : ~ (<<y, x>> \in R)
        <3> HIDE DEF R
        <3> QED BY <2>1, <2>2, WFMin, Zenon
    <2>4. ASSUME NEW y \in S PROVE x <= y
        <3>1. ~ (y < x) /\ x \in Nat /\ y \in Nat
            BY <2>2, <2>3
        <3> QED BY <3>1
    <2> QED BY <2>4
<1> QED BY <1>1 DEF Min

LEMMA LowestTyped == LowestFd \subseteq 0 .. MaxFd
<1>1. FreeFds \in SUBSET (0 .. MaxFd)
    BY DEF FreeFds
<1>2. FreeFds # {} => Min(FreeFds) \in FreeFds
    BY <1>1, MinOfDescriptors
<1> QED BY <1>1, <1>2 DEF LowestFd

LEMMA NewFdTyped ==
    ASSUME TypeInv, NEW t \in Threads, NEW ins, NewFd(t, ins)
    PROVE  TypedCall(t)
<1>1. PICK a \in HostAnswers(LowestFd) :
            Serve(t, ins, {}, Result(regs[t], a), a.err) /\ fds' = fds \cup ({a.res} \ {-1})
    BY DEF NewFd
<1>2. UNCHANGED <<brk, shm, bytes, holder, blocked, lockaddr>>
    BY DEF NewFd, memVars, lockVars
<1>3. LowestFd \subseteq 0 .. MaxFd /\ LowestFd \subseteq Int /\ {} \subseteq Int
    BY LowestTyped
<1>4. /\ Result(regs[t], a) \in Registers /\ a.err \in Errnos \cup {0}
      /\ a.res \in LowestFd \cup {-1}
    BY <1>3, RegistersOf, ResultTyped
<1>5. TypedServe(t)
    BY <1>1, <1>3, <1>4, ServeTyped
<1> QED BY <1>1, <1>2, <1>3, <1>4, <1>5, DescriptorsOK DEF TypedCall

LEMMA ReadTyped ==
    ASSUME TypeInv, NEW t \in Threads, Read(t)
    PROVE  TypedCall(t)
<1> DEFINE r == regs[t]
<1>1. PICK a \in HostAnswers(0 .. r.r6) :
            Serve(t, {}, Bytes(r.r5, Result(r, a).r2), Result(r, a), a.err)
    BY DEF Read
<1>2. UNCHANGED <<brk, shm, bytes, holder, blocked, lockaddr, fds>>
    BY DEF Read, memVars, lockVars
<1>3. 0 .. r.r6 \subseteq Int
    OBVIOUS
<1>4. Result(r, a) \in Registers /\ a.err \in Errnos \cup {0}
    BY <1>3, RegistersOf, ResultTyped
<1>5. Bytes(r.r5, Result(r, a).r2) \subseteq Int
    BY DEF Bytes
<1>6. TypedServe(t)
    BY <1>1, <1>4, <1>5, ServeTyped
<1> QED BY <1>2, <1>6, DescriptorsOK DEF TypedCall

LEMMA WriteTyped ==
    ASSUME TypeInv, NEW t \in Threads, Write(t)
    PROVE  TypedCall(t)
<1> DEFINE r == regs[t]
           After(a) == [r EXCEPT !.r2 = IF a.res = r.r6 THEN a.res ELSE a.err,
                                 !.r7 = IF a.res = r.r6 THEN 0 ELSE 1]
<1>1. PICK a \in HostAnswers(0 .. r.r6) : Serve(t, Bytes(r.r5, r.r6), {}, After(a), a.err)
    BY DEF Write
<1>2. UNCHANGED <<brk, shm, bytes, holder, blocked, lockaddr, fds>>
    BY DEF Write, memVars, lockVars
<1>3. a.err \in Errnos \cup {0} /\ a.res \in Int
    <2>1. 0 .. r.r6 \subseteq Int
        OBVIOUS
    <2> QED BY <2>1, RegistersOf, ResultTyped
<1>4. After(a) \in Registers
    <2>1. a.err \in Int /\ 0 \in Words /\ 1 \in Words
        BY <1>3, SmallWords
    <2>2. PICK x \in Int, y \in {0, 1} : After(a) = [r EXCEPT !.r2 = x, !.r7 = y]
        BY <1>3, <2>1
    <2>3. r \in Registers
        BY RegistersOf
    <2> HIDE DEF After, r
    <2> QED BY <2>1, <2>2, <2>3 DEF Registers
<1>5. TypedServe(t)
    <2> HIDE DEF After
    <2> QED BY <1>1, <1>3, <1>4, ServeTyped
<1> QED BY <1>2, <1>5, DescriptorsOK DEF TypedCall

LEMMA CloseTyped ==
    ASSUME TypeInv, NEW t \in Threads, Close(t)
    PROVE  TypedCall(t)
<1> DEFINE r == regs[t]
           closes == {0} \cap {IF r.r4 \in fds THEN 0 ELSE 1}
<1>1. r \in Registers /\ [r EXCEPT !.r7 = 0] \in Registers
    <2>1. 0 \in Words
        BY SmallWords
    <2>2. r \in Registers
        BY RegistersOf
    <2> QED BY <2>1, <2>2 DEF Registers
<1>2. CASE r.r4 \in {0, 1, 2}
    BY <1>1, <1>2, LocalTyped DEF Close
<1>3. CASE r.r4 \notin {0, 1, 2}
    <2>1. PICK a \in HostAnswers(closes) :
                /\ Serve(t, {}, {}, Result(r, a), a.err)
                /\ fds' = IF a.res = 0 THEN fds \ {r.r4} ELSE fds
        BY <1>3 DEF Close
    <2>2. UNCHANGED <<brk, shm, bytes, holder, blocked, lockaddr>>
        BY <1>3 DEF Close, memVars, lockVars
    <2>3. closes \subseteq Int
        OBVIOUS
    <2> HIDE DEF closes
    <2>4. Result(r, a) \in Registers /\ a.err \in Errnos \cup {0}
        BY <1>1, <2>3, ResultTyped
    <2>5. TypedServe(t)
        BY <2>1, <2>4, ServeTyped
    <2>6. fds' \subseteq 0 .. MaxFd
        BY <2>1, DescriptorsOK
    <2> QED BY <2>2, <2>5, <2>6 DEF TypedCall
<1> QED BY <1>2, <1>3

\* A break that is granted lies above the old one and below the stack.
LEMMA BrkTyped ==
    ASSUME TypeInv, NEW t \in Threads, Brk(t)
    PROVE  /\ TypedCall(t)
           /\ brk'[t] >= brk[t]
           /\ regs'[t].r7 = 0 => brk'[t] >= regs[t].r4 /\ brk'[t] < regs[t].r29
           /\ \A u \in Threads \ {t} : brk'[u] = brk[u]
<1> DEFINE r == regs[t]
           addr == RoundUp(r.r4)
           fits == addr >= brk[t] /\ addr < r.r29
           after == [r EXCEPT !.r2 = IF fits THEN 0 ELSE ENOMEM, !.r7 = IF fits THEN 0 ELSE 1]
<1>1. /\ Serve(t, {}, {}, after, errno)
      /\ brk' = IF fits THEN [brk EXCEPT ![t] = addr] ELSE brk
      /\ UNCHANGED <<shm, bytes, holder, blocked, lockaddr, fds>>
    BY DEF Brk, lockVars
<1>2. brk \in [Threads -> Breaks] /\ brk[t] \in Int /\ brk[t] > 0
    BY DEF TypeInv, BreaksInPlace, Breaks, Words
<1>3. r \in Registers /\ r.r4 \in Words /\ r.r29 \in Nat
    BY RegistersOf DEF Registers
<1>4. addr \in Words /\ addr % Page = 0 /\ (addr > 0 => addr >= r.r4)
    BY <1>3, Rounding
<1> HIDE DEF addr
<1>5. fits => addr \in Breaks /\ addr >= r.r4
    BY <1>2, <1>4 DEF Breaks, Words
<1>6. after \in Registers /\ (~fits => after.r7 = 1)
    <2>1. ENOMEM \in Int /\ 0 \in Words /\ 1 \in Words
        BY SmallWords
    <2>2. r \in Registers /\ 0 \in Int /\ 0 \in {0, 1} /\ 1 \in {0, 1}
        BY <1>3
    <2>3. CASE fits
        <3>1. after = [r EXCEPT !.r2 = 0, !.r7 = 0]
            <4> HIDE DEF fits
            <4> QED BY <2>3, Zenon
        <3>2. [r EXCEPT !.r2 = 0, !.r7 = 0] \in Registers
            <4> HIDE DEF r
            <4> QED BY <2>2, Answer
        <3> QED BY <2>3, <3>1, <3>2, Zenon
    <2>4. CASE ~fits
        <3>1. after = [r EXCEPT !.r2 = ENOMEM, !.r7 = 1]
            <4> HIDE DEF fits
            <4> QED BY <2>4, Zenon
        <3>2. /\ [r EXCEPT !.r2 = ENOMEM, !.r7 = 1] \in Registers
              /\ [r EXCEPT !.r2 = ENOMEM, !.r7 = 1].r7 = 1
            <4> HIDE DEF r
            <4> QED BY <2>1, <2>2, Answer
        <3> QED BY <3>1, <3>2, Zenon
    <2> QED BY <2>3, <2>4
<1>7. brk' = brk \/ \E b \in Breaks : b >= brk[t] /\ brk' = [brk EXCEPT ![t] = b]
    BY <1>1, <1>5
<1>8. TypedServe(t)
    <2>1. errno \in Errnos \cup {0} /\ {} \subseteq Int
        BY DEF TypeInv, TypeOK
    <2> HIDE DEF after
    <2> QED BY <1>1, <1>6, <2>1, ServeTyped
<1>9. TypedCall(t)
    BY <1>1, <1>7, <1>8, DescriptorsOK DEF TypedCall
<1>10. regs'[t].r7 = 0 => fits
    <2>1. regs' = [regs EXCEPT ![t] = after]
        BY <1>1 DEF Serve
    <2>2. regs'[t] = after
        BY <2>1 DEF TypeInv, IInv, ThreadsOK
    <2> HIDE DEF after, fits
    <2> QED BY <1>6, <2>2
<1>11. fits => brk'[t] = addr
    BY <1>1, <1>2
<1>12. ~fits => brk' = brk
    BY <1>1
<1>13. \A u \in Threads \ {t} : brk'[u] = brk[u]
    BY <1>1, <1>2
<1> QED BY <1>2, <1>5, <1>9, <1>10, <1>11, <1>12, <1>13

\* pipe answers in a third one.
LEMMA TwoAnswers ==
    ASSUME NEW r \in Registers, NEW x \in Int, NEW z \in Int, NEW y \in {0, 1}
    PROVE  [r EXCEPT !.r2 = x, !.r3 = z, !.r7 = y] \in Registers
<1>1. y \in Words
    BY SmallWords
<1> QED BY <1>1 DEF Registers

LEMMA PipeTyped ==
    ASSUME TypeInv, NEW t \in Threads, Pipe(t)
    PROVE  TypedCall(t)
<1> DEFINE r == regs[t]
<1>1. UNCHANGED <<brk, shm, bytes, holder, blocked, lockaddr>>
    BY DEF Pipe, memVars, lockVars
<1>2. r \in Registers /\ {} \subseteq Int /\ 0 \in Int /\ 0 \in Words /\ 1 \in Words
    BY RegistersOf, SmallWords
<1>3. CASE /\ ~ (Cardinality(FreeFds) < 2)
           /\ Serve(t, {r.r4}, {},
                    [r EXCEPT !.r2 = Min(FreeFds), !.r3 = Min(FreeFds \ {Min(FreeFds)}), !.r7 = 0],
                    errno)
           /\ fds' = fds \cup {Min(FreeFds), Min(FreeFds \ {Min(FreeFds)})}
    <2> DEFINE x == Min(FreeFds)
               y == Min(FreeFds \ {Min(FreeFds)})
    <2>1. FreeFds \in SUBSET (0 .. MaxFd)
        BY DEF FreeFds
    <2>2. FreeFds # {}
        <3> SUFFICES ASSUME FreeFds = {} PROVE FALSE
            OBVIOUS
        <3>1. Cardinality(FreeFds) = 0
            BY FS_EmptySet
        <3> QED BY <1>3, <3>1
    <2>3. x \in FreeFds
        BY <2>1, <2>2, MinOfDescriptors
    <2>4. FreeFds \ {x} # {}
        <3> SUFFICES ASSUME FreeFds \ {x} = {} PROVE FALSE
            OBVIOUS
        <3>1. FreeFds = {x}
            BY <2>3
        <3>2. Cardinality(FreeFds) = 1
            BY <3>1, FS_Singleton
        <3> QED BY <1>3, <3>2
    <2>5. y \in FreeFds \ {x}
        BY <2>1, <2>4, MinOfDescriptors
    <2>6. x \in 0 .. MaxFd /\ y \in 0 .. MaxFd
        BY <2>1, <2>3, <2>5
    <2> HIDE DEF x, y
    <2>7. [r EXCEPT !.r2 = x, !.r3 = y, !.r7 = 0] \in Registers
        <3>1. x \in Int /\ y \in Int /\ 0 \in {0, 1}
            BY <2>6
        <3> HIDE DEF r
        <3> QED BY <1>2, <3>1, TwoAnswers
    <2>8. errno \in Errnos \cup {0}
        BY DEF TypeInv, TypeOK
    <2>9. TypedServe(t)
        BY <1>2, <1>3, <2>7, <2>8, ServeTyped DEF x, y
    <2>10. fds' \subseteq 0 .. MaxFd
        BY <1>3, <2>6, DescriptorsOK DEF x, y
    <2> QED BY <1>1, <2>9, <2>10 DEF TypedCall
<1>4. CASE \E err \in Errnos :
                /\ Serve(t, {r.r4}, {}, [r EXCEPT !.r2 = err, !.r3 = 0, !.r7 = 1], err)
                /\ UNCHANGED fds
    <2>1. PICK err \in Errnos :
                /\ Serve(t, {r.r4}, {}, [r EXCEPT !.r2 = err, !.r3 = 0, !.r7 = 1], err)
                /\ UNCHANGED fds
        BY <1>4
    <2>2. err \in Int
        BY SmallWords
    <2>3. [r EXCEPT !.r2 = err, !.r3 = 0, !.r7 = 1] \in Registers
        <3>1. 1 \in {0, 1}
            OBVIOUS
        <3> HIDE DEF r
        <3> QED BY <1>2, <2>2, <3>1, TwoAnswers
    <2>4. TypedServe(t)
        BY <1>2, <2>1, <2>3, ServeTyped
    <2> QED BY <1>1, <2>1, <2>4, DescriptorsOK DEF TypedCall
<1>5. CASE \E e \in IF Cardinality(FreeFds) < 2 THEN {}
                     ELSE {<<Min(FreeFds), Min(FreeFds \ {Min(FreeFds)})>>} :
                /\ Serve(t, {r.r4}, {}, [r EXCEPT !.r2 = e[1], !.r3 = e[2], !.r7 = 0], errno)
                /\ fds' = fds \cup {e[1], e[2]}
    <2>1. ~ (Cardinality(FreeFds) < 2)
        BY <1>5
    <2>2. LET e == <<Min(FreeFds), Min(FreeFds \ {Min(FreeFds)})>> IN
          /\ Serve(t, {r.r4}, {}, [r EXCEPT !.r2 = e[1], !.r3 = e[2], !.r7 = 0], errno)
          /\ fds' = fds \cup {e[1], e[2]}
        BY <1>5, <2>1
    <2> QED BY <1>3, <2>1, <2>2
<1> QED BY <1>4, <1>5 DEF Pipe

LEMMA Dup2Typed ==
    ASSUME TypeInv, NEW t \in Threads, Dup2(t)
    PROVE  TypedCall(t)
<1> DEFINE r == regs[t]
           gives == IF r.r4 \in fds /\ r.r5 \in 0 .. MaxFd THEN {r.r5} ELSE {}
<1>1. PICK a \in HostAnswers(gives) :
            /\ Serve(t, {}, {}, Result(r, a), a.err)
            /\ fds' = fds \cup ({a.res} \ {-1})
    BY DEF Dup2
<1>2. UNCHANGED <<brk, shm, bytes, holder, blocked, lockaddr>>
    BY DEF Dup2, memVars, lockVars
<1>3. gives \subseteq 0 .. MaxFd /\ gives \subseteq Int
    OBVIOUS
<1> HIDE DEF gives
<1>4. Result(r, a) \in Registers /\ a.err \in Errnos \cup {0} /\ a.res \in gives \cup {-1}
    BY <1>3, RegistersOf, ResultTyped
<1>5. TypedServe(t)
    BY <1>1, <1>4, ServeTyped
<1> QED BY <1>1, <1>2, <1>3, <1>4, <1>5, DescriptorsOK DEF TypedCall

LEMMA SelectTyped ==
    ASSUME TypeInv, NEW t \in Threads, Select(t)
    PROVE  TypedCall(t)
<1> DEFINE r == regs[t]
           Outs(a, timeout) == Pointed({Result(r, a).r5, Result(r, a).r6, Result(r, a).r7, timeout})
<1>1. PICK timeout \in {0, r.r5}, a \in HostAnswers({0, 1}) :
            \E ins : Serve(t, ins, Outs(a, timeout), Result(r, a), a.err)
    BY DEF Select
<1>2. UNCHANGED <<brk, shm, bytes, holder, blocked, lockaddr, fds>>
    BY DEF Select, memVars, lockVars
<1>3. Result(r, a) \in Registers /\ a.err \in Errnos \cup {0}
    <2>1. {0, 1} \subseteq Int
        OBVIOUS
    <2> QED BY <2>1, RegistersOf, ResultTyped
<1>4. Outs(a, timeout) \subseteq Int
    <2>1. r.r5 \in Int
        BY RegistersOf
    <2>2. /\ Result(r, a).r5 \in Int /\ Result(r, a).r6 \in Int /\ Result(r, a).r7 \in Int
        BY <1>3 DEF Registers, Words
    <2> QED BY <2>1, <2>2 DEF Pointed
<1>5. TypedServe(t)
    <2> HIDE DEF Outs
    <2> QED BY <1>1, <1>3, <1>4, ServeTyped
<1> QED BY <1>2, <1>5, DescriptorsOK DEF TypedCall

\* The calls that only pass structures to the host, or are answered without it.
LEMMA SimpleTyped ==
    ASSUME TypeInv, NEW t \in Threads,
           \/ Open(t) \/ Creat(t) \/ NameCall(t) \/ Lseek(t) \/ ProcessId(t) \/ Access(t)
           \/ Stat(t) \/ Dup(t) \/ GroupId(t) \/ Ioctl(t) \/ Fstat(t) \/ Limits(t) \/ Fcntl(t)
           \/ Fsync(t) \/ Signals(t) \/ Ftruncate(t) \/ Gettimeofday(t) \/ Getrusage(t)
           \/ Writev(t) \/ Utimes(t) \/ Rlimit(t)
    PROVE  TypedCall(t)
<1> DEFINE r == regs[t]
<1>1. /\ r \in Registers /\ r.r4 \in Int /\ r.r5 \in Int /\ r.r6 \in Int
      /\ 0 \in Int /\ 0 \in {0, 1}
    BY RegistersOf
<1>2. CASE Open(t)
    BY <1>2, NewFdTyped, AbortTyped DEF Open
<1>3. CASE Creat(t) \/ Dup(t) \/ (Fcntl(t) /\ NewFd(t, {}))
    BY <1>3, NewFdTyped DEF Creat, Dup
<1>4. CASE \/ NameCall(t) \/ Lseek(t) \/ ProcessId(t) \/ Access(t) \/ GroupId(t)
           \/ Fcntl(t) /\ Proxy(t, {}, {}, {0})
           \/ Fsync(t) \/ Ftruncate(t) \/ Utimes(t)
    <2>1. \E ins, vals : Proxy(t, ins, {}, vals) /\ vals \in {{0}, {0, 1}, {1}}
        BY <1>4 DEF NameCall, Lseek, ProcessId, Access, GroupId, Fsync, Ftruncate, Utimes
    <2>2. \A vals \in {{0}, {0, 1}, {1}} : vals \subseteq Int
        OBVIOUS
    <2>3. {} \subseteq Int
        OBVIOUS
    <2> QED BY <2>1, <2>2, <2>3, ProxyTyped
<1>5. CASE Writev(t)
    <2>1. PICK ins, vals : vals = 0 .. r.r6 /\ Proxy(t, ins, {}, vals)
        BY <1>5 DEF Writev
    <2>2. vals \subseteq Int
        BY <2>1
    <2>3. Proxy(t, ins, {}, vals)
        BY <2>1
    <2>4. \A outs : Proxy(t, ins, outs, vals) /\ outs \subseteq Int => TypedCall(t)
        BY <2>2, ProxyTyped
    <2>5. {} \subseteq Int
        OBVIOUS
    <2> QED BY <2>3, <2>4, <2>5
<1>6. CASE Stat(t) \/ Fstat(t) \/ Getrusage(t) \/ Rlimit(t)
    <2>1. \E ins : Proxy(t, ins, {r.r5}, {0})
        BY <1>6 DEF Stat, Fstat, Getrusage, Rlimit
    <2>2. {r.r5} \subseteq Int /\ {0} \subseteq Int
        BY <1>1
    <2> QED BY <2>1, <2>2, ProxyTyped
<1>7. CASE Ioctl(t)
    <2>1. CASE r.r5 \in IoctlRequests
        <3>1. Proxy(t, Pointed({r.r6}), Pointed({r.r6}), {0})
            BY <1>7, <2>1 DEF Ioctl
        <3>2. Pointed({r.r6}) \subseteq Int /\ {0} \subseteq Int
            BY <1>1 DEF Pointed
        <3> QED BY <3>1, <3>2, ProxyTyped
    <2>2. CASE r.r5 \notin IoctlRequests
        <3>1. Local(t, [r EXCEPT !.r2 = 0, !.r7 = 0])
            BY <1>7, <2>2 DEF Ioctl
        <3>2. [r EXCEPT !.r2 = 0, !.r7 = 0] \in Registers
            BY <1>1, Answer
        <3> QED BY <3>1, <3>2, LocalTyped
    <2> QED BY <2>1, <2>2
<1>8. CASE Limits(t)
    <2>1. CASE \E x \in Int : Local(t, [r EXCEPT !.r2 = x, !.r7 = 0])
        <3>1. PICK x \in Int : Local(t, [r EXCEPT !.r2 = x, !.r7 = 0])
            BY <2>1
        <3>2. [r EXCEPT !.r2 = x, !.r7 = 0] \in Registers
            BY <1>1, Answer
        <3> QED BY <3>1, <3>2, LocalTyped
    <2>2. CASE Proxy(t, {}, {}, {MaxFd + 1})
        <3>1. {} \subseteq Int /\ {MaxFd + 1} \subseteq Int
            BY Layout
        <3> QED BY <2>2, <3>1, ProxyTyped
    <2>3. Page \in Int /\ 0 \in Int
        BY Layout
    <2> QED BY <1>8, <2>1, <2>2, <2>3 DEF Limits
<1>9. CASE Signals(t)
    <2>1. Local(t, [r EXCEPT !.r2 = 0, !.r7 = 0])
        BY <1>9 DEF Signals
    <2>2. [r EXCEPT !.r2 = 0, !.r7 = 0] \in Registers
        BY <1>1, Answer
    <2> QED BY <2>1, <2>2, LocalTyped
<1>10. CASE Gettimeofday(t)
    <2>1. Proxy(t, Pointed({r.r4, r.r5}), Pointed({r.r4, r.r5}), {0})
        BY <1>10 DEF Gettimeofday
    <2>2. Pointed({r.r4, r.r5}) \subseteq Int /\ {0} \subseteq Int
        BY <1>1 DEF Pointed
    <2> QED BY <2>1, <2>2, ProxyTyped
<1>11. Fcntl(t) => (Fcntl(t) /\ NewFd(t, {})) \/ (Fcntl(t) /\ Proxy(t, {}, {}, {0}))
    BY DEF Fcntl
<1> QED BY <1>2, <1>3, <1>4, <1>5, <1>6, <1>7, <1>8, <1>9, <1>10, <1>11

\* A trap that is served is one of the calls above, typed.
LEMMA TrapNowTyped ==
    ASSUME TypeInv, NEW t \in Threads, TrapNow(t)
    PROVE  TypedCall(t) \/ LockCall(t)
<1>1. CASE Exit(t)
    BY <1>1 DEF Exit, TypedCall, TypedServe, Statuses, TypeInv, TypeOK, memVars, lockVars
<1>2. CASE Unimplemented(t) \/ NotBlocked(t)
    BY <1>2, AbortTyped DEF Unimplemented, NotBlocked
<1>3. CASE Read(t) \/ Write(t) \/ Close(t) \/ Brk(t) \/ Pipe(t) \/ Dup2(t) \/ Select(t)
    BY <1>3, ReadTyped, WriteTyped, CloseTyped, BrkTyped, PipeTyped, Dup2Typed, SelectTyped
<1> QED BY <1>1, <1>2, <1>3, SimpleTyped DEF TrapNow, LockCall

\* The part of TypeOK that speaks of all threads, but for what IInv says.
SharedType ==
    /\ blocked \in [Threads -> BOOLEAN]
    /\ lockaddr \in [Threads -> Locks \cup {0}]
    /\ fds \subseteq 0 .. MaxFd
    /\ errno \in Errnos \cup {0}
    /\ status \in Statuses

LEMMA TypeParts ==
    /\ TypeInv => SharedType /\ \A w \in Threads : ThreadType(w)
    /\ (IInv /\ SharedType /\ \A w \in Threads : ThreadType(w))' => TypeOK'
<1>1. TypeInv => SharedType /\ \A w \in Threads : ThreadType(w)
    BY DEF TypeInv, TypeOK, SharedType, ThreadType, Statuses
<1>2. (IInv /\ SharedType /\ \A w \in Threads : ThreadType(w))' => TypeOK'
    BY DEF IInv, ThreadsOK, TypeOK, SharedType, ThreadType, Statuses
<1> QED BY <1>1, <1>2

LEMMA TypedCallOK ==
    ASSUME TypeInv, IInv', NEW t \in Threads, TypedCall(t), phase[t] = "trapped"
    PROVE  TypeInv'
<1>1. SharedType'
    BY TypeParts DEF TypedCall, TypedServe, SharedType
<1>2. BreaksInPlace'
    BY DEF TypeInv, BreaksInPlace, TypedCall
<1>3. ASSUME NEW w \in Threads PROVE ThreadType(w)'
    <2>1. ThreadType(w) /\ numThreads' = numThreads /\ shm' = shm
        BY TypeParts DEF TypedCall, TypedServe
    <2>2. brk'[w] \in Breaks
        BY <1>2 DEF BreaksInPlace
    <2>3. CASE UNCHANGED <<regs, phase, wrote>>
        BY <2>1, <2>2, <2>3 DEF ThreadType, Breaks, Words
    <2>4. CASE /\ phase' = [phase EXCEPT ![t] = "served"]
               /\ \E r \in Registers : regs' = [regs EXCEPT ![t] = r]
               /\ \E outs \in SUBSET (0 .. AddrSpace) : wrote' = [wrote EXCEPT ![t] = outs]
        <3>1. regs'[w] \in Registers /\ wrote'[w] \subseteq 0 .. AddrSpace
            BY <2>1, <2>4 DEF ThreadType, TypeInv, IInv, ThreadsOK
        <3>2. ThreadType(t) /\ phase'[w] = IF w = t THEN "served" ELSE phase[w]
            BY <2>4, TypeParts DEF TypeInv, IInv, ThreadsOK
        <3>3. phase[t] # "none"
            OBVIOUS
        <3> QED BY <2>1, <2>2, <3>1, <3>2, <3>3 DEF ThreadType, Breaks, Words
    <2> QED BY <2>3, <2>4 DEF TypedCall, TypedServe
<1>4. LocksNamed'
    <2> SUFFICES ASSUME NEW w \in Threads, phase'[w] = "trapped", regs'[w].r2 = Sys.test_and_set
                 PROVE  regs'[w].r4 \in Locks
        BY DEF LocksNamed
    <2>1. phase[w] = "trapped" /\ regs'[w] = regs[w]
        BY DEF TypedCall, TypedServe, TypeInv, IInv, ThreadsOK
    <2> QED BY <2>1 DEF TypeInv, LocksNamed
<1> QED BY <1>1, <1>2, <1>3, <1>4, TypeParts DEF TypeInv

LEMMA OnlyTrapped ==
    ASSUME NEW t \in Threads, TrapNow(t)
    PROVE  phase[t] = "trapped" /\ (Brk(t) \/ LockCall(t) \/ brk' = brk)
BY DEF TrapNow, LockCall, Calls, Exit, Read, Write, Open, Close, Creat, NameCall, Brk, Lseek,
       ProcessId, Access, Stat, Dup, Pipe, GroupId, Ioctl, Fstat, Limits, Dup2, Fcntl, Select,
       Fsync, Signals, Ftruncate, Gettimeofday, Getrusage, Writev, Utimes, Rlimit, TestAndSet,
       Unlock, DeclareShmem, Fork, Unimplemented, NotBlocked, Abort, Proxy, Local, NewFd, memVars

\* Every other call has another code, or ends the simulator.
LEMMA OnlyBrk ==
    ASSUME NEW t \in Threads, TrapNow(t), regs[t].r2 = Sys.brk
    PROVE  Brk(t) \/ phase' = phase
BY DEF TrapNow, Calls, Exit, Read, Write, Open, Close, Creat, NameCall, Lseek,
       ProcessId, Access, Stat, Dup, Pipe, GroupId, Ioctl, Fstat, Limits, Dup2, Fcntl, Select,
       Fsync, Signals, Ftruncate, Gettimeofday, Getrusage, Writev, Utimes, Rlimit, TestAndSet,
       Unlock, DeclareShmem, Fork, Unimplemented, NotBlocked, Abort, Sys

LEMMA TestAndSetTyped ==
    ASSUME TypeInv, IInv', NEW t \in Threads, TestAndSet(t)
    PROVE  TypeInv'
<1> DEFINE r == regs[t]
           c == Cell(t, r.r4)
           after == [r EXCEPT !.r2 = bytes[c]]
<1>1. /\ phase[t] = "trapped" /\ r.r2 = Sys.test_and_set
      /\ Serve(t, {}, {}, after, errno)
      /\ lockaddr' = lockaddr \/ lockaddr' = [lockaddr EXCEPT ![t] = r.r4]
      /\ UNCHANGED <<brk, shm, blocked, fds>>
    BY DEF TestAndSet, Calls
<1>2. /\ phase' = [phase EXCEPT ![t] = "served"] /\ regs' = [regs EXCEPT ![t] = after]
      /\ wrote' = [wrote EXCEPT ![t] = {}] /\ UNCHANGED <<numThreads, errno, status>>
    BY <1>1 DEF Serve
<1>3. r.r4 \in Locks
    BY <1>1 DEF TypeInv, LocksNamed
<1>4. after \in Registers
    <2>1. r \in Registers
        BY RegistersOf
    <2>2. bytes[c] \in Int
        <3>1. c \in Cells
            BY <1>3, LockAddresses
        <3>2. bytes \in [Cells -> {0, 1}]
            BY DEF TypeInv, IInv, ThreadsOK
        <3> HIDE DEF c
        <3>3. bytes[c] \in {0, 1}
            BY <3>1, <3>2
        <3> QED BY <3>3
    <2> HIDE DEF r, c
    <2> QED BY <2>1, <2>2 DEF Registers
<1> HIDE DEF after
<1>5. SharedType'
    BY <1>1, <1>2, <1>3, TypeParts DEF SharedType
<1>6. BreaksInPlace'
    BY <1>1 DEF TypeInv, BreaksInPlace
<1>7. ASSUME NEW w \in Threads PROVE ThreadType(w)'
    <2>1. ThreadType(w) /\ ThreadType(t)
        BY TypeParts
    <2>2. /\ phase'[w] = IF w = t THEN "served" ELSE phase[w]
          /\ regs'[w] \in Registers /\ wrote'[w] \subseteq 0 .. AddrSpace
        BY <1>2, <1>4, <2>1 DEF ThreadType, TypeInv, IInv, ThreadsOK
    <2> QED BY <1>1, <1>2, <2>1, <2>2 DEF ThreadType
<1>8. LocksNamed'
    <2> SUFFICES ASSUME NEW w \in Threads, phase'[w] = "trapped", regs'[w].r2 = Sys.test_and_set
                 PROVE  regs'[w].r4 \in Locks
        BY DEF LocksNamed
    <2>1. phase[w] = "trapped" /\ regs'[w] = regs[w]
        BY <1>2 DEF TypeInv, IInv, ThreadsOK
    <2> QED BY <2>1 DEF TypeInv, LocksNamed
<1> QED BY <1>5, <1>6, <1>7, <1>8, TypeParts DEF TypeInv

LEMMA UnlockTyped ==
    ASSUME TypeInv, IInv', NEW t \in Threads, Unlock(t)
    PROVE  TypeInv'
<1>1. CASE Abort
    <2>1. TypedCall(t) /\ phase[t] = "trapped"
        BY <1>1, AbortTyped DEF Unlock, Calls
    <2> QED BY <2>1, TypedCallOK
<1>2. CASE ~Abort
    <2> DEFINE addr == regs[t].r4
    <2>1. /\ phase[t] = "trapped"
          /\ \A w \in Threads :
                regs'[w] = regs[w] \/ \E x \in {0, 1} : regs'[w] = [regs[w] EXCEPT !.r2 = x]
          /\ \E won : blocked' = [w \in Threads |-> blocked[w] /\ w \notin won]
          /\ wrote' = [wrote EXCEPT ![t] = {}]
          /\ phase' = [phase EXCEPT ![t] = "served"]
          /\ UNCHANGED <<numThreads, lockaddr, brk, shm, fds, errno, status>>
        BY <1>2 DEF Unlock, Calls
    <2>2. SharedType'
        BY <2>1, TypeParts DEF SharedType
    <2>3. BreaksInPlace'
        BY <2>1 DEF TypeInv, BreaksInPlace
    <2>4. ASSUME NEW w \in Threads PROVE ThreadType(w)'
        <3>1. ThreadType(w) /\ ThreadType(t)
            BY TypeParts
        <3>2. regs'[w] \in Registers
            <4>1. ASSUME NEW x \in {0, 1} PROVE [regs[w] EXCEPT !.r2 = x] \in Registers
                BY <3>1 DEF ThreadType, Registers
            <4> QED BY <2>1, <3>1, <4>1 DEF ThreadType
        <3>3. /\ phase'[w] = IF w = t THEN "served" ELSE phase[w]
              /\ wrote'[w] \subseteq 0 .. AddrSpace
            BY <2>1, <3>1 DEF ThreadType, TypeInv, IInv, ThreadsOK
        <3> QED BY <2>1, <3>1, <3>2, <3>3 DEF ThreadType
    <2>5. LocksNamed'
        <3> SUFFICES ASSUME NEW w \in Threads, phase'[w] = "trapped", regs'[w].r2 = Sys.test_and_set
                     PROVE  regs'[w].r4 \in Locks
            BY DEF LocksNamed
        <3>1. phase[w] = "trapped" /\ regs[w] \in Registers
            BY <2>1, RegistersOf DEF TypeInv, IInv, ThreadsOK
        <3>2. ASSUME NEW x \in {0, 1} PROVE [regs[w] EXCEPT !.r2 = x].r2 # Sys.test_and_set
            BY <3>1, LockCodes DEF Registers
        <3>3. regs'[w] = regs[w]
            BY <2>1, <3>2
        <3> QED BY <3>1, <3>3 DEF TypeInv, LocksNamed
    <2> QED BY <2>2, <2>3, <2>4, <2>5, TypeParts DEF TypeInv
<1> QED BY <1>1, <1>2

LEMMA DeclareShmemTyped ==
    ASSUME TypeInv, IInv', NEW t \in Threads, DeclareShmem(t)
    PROVE  TypeInv'
<1> DEFINE region == [base |-> regs[t].r4, end |-> regs[t].r5]
<1>1. /\ phase[t] = "trapped"
      /\ phase' = [phase EXCEPT ![t] = "served"]
      /\ regs' = [regs EXCEPT ![t] = regs[t]]
      /\ wrote' = [wrote EXCEPT ![t] = {}]
      /\ shm' = [shm EXCEPT ![t] = region]
      /\ UNCHANGED <<numThreads, brk, blocked, lockaddr, fds, errno, status>>
    BY DEF DeclareShmem, Calls, Serve, lockVars
<1>2. regs' = regs
    BY <1>1 DEF TypeInv, IInv, ThreadsOK
<1>3. region \in [base : Nat, end : Nat]
    BY RegistersOf
<1> HIDE DEF region
<1>4. SharedType' /\ BreaksInPlace'
    BY <1>1, TypeParts DEF SharedType, TypeInv, BreaksInPlace
<1>5. ASSUME NEW w \in Threads PROVE ThreadType(w)'
    <2>1. ThreadType(w) /\ ThreadType(t)
        BY TypeParts
    <2>2. /\ phase'[w] = IF w = t THEN "served" ELSE phase[w]
          /\ shm'[w] \in [base : Nat, end : Nat] /\ wrote'[w] \subseteq 0 .. AddrSpace
        BY <1>1, <1>3, <2>1 DEF ThreadType, TypeInv, IInv, ThreadsOK
    <2> QED BY <1>1, <1>2, <2>1, <2>2 DEF ThreadType
<1>6. LocksNamed'
    BY <1>1, <1>2 DEF TypeInv, LocksNamed, IInv, ThreadsOK
<1> QED BY <1>4, <1>5, <1>6, TypeParts DEF TypeInv

\* The new thread is one that was not there, with the break of its parent.
LEMMA ForkTyped ==
    ASSUME TypeInv, IInv', NEW t \in Threads, Fork(t)
    PROVE  /\ TypeInv'
           /\ \A w \in Threads : phase[w] # "none" => brk'[w] = brk[w]
<1> DEFINE n == numThreads
<1>1. CASE Abort
    <2>1. TypedCall(t) /\ phase[t] = "trapped" /\ brk' = brk
        BY <1>1, AbortTyped DEF Fork, Calls, Abort, memVars
    <2> QED BY <2>1, TypedCallOK
<1>2. CASE n # MAX_THREADS
    <2>1. /\ phase[t] = "trapped"
          /\ regs' = [regs EXCEPT ![n] = regs[t]]
          /\ brk' = [brk EXCEPT ![n] = brk[t]]
          /\ shm' = [shm EXCEPT ![n] = shm[t]]
          /\ wrote' = [wrote EXCEPT ![t] = {}, ![n] = {regs[t].r4}]
          /\ numThreads' = n + 1
          /\ phase' = [phase EXCEPT ![t] = "served", ![n] = "user"]
          /\ blocked' = [blocked EXCEPT ![n] = FALSE]
          /\ \E junk \in Locks \cup {0} : lockaddr' = [lockaddr EXCEPT ![n] = junk]
          /\ UNCHANGED <<fds, errno, status>>
        BY <1>2 DEF Fork, Calls, NewThread, Slave
    <2>2. n \in Threads /\ n \in Nat
        BY <1>2, ThreadNumbers DEF TypeInv, IInv, ThreadsOK, Threads
    <2>3. SharedType'
        BY <2>1, TypeParts DEF SharedType
    <2>4. BreaksInPlace' /\ \A w \in Threads : w # n => brk'[w] = brk[w]
        BY <2>1 DEF TypeInv, BreaksInPlace
    <2>5. ASSUME NEW w \in Threads PROVE ThreadType(w)'
        <3>1. ThreadType(w) /\ ThreadType(t) /\ w \in Nat
            BY TypeParts, ThreadNumbers
        <3>2. t # n
            BY <2>1, <2>2, <3>1 DEF ThreadType
        <3>3. CASE w = n
            <4>1. /\ phase'[n] = "user" /\ regs'[n] = regs[t] /\ brk'[n] = brk[t]
                  /\ shm'[n] = shm[t] /\ wrote'[n] = {regs[t].r4}
                BY <2>1, <2>2 DEF TypeInv, IInv, ThreadsOK, BreaksInPlace
            <4>2. regs[t].r4 \in 0 .. AddrSpace
                BY <3>1, Layout DEF ThreadType, Registers, Words
            <4>3. wrote'[n] \subseteq 0 .. AddrSpace /\ ~ (n >= n + 1)
                BY <2>2, <4>1, <4>2
            <4>4. /\ regs[t] \in Registers /\ shm[t] \in [base : Nat, end : Nat]
                  /\ brk[t] \in 0 .. AddrSpace - 1 /\ brk[t] % Page = 0
                BY <3>1 DEF ThreadType
            <4>5. /\ phase'[w] = "user" /\ ~ (w >= numThreads') /\ regs'[w] \in Registers
                  /\ brk'[w] \in 0 .. AddrSpace - 1 /\ brk'[w] % Page = 0
                  /\ shm'[w] \in [base : Nat, end : Nat] /\ wrote'[w] \subseteq 0 .. AddrSpace
                BY <2>1, <3>3, <4>1, <4>3, <4>4
            <4> QED BY <4>5 DEF ThreadType
        <3>4. CASE w # n
            <4>1. /\ phase'[w] = (IF w = t THEN "served" ELSE phase[w])
                  /\ regs'[w] = regs[w] /\ brk'[w] = brk[w] /\ shm'[w] = shm[w]
                  /\ wrote'[w] = (IF w = t THEN {} ELSE wrote[w])
                BY <2>1, <3>4 DEF TypeInv, IInv, ThreadsOK, BreaksInPlace
            <4>2. w >= n + 1 <=> w >= n
                BY <2>2, <3>1, <3>4
            <4> QED BY <2>1, <3>1, <4>1, <4>2 DEF ThreadType
        <3> QED BY <3>3, <3>4
    <2>6. LocksNamed'
        <3> SUFFICES ASSUME NEW w \in Threads, phase'[w] = "trapped", regs'[w].r2 = Sys.test_and_set
                     PROVE  regs'[w].r4 \in Locks
            BY DEF LocksNamed
        <3>1. phase[w] = "trapped" /\ regs'[w] = regs[w]
            BY <2>1, <2>2 DEF TypeInv, IInv, ThreadsOK
        <3> QED BY <3>1 DEF TypeInv, LocksNamed
    <2>7. phase[n] = "none"
        <3>1. ThreadType(n)
            BY <2>2, TypeParts
        <3> QED BY <2>2, <3>1 DEF ThreadType
    <2> QED BY <2>3, <2>4, <2>5, <2>6, <2>7, TypeParts DEF TypeInv
<1> QED BY <1>1, <1>2 DEF Fork

LEMMA TrapRegisters ==
    ASSUME NEW q \in [r2 : Nat, r3 : Nat, r4 : Words, r5 : Words, r6 : Words, r7 : Words, r29 : Words],
           NEW x \in Int, NEW y \in Words
    PROVE  LET after == [q EXCEPT !.r3 = x, !.r29 = y] IN
           after \in Registers /\ after.r2 = q.r2 /\ after.r4 = q.r4
<1> DEFINE after == [q EXCEPT !.r3 = x, !.r29 = y]
<1>1. q \in Registers
    BY DEF Registers
<1>2. after \in Registers
    BY <1>1 DEF Registers
<1>3. after.r2 = q.r2 /\ after.r4 = q.r4
    BY <1>1 DEF Registers
<1> QED BY <1>2, <1>3

LEMMA TrapTyped ==
    ASSUME TypeInv, IInv', NEW t \in Threads, Trap(t)
    PROVE  TypeInv' /\ brk' = brk
<1>1. PICK q \in Programs[program][t + 1] :
            regs' = [regs EXCEPT ![t] = [q EXCEPT !.r3 = regs[t].r3, !.r29 = regs[t].r29]]
    BY DEF Trap
<1> DEFINE after == [q EXCEPT !.r3 = regs[t].r3, !.r29 = regs[t].r29]
<1>2. /\ phase[t] = "user" /\ phase' = [phase EXCEPT ![t] = "trapped"]
      /\ wrote' = [wrote EXCEPT ![t] = {}] /\ blocked' = [blocked EXCEPT ![t] = TRUE]
      /\ UNCHANGED <<numThreads, brk, shm, lockaddr, fds, errno, status>>
    BY DEF Trap, memVars
<1>3. /\ q \in [r2 : Nat, r3 : Nat, r4 : Words, r5 : Words, r6 : Words,
                r7 : Words, r29 : Words]
      /\ q.r2 \in {Sys.test_and_set, Sys.unlock} => q.r4 \in Locks
    BY ProgramsAssumption DEF TypeInv, IInv, ThreadsOK
<1>4. after \in Registers /\ after.r2 = q.r2 /\ after.r4 = q.r4
    <2>1. regs[t].r3 \in Int /\ regs[t].r29 \in Words
        BY RegistersOf DEF Registers
    <2> QED BY <1>3, <2>1, TrapRegisters
<1> HIDE DEF after
<1>5. regs' = [regs EXCEPT ![t] = after]
    BY <1>1 DEF after
<1>6. SharedType' /\ BreaksInPlace'
    BY <1>2, TypeParts DEF SharedType, TypeInv, BreaksInPlace
<1>7. ASSUME NEW w \in Threads PROVE ThreadType(w)'
    <2>1. ThreadType(w) /\ ThreadType(t)
        BY TypeParts
    <2>2. /\ phase'[w] = IF w = t THEN "trapped" ELSE phase[w]
          /\ regs'[w] \in Registers /\ wrote'[w] \subseteq 0 .. AddrSpace
        BY <1>2, <1>4, <1>5, <2>1 DEF ThreadType, TypeInv, IInv, ThreadsOK
    <2> QED BY <1>2, <2>1, <2>2 DEF ThreadType
<1>8. LocksNamed'
    <2> SUFFICES ASSUME NEW w \in Threads, phase'[w] = "trapped", regs'[w].r2 = Sys.test_and_set
                 PROVE  regs'[w].r4 \in Locks
        BY DEF LocksNamed
    <2>1. CASE w = t
        <3>1. regs'[w] = after
            BY <1>5, <2>1 DEF TypeInv, IInv, ThreadsOK
        <3> QED BY <1>3, <1>4, <3>1
    <2>2. CASE w # t
        <3>1. phase[w] = "trapped" /\ regs'[w] = regs[w]
            BY <1>2, <1>5, <2>2 DEF TypeInv, IInv, ThreadsOK
        <3> QED BY <3>1 DEF TypeInv, LocksNamed
    <2> QED BY <2>1, <2>2
<1> QED BY <1>2, <1>6, <1>7, <1>8, TypeParts DEF TypeInv

LEMMA ResumeTyped ==
    ASSUME TypeInv, IInv', NEW t \in Threads, Resume(t)
    PROVE  TypeInv' /\ brk' = brk
<1>1. /\ phase[t] = "served" /\ phase' = [phase EXCEPT ![t] = "user"]
      /\ blocked' = [blocked EXCEPT ![t] = FALSE]
      /\ UNCHANGED <<numThreads, regs, brk, shm, wrote, lockaddr, fds, errno, status>>
    BY DEF Resume, memVars
<1>2. SharedType' /\ BreaksInPlace'
    BY <1>1, TypeParts DEF SharedType, TypeInv, BreaksInPlace
<1>3. ASSUME NEW w \in Threads PROVE ThreadType(w)'
    <2>1. ThreadType(w) /\ ThreadType(t)
        BY TypeParts
    <2>2. phase'[w] = IF w = t THEN "user" ELSE phase[w]
        BY <1>1 DEF TypeInv, IInv, ThreadsOK
    <2> QED BY <1>1, <2>1, <2>2 DEF ThreadType
<1>4. LocksNamed'
    BY <1>1 DEF TypeInv, LocksNamed, IInv, ThreadsOK
<1> QED BY <1>1, <1>2, <1>3, <1>4, TypeParts DEF TypeInv

LEMMA NextTyped ==
    ASSUME TypeInv, [Next]_vars
    PROVE  TypeInv'
<1>1. IInv'
    BY NextOK DEF TypeInv
<1>2. ASSUME NEW t \in Threads, TrapNow(t)
      PROVE  TypeInv'
    BY <1>1, <1>2, OnlyTrapped, TrapNowTyped, TypedCallOK, TestAndSetTyped, UnlockTyped,
       DeclareShmemTyped, ForkTyped DEF LockCall
<1>3. CASE UNCHANGED vars
    <2>1. UNCHANGED <<numThreads, phase, regs, brk, shm, blocked, lockaddr, wrote, fds, errno, status>>
        BY <1>3 DEF vars, memVars, lockVars
    <2>2. SharedType' /\ BreaksInPlace' /\ LocksNamed'
        BY <2>1, TypeParts DEF SharedType, TypeInv, BreaksInPlace, LocksNamed
    <2>3. ASSUME NEW w \in Threads PROVE ThreadType(w)'
        BY <2>1, TypeParts DEF ThreadType
    <2> QED BY <1>1, <2>2, <2>3, TypeParts DEF TypeInv
<1> QED BY <1>1, <1>2, <1>3, TrapTyped, ResumeTyped DEF Next

THEOREM TypesInductive == Spec => []TypeInv
<1> QED BY InitTyped, NextTyped, PTL DEF Spec

\* Every variable keeps its type, also after a call that failed: registers stay
\* words whatever the host answers, a break stays on a page, no descriptor is
\* beyond the table, and the threads that run are the first numThreads.
THEOREM Types == Spec => []TypeOK
<1>1. TypeInv => TypeOK
    BY DEF TypeInv
<1> QED BY <1>1, TypesInductive, PTL

BreaksGrow ==
    \A t \in Threads :
          /\ (Succeeds(t) /\ regs[t].r2 = Sys.brk) =>
                brk'[t] >= regs[t].r4 /\ brk'[t] < regs[t].r29
          /\ phase[t] # "none" => brk'[t] >= brk[t]

\* A break that is granted covers the request and lies below the stack, and no
\* thread ever loses memory (SS_SYS_brk, syscall.cc, and Thread::copy): rounding
\* up can wrap only to 0, which is below every break there is.
THEOREM BreaksCover == Spec => BreakCoversRequest
<1>1. ASSUME TypeInv, Next
      PROVE  BreaksGrow
    <2> SUFFICES ASSUME NEW w \in Threads
                 PROVE  /\ (Succeeds(w) /\ regs[w].r2 = Sys.brk) =>
                              brk'[w] >= regs[w].r4 /\ brk'[w] < regs[w].r29
                        /\ phase[w] # "none" => brk'[w] >= brk[w]
        BY DEF BreaksGrow
    <2>1. brk[w] \in Int
        BY <1>1 DEF TypeInv, BreaksInPlace, Breaks, Words
    <2>2. ASSUME NEW t \in Threads, TrapNow(t)
          PROVE  /\ (Succeeds(w) /\ regs[w].r2 = Sys.brk) =>
                       brk'[w] >= regs[w].r4 /\ brk'[w] < regs[w].r29
                 /\ phase[w] # "none" => brk'[w] >= brk[w]
        <3>1. CASE Brk(t)
            <4>1. /\ TypedCall(t) /\ brk'[t] >= brk[t]
                  /\ regs'[t].r7 = 0 => brk'[t] >= regs[t].r4 /\ brk'[t] < regs[t].r29
                  /\ \A u \in Threads \ {t} : brk'[u] = brk[u]
                BY <1>1, <3>1, BrkTyped
            <4>2. Succeeds(w) => w = t
                BY <1>1, <4>1 DEF Succeeds, Served, TypedCall, TypedServe, TypeInv, IInv, ThreadsOK
            <4> QED BY <2>1, <4>1, <4>2 DEF Succeeds
        <3>2. CASE LockCall(t)
            <4>1. phase[w] # "none" => brk'[w] = brk[w]
                BY <1>1, <3>2, NextTyped, ForkTyped DEF LockCall, TestAndSet, Unlock, DeclareShmem,
                   Abort, memVars, TypeInv
            <4>2. phase[w] = "trapped" /\ phase'[w] = "served" => w = t
                BY <1>1, <3>2 DEF LockCall, TestAndSet, Unlock, DeclareShmem, Fork, Serve, Abort,
                   TypeInv, IInv, ThreadsOK
            <4>3. regs[t].r2 # Sys.brk
                BY <3>2 DEF LockCall, TestAndSet, Unlock, DeclareShmem, Fork, Calls, Sys
            <4> QED BY <2>1, <4>1, <4>2, <4>3 DEF Succeeds, Served
        <3>3. CASE brk' = brk /\ ~Brk(t) /\ ~LockCall(t)
            <4>1. OtherCall(t)
                BY <1>1, <2>2, <3>3, TrapNowIs DEF TypeInv
            <4>2. Succeeds(w) => w = t
                BY <1>1, <4>1 DEF Succeeds, Served, OtherCall, TypeInv, IInv, ThreadsOK
            <4>3. regs[t].r2 # Sys.brk \/ ~Succeeds(t)
                BY <2>2, <3>3, OnlyBrk DEF Succeeds, Served
            <4> QED BY <2>1, <3>3, <4>2, <4>3 DEF Succeeds
        <3> QED BY <2>2, <3>1, <3>2, <3>3, OnlyTrapped
    <2>3. ASSUME NEW t \in Threads, Trap(t) \/ Resume(t)
          PROVE  brk' = brk /\ ~Succeeds(w)
        <3>1. \E p \in {"trapped", "user"} : phase' = [phase EXCEPT ![t] = p]
            BY <2>3 DEF Trap, Resume
        <3>2. ~Served(w)
            BY <1>1, <3>1 DEF TypeInv, IInv, ThreadsOK, Served
        <3> QED BY <2>3, <3>2 DEF Trap, Resume, Succeeds, memVars
    <2> QED BY <1>1, <2>1, <2>2, <2>3 DEF Next
<1>2. TypeInv /\ [Next]_vars => [BreaksGrow]_vars
    BY <1>1
<1> QED BY <1>2, TypesInductive, PTL DEF Spec, BreakCoversRequest, BreaksGrow

============================================================================
