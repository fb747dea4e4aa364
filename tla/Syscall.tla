------------------------------ MODULE Syscall ------------------------------
(***************************************************************************)
(* The system calls of the functional simulator (lib.src/syscall.cc), made *)
(* by the host on behalf of a simulated thread.  A thread traps (the       *)
(* simulator stops in front of nothing else than this), its trap is served *)
(* by one case of ss_syscall, and it is resumed.  Threads share the host's *)
(* descriptors and errno, and the bytes of the region they have declared   *)
(* shared; everything else is their own.                                   *)
(*                                                                         *)
(* Abstracted: what files contain, names and times; memory keeps only the  *)
(* lock bytes and, for the last call of a thread, the set of addresses it  *)
(* stored through mem_access.  A structure is one address wide.  fatal,    *)
(* panic and a failed assert all end the simulator: status "aborted".      *)
(***************************************************************************)
EXTENDS Integers, FiniteSets, FiniteSetsExt

CONSTANTS
    MAX_THREADS,    \* size of THREAD[]
    Text,           \* addresses of the text segment
    DataBase,       \* ld_data_base
    DataEnd,        \* ld_data_base + ld_data_size
    StackBase,      \* ld_stack_base
    AddrSpace,      \* addresses wrap modulo this
    Page,           \* SS_PAGE_SIZE
    StackArg,       \* offset of the fifth argument from the stack pointer
    Locks,          \* addresses programs use as locks
    MaxFd,          \* last descriptor of the host process
    Errnos,         \* what the host may leave in errno
    ENOMEM,
    OpenFlags,      \* target open flags ss_flag_table can decode
    IoctlRequests,  \* ioctl requests that have a host code
    Programs        \* programs: what each thread, in a sequence, may have in its registers at a trap

ASSUME MachineAssumption ==
    /\ MAX_THREADS \in Nat \ {0}
    /\ Page \in Nat \ {0} /\ AddrSpace % Page = 0
    /\ {DataBase, DataEnd, StackBase, AddrSpace} \subseteq Nat
    /\ 0 < DataBase /\ DataBase <= DataEnd /\ DataEnd < StackBase
    /\ StackBase < AddrSpace /\ DataEnd + Page <= AddrSpace
    /\ Text \subseteq 1 .. DataBase - 1
    /\ Locks \subseteq DataBase .. StackBase - 1
    /\ MaxFd \in Nat /\ MaxFd >= 2
    /\ Errnos \subseteq Nat \ {0} /\ ENOMEM \in Nat \ {0}

Threads == 0 .. MAX_THREADS - 1

\* System call codes, found in $r2 at the trap.
Sys == [exit |-> 1, fork |-> 2, read |-> 3, write |-> 4, open |-> 5,
        close |-> 6, creat |-> 8, unlink |-> 10, chdir |-> 12, chmod |-> 15,
        chown |-> 16, brk |-> 17, lseek |-> 19, getpid |-> 20, getuid |-> 24,
        access |-> 33, stat |-> 38, lstat |-> 40, dup |-> 41, pipe |-> 42,
        getgid |-> 47, ioctl |-> 54, fstat |-> 62, getpagesize |-> 64,
        setitimer |-> 83, getdtablesize |-> 89, dup2 |-> 90, fcntl |-> 92,
        select |-> 93, fsync |-> 95, sigvec |-> 108, sigblock |-> 109,
        sigsetmask |-> 110, gettimeofday |-> 116, getrusage |-> 117,
        writev |-> 121, rename |-> 128, ftruncate |-> 130, utimes |-> 138,
        getrlimit |-> 144, setrlimit |-> 145, test_and_set |-> 200,
        declare_shmem |-> 201, unlock |-> 202]

Words == 0 .. AddrSpace - 1

\* Registers are words, and what programs use as locks are the Locks.
ASSUME ProgramsAssumption ==
    \A p \in DOMAIN Programs, t \in Threads :
        \A q \in Programs[p][t + 1] :
            /\ q \in [r2 : Nat, r3 : Nat, r4 : Words, r5 : Words, r6 : Words,
                      r7 : Words, r29 : Words]
            /\ q.r2 \in {Sys.test_and_set, Sys.unlock} => q.r4 \in Locks

VARIABLES
    program,        \* which of Programs is simulated
    numThreads,     \* NumThreads
    phase,          \* phase[t]: "none" before its fork, "user", "trapped", "served"
    regs,           \* regs[t]: the registers system calls use
    brk,            \* mem_brk_point
    shm,            \* ShmemBase and ShmemEnd
    blocked,        \* Thread::blocked
    lockaddr,       \* Thread::lockaddr
    bytes,          \* bytes[<<s, a>>]: lock byte a of thread s, or of the shared table
    holder,         \* ghost: who was told 0 by test_and_set and did not unlock
    wrote,          \* ghost: addresses the last call of a thread stored to
    fds,            \* open descriptors of the host process
    errno,
    status          \* "running", "exited", "aborted"

memVars  == <<brk, shm, bytes, holder>>
lockVars == <<blocked, lockaddr>>
vars == <<program, numThreads, phase, regs, memVars, lockVars, wrote, fds, errno, status>>

----------------------------------------------------------------------------
(* Memory                                                                  *)

\* mem_access: the text may be read, data to stack read and written.
Permitted(cmd, a) ==
    (a \in Text /\ cmd = "Read") \/ (a >= DataBase /\ a < StackBase)

IsShared(t, a) == a < shm[t].end /\ a >= shm[t].base

\* The table MEM_BYTE of thread t goes to: its own or the shared one.
SHARED == MAX_THREADS
Cell(t, a) == <<IF IsShared(t, a) THEN SHARED ELSE t, a>>
Cells == (Threads \cup {SHARED}) \X Locks

\* mem_bcopy of n bytes, mem_strcpy of a name: the addresses they touch.
Bytes(a, n) == a .. a + n - 1
Pointed(ptrs) == ptrs \ {0}

\* Mutant of RoundUp: the request is not rounded.
RoundUp_exact(n) == n

\* Mutant of RoundUp: rounded to the page below.
RoundUp_down(n) == n - (n % Page)

\* ROUND_UP(n, SS_PAGE_SIZE) in 32-bit arithmetic.
RoundUp(n) == LET s == (n + Page - 1) % AddrSpace IN s - (s % Page)

----------------------------------------------------------------------------
(* How a call is served                                                    *)

\* The host makes a call: it succeeds with one of vals or fails with an errno.
HostAnswers(vals) ==
    [res : vals, err : {errno}] \cup [res : {-1}, err : Errnos]

\* The convention of every proxied call: -1 becomes errno, with $r7 set.
Result(r, a) ==
    [r EXCEPT !.r2 = IF a.res # -1 THEN a.res ELSE a.err,
              !.r7 = IF a.res # -1 THEN 0 ELSE 1]

Abort ==
    /\ status' = "aborted"
    /\ UNCHANGED <<program, numThreads, phase, regs, memVars, lockVars, wrote, fds, errno>>

\* trap_now asserts that the thread is blocked and switches on $r2.
Calls(t, code) ==
    /\ status = "running" /\ phase[t] = "trapped" /\ blocked[t]
    /\ regs[t].r2 = code

\* Thread t is served: `ins` is copied from target memory, `outs` to it, r is
\* its register file afterwards.  A copy mem_access refuses is fatal.
Serve(t, ins, outs, r, err) ==
    IF /\ \A a \in ins : Permitted("Read", a)
       /\ \A a \in outs : Permitted("Write", a)
    THEN /\ regs' = [regs EXCEPT ![t] = r]
         /\ wrote' = [wrote EXCEPT ![t] = outs]
         /\ phase' = [phase EXCEPT ![t] = "served"]
         /\ errno' = err
         /\ UNCHANGED <<program, numThreads, status>>
    ELSE /\ status' = "aborted"
         /\ UNCHANGED <<program, numThreads, phase, regs, wrote, errno>>

\* A call that changes nothing of the thread but its registers and buffers.
Proxy(t, ins, outs, vals) ==
    /\ \E a \in HostAnswers(vals) : Serve(t, ins, outs, Result(regs[t], a), a.err)
    /\ UNCHANGED <<memVars, lockVars, fds>>

\* A call answered without the host.
Local(t, r) ==
    /\ Serve(t, {}, {}, r, errno)
    /\ UNCHANGED <<memVars, lockVars, fds>>

\* A call that opens up to k descriptors: the host gives the lowest free ones.
FreeFds == (0 .. MaxFd) \ fds
LowestFd == IF FreeFds = {} THEN {} ELSE {Min(FreeFds)}
NewFd(t, ins) ==
    /\ \E a \in HostAnswers(LowestFd) :
          /\ Serve(t, ins, {}, Result(regs[t], a), a.err)
          /\ fds' = fds \cup ({a.res} \ {-1})
    /\ UNCHANGED <<memVars, lockVars>>

----------------------------------------------------------------------------
(* Files                                                                   *)

Exit(t) ==
    /\ Calls(t, Sys.exit)
    /\ status' = "exited"
    /\ UNCHANGED <<program, numThreads, phase, regs, memVars, lockVars, wrote, fds, errno>>

\* Mutant of Read: one byte more is copied, its terminator.
Read_terminated(t) ==
    /\ Calls(t, Sys.read)
    /\ LET r == regs[t] IN
       \E a \in HostAnswers(0 .. r.r6) :
          LET after == Result(r, a) IN
          Serve(t, {}, Bytes(r.r5, after.r2 + 1), after, a.err)
    /\ UNCHANGED <<memVars, lockVars, fds>>

\* The result, errno included, is the number of bytes copied to the buffer.
Read(t) ==
    /\ Calls(t, Sys.read)
    /\ LET r == regs[t] IN
       \E a \in HostAnswers(0 .. r.r6) :
          LET after == Result(r, a) IN
          Serve(t, {}, Bytes(r.r5, after.r2), after, a.err)
    /\ UNCHANGED <<memVars, lockVars, fds>>

\* Anything but the full count counts as an error, whatever errno then holds.
Write(t) ==
    /\ Calls(t, Sys.write)
    /\ LET r == regs[t] IN
       \E a \in HostAnswers(0 .. r.r6) :
          Serve(t, Bytes(r.r5, r.r6), {},
                [r EXCEPT !.r2 = IF a.res = r.r6 THEN a.res ELSE a.err,
                          !.r7 = IF a.res = r.r6 THEN 0 ELSE 1], a.err)
    /\ UNCHANGED <<memVars, lockVars, fds>>

\* Flags that are not in ss_flag_table are fatal.
Open(t) ==
    /\ Calls(t, Sys.open)
    /\ IF regs[t].r5 \in OpenFlags THEN NewFd(t, {regs[t].r4}) ELSE Abort

\* Mutant of Close: standard error is not protected.
Close_stderr(t) ==
    /\ Calls(t, Sys.close)
    /\ LET r == regs[t] IN
       IF r.r4 \in {0, 1}
       THEN Local(t, [r EXCEPT !.r7 = 0])
       ELSE /\ \E a \in HostAnswers({0} \cap {IF r.r4 \in fds THEN 0 ELSE 1}) :
                  /\ Serve(t, {}, {}, Result(r, a), a.err)
                  /\ fds' = IF a.res = 0 THEN fds \ {r.r4} ELSE fds
            /\ UNCHANGED <<memVars, lockVars>>

\* The simulator's own streams are never closed: nothing happens, $r2 stays.
Close(t) ==
    /\ Calls(t, Sys.close)
    /\ LET r == regs[t] IN
       IF r.r4 \in {0, 1, 2}
       THEN Local(t, [r EXCEPT !.r7 = 0])
       ELSE /\ \E a \in HostAnswers({0} \cap {IF r.r4 \in fds THEN 0 ELSE 1}) :
                  /\ Serve(t, {}, {}, Result(r, a), a.err)
                  /\ fds' = IF a.res = 0 THEN fds \ {r.r4} ELSE fds
            /\ UNCHANGED <<memVars, lockVars>>

Creat(t) == Calls(t, Sys.creat) /\ NewFd(t, {regs[t].r4})

\* Calls that name one file: unlink, chdir, chmod, chown (and rename, two).
NameCall(t) ==
    \/ /\ \E code \in {Sys.unlink, Sys.chdir, Sys.chmod, Sys.chown} : Calls(t, code)
       /\ Proxy(t, {regs[t].r4}, {}, {0})
    \/ /\ Calls(t, Sys.rename)
       /\ Proxy(t, {regs[t].r4, regs[t].r5}, {}, {0})

\* The heap may grow up to the stack, never shrink.
Brk(t) ==
    /\ Calls(t, Sys.brk)
    /\ LET r == regs[t]
           addr == RoundUp(r.r4)
           fits == addr >= brk[t] /\ addr < r.r29
       IN  /\ Serve(t, {}, {}, [r EXCEPT !.r2 = IF fits THEN 0 ELSE ENOMEM,
                                         !.r7 = IF fits THEN 0 ELSE 1], errno)
           /\ brk' = IF fits THEN [brk EXCEPT ![t] = addr] ELSE brk
    /\ UNCHANGED <<shm, bytes, holder, lockVars, fds>>

Lseek(t) == Calls(t, Sys.lseek) /\ Proxy(t, {}, {}, {0, 1})

\* getpid; getuid and getgid also return an effective id in $r3.
ProcessId(t) ==
    /\ \E code \in {Sys.getpid, Sys.getuid} : Calls(t, code)
    /\ Proxy(t, {}, {}, {1})

Access(t) == Calls(t, Sys.access) /\ Proxy(t, {regs[t].r4}, {}, {0})

\* The structure is copied out whether or not the host filled it.
Stat(t) ==
    /\ \E code \in {Sys.stat, Sys.lstat} : Calls(t, code)
    /\ Proxy(t, {regs[t].r4}, {regs[t].r5}, {0})

Dup(t) == Calls(t, Sys.dup) /\ NewFd(t, {})

\* Both ends go to $r2 and $r3; they come from target memory if pipe failed.
Pipe(t) ==
    /\ Calls(t, Sys.pipe)
    /\ LET r == regs[t]
           ends == IF Cardinality(FreeFds) < 2 THEN {}
                   ELSE {<<Min(FreeFds), Min(FreeFds \ {Min(FreeFds)})>>}
       IN \/ \E e \in ends :
                /\ Serve(t, {r.r4}, {},
                         [r EXCEPT !.r2 = e[1], !.r3 = e[2], !.r7 = 0], errno)
                /\ fds' = fds \cup {e[1], e[2]}
          \/ \E err \in Errnos :
                /\ Serve(t, {r.r4}, {},
                         [r EXCEPT !.r2 = err, !.r3 = 0, !.r7 = 1], err)
                /\ UNCHANGED fds
    /\ UNCHANGED <<memVars, lockVars>>

GroupId(t) == Calls(t, Sys.getgid) /\ Proxy(t, {}, {}, {1})

\* A request without a host code is ignored with success; an argument pointer
\* is copied both ways, also when the call failed.
Ioctl(t) ==
    /\ Calls(t, Sys.ioctl)
    /\ LET r == regs[t] IN
       IF r.r5 \in IoctlRequests
       THEN Proxy(t, Pointed({r.r6}), Pointed({r.r6}), {0})
       ELSE Local(t, [r EXCEPT !.r2 = 0, !.r7 = 0])

Fstat(t) == Calls(t, Sys.fstat) /\ Proxy(t, {}, {regs[t].r5}, {0})

\* getpagesize is a constant, setitimer ignored, getdtablesize a host limit.
Limits(t) ==
    \/ /\ Calls(t, Sys.getpagesize)
       /\ Local(t, [regs[t] EXCEPT !.r2 = Page, !.r7 = 0])
    \/ /\ Calls(t, Sys.setitimer)
       /\ Local(t, [regs[t] EXCEPT !.r2 = 0, !.r7 = 0])
    \/ /\ Calls(t, Sys.getdtablesize)
       /\ Proxy(t, {}, {}, {MaxFd + 1})

\* The second descriptor is opened, closing what it was.
Dup2(t) ==
    /\ Calls(t, Sys.dup2)
    /\ LET r == regs[t]
           ok == r.r4 \in fds /\ r.r5 \in 0 .. MaxFd
       IN \E a \in HostAnswers(IF ok THEN {r.r5} ELSE {}) :
             /\ Serve(t, {}, {}, Result(r, a), a.err)
             /\ fds' = fds \cup ({a.res} \ {-1})
    /\ UNCHANGED <<memVars, lockVars>>

\* F_DUPFD opens a descriptor.
Fcntl(t) == Calls(t, Sys.fcntl) /\ (NewFd(t, {}) \/ Proxy(t, {}, {}, {0}))

\* $r7 is the third set going in and the error flag coming out: the sets are
\* copied back after the flag was stored, so a failure addresses byte 1.
Select(t) ==
    /\ Calls(t, Sys.select)
    /\ LET r == regs[t] IN
       \E timeout \in {0, r.r5}, a \in HostAnswers({0, 1}) :
          LET after == Result(r, a) IN
          Serve(t, {r.r29 + StackArg} \cup Pointed({r.r5, r.r6, r.r7, timeout}),
                Pointed({after.r5, after.r6, after.r7, timeout}), after, a.err)
    /\ UNCHANGED <<memVars, lockVars, fds>>

Fsync(t) == Calls(t, Sys.fsync) /\ Proxy(t, {}, {}, {0})

\* Signals are ignored with success.
Signals(t) ==
    /\ \E code \in {Sys.sigvec, Sys.sigblock, Sys.sigsetmask} : Calls(t, code)
    /\ Local(t, [regs[t] EXCEPT !.r2 = 0, !.r7 = 0])

Ftruncate(t) == Calls(t, Sys.ftruncate) /\ Proxy(t, {}, {}, {0})

Gettimeofday(t) ==
    /\ Calls(t, Sys.gettimeofday)
    /\ LET tvs == Pointed({regs[t].r4, regs[t].r5}) IN Proxy(t, tvs, tvs, {0})

Getrusage(t) == Calls(t, Sys.getrusage) /\ Proxy(t, {}, {regs[t].r5}, {0})

\* The vectors, then the buffer of each; a null base is skipped.
Writev(t) ==
    /\ Calls(t, Sys.writev)
    /\ LET r == regs[t] IN
       \E base \in {0, r.r5} :
          Proxy(t, Bytes(r.r5, r.r6) \cup (IF r.r6 = 0 THEN {} ELSE Pointed({base})),
                {}, 0 .. r.r6)

Utimes(t) ==
    /\ Calls(t, Sys.utimes)
    /\ Proxy(t, {regs[t].r4} \cup Pointed({regs[t].r5}), {}, {0})

Rlimit(t) ==
    /\ \E code \in {Sys.getrlimit, Sys.setrlimit} : Calls(t, code)
    /\ Proxy(t, {regs[t].r5}, {regs[t].r5}, {0})

----------------------------------------------------------------------------
(* Threads, shared memory and locks                                        *)

\* The value of the lock is the result; a taken lock blocks the thread.
TestAndSet(t) ==
    /\ Calls(t, Sys.test_and_set)
    /\ LET r == regs[t]
           c == Cell(t, r.r4)
           free == bytes[c] = 0
       IN  /\ Serve(t, {}, {}, [r EXCEPT !.r2 = bytes[c]], errno)
           /\ bytes' = [bytes EXCEPT ![c] = 1]
           /\ holder' = IF free THEN [holder EXCEPT ![c] = @ \cup {t}] ELSE holder
           /\ lockaddr' = IF free THEN lockaddr ELSE [lockaddr EXCEPT ![t] = r.r4]
    /\ UNCHANGED <<brk, shm, blocked, fds>>

\* wakeup(addr) reaches every thread that is blocked with this lockaddr.
Waiters(addr) == {w \in 0 .. numThreads - 1 : blocked[w] /\ lockaddr[w] = addr}

\* Mutant of Winners: every woken thread gets the lock.
Winners_all(addr, b) == {w \in Waiters(addr) : b[Cell(w, addr)] = 0}

\* Thread by thread, each woken thread tries the lock again: the first one of
\* those that look at the same byte finds it free.
Winners(addr, b) ==
    {w \in Waiters(addr) :
        /\ b[Cell(w, addr)] = 0
        /\ \A v \in Waiters(addr) : v < w => Cell(v, addr) # Cell(w, addr)}

\* The byte is cleared and the threads of THREAD[] are woken, this one too.
Unlock(t) ==
    /\ Calls(t, Sys.unlock)
    /\ LET addr == regs[t].r4
           own == Cell(t, addr)
           cleared == [bytes EXCEPT ![own] = 0]
           left == [holder EXCEPT ![own] = @ \ {t}]
           won == Winners(addr, cleared)
       IN IF \E w \in Waiters(addr) : regs[w].r4 # addr
          THEN Abort
          ELSE /\ bytes' = [c \in Cells |->
                              IF \E w \in won : c = Cell(w, addr) THEN 1 ELSE cleared[c]]
               /\ holder' = [c \in Cells |-> left[c] \cup {w \in won : c = Cell(w, addr)}]
               /\ regs' = [w \in Threads |->
                              IF w \notin Waiters(addr) THEN regs[w]
                              ELSE [regs[w] EXCEPT !.r2 = IF w \in won THEN 0 ELSE 1]]
               /\ blocked' = [w \in Threads |-> blocked[w] /\ w \notin won]
               /\ wrote' = [wrote EXCEPT ![t] = {}]
               /\ phase' = [phase EXCEPT ![t] = "served"]
               /\ UNCHANGED <<program, numThreads, lockaddr, brk, shm, fds, errno, status>>

DeclareShmem(t) ==
    /\ Calls(t, Sys.declare_shmem)
    /\ Serve(t, {}, {}, regs[t], errno)
    /\ shm' = [shm EXCEPT ![t] = [base |-> regs[t].r4, end |-> regs[t].r5]]
    /\ UNCHANGED <<brk, bytes, holder, lockVars, fds>>

\* Thread::copy: the slave gets the master's registers, break and shared region.
Slave(t, n) ==
    /\ regs' = [regs EXCEPT ![n] = regs[t]]
    /\ brk' = [brk EXCEPT ![n] = brk[t]]
    /\ shm' = [shm EXCEPT ![n] = shm[t]]

\* The forking constructor: a copy of the private memory, and the slave's id at
\* the given place.  Nothing initialises its lockaddr.
NewThread(t, n) ==
    /\ Slave(t, n)
    /\ bytes' = [c \in Cells |-> IF c[1] = n THEN bytes[<<t, c[2]>>] ELSE bytes[c]]
    /\ wrote' = [wrote EXCEPT ![t] = {}, ![n] = {regs[t].r4}]
    /\ blocked' = [blocked EXCEPT ![n] = FALSE]
    /\ \E junk \in Locks \cup {0} : lockaddr' = [lockaddr EXCEPT ![n] = junk]

\* ss_fork
Fork(t) ==
    /\ Calls(t, Sys.fork)
    /\ IF numThreads = MAX_THREADS
       THEN Abort
       ELSE /\ NewThread(t, numThreads)
            /\ numThreads' = numThreads + 1
            /\ phase' = [phase EXCEPT ![t] = "served", ![numThreads] = "user"]
            /\ UNCHANGED <<program, holder, fds, errno, status>>

\* Any other code panics.
Unimplemented(t) ==
    /\ \A name \in DOMAIN Sys : regs[t].r2 # Sys[name]
    /\ Calls(t, regs[t].r2)
    /\ Abort

----------------------------------------------------------------------------
(* The thread around a call                                                *)

\* A program unlocks a lock only if it was told that it has it.
Disciplined(t, q) == q.r2 = Sys.unlock => t \in holder[Cell(t, q.r4)]

\* trap_stop: the SYSCALL instruction stops the functional simulator.
Trap(t) ==
    /\ status = "running" /\ phase[t] = "user"
    /\ \E q \in Programs[program][t + 1] :
          /\ Disciplined(t, q)
          /\ regs' = [regs EXCEPT ![t] = [q EXCEPT !.r3 = regs[t].r3, !.r29 = regs[t].r29]]
    /\ blocked' = [blocked EXCEPT ![t] = TRUE]
    /\ phase' = [phase EXCEPT ![t] = "trapped"]
    /\ wrote' = [wrote EXCEPT ![t] = {}]
    /\ UNCHANGED <<program, numThreads, memVars, lockaddr, fds, errno, status>>

\* trap_now on a thread that another one woke in the meantime: assert(blocked).
NotBlocked(t) ==
    /\ status = "running" /\ phase[t] = "trapped" /\ ~blocked[t]
    /\ Abort

\* trap_resume: the thread runs on, whether or not the lock was free.
Resume(t) ==
    /\ status = "running" /\ phase[t] = "served"
    /\ blocked' = [blocked EXCEPT ![t] = FALSE]
    /\ phase' = [phase EXCEPT ![t] = "user"]
    /\ UNCHANGED <<program, numThreads, regs, memVars, lockaddr, wrote, fds, errno, status>>

\* trap_now without a checkpoint: one case of ss_syscall.
TrapNow(t) ==
    \/ Exit(t) \/ Read(t) \/ Write(t) \/ Open(t) \/ Close(t) \/ Creat(t)
    \/ NameCall(t) \/ Brk(t) \/ Lseek(t) \/ ProcessId(t) \/ Access(t) \/ Stat(t)
    \/ Dup(t) \/ Pipe(t) \/ GroupId(t) \/ Ioctl(t) \/ Fstat(t) \/ Limits(t)
    \/ Dup2(t) \/ Fcntl(t) \/ Select(t) \/ Fsync(t) \/ Signals(t) \/ Ftruncate(t)
    \/ Gettimeofday(t) \/ Getrusage(t) \/ Writev(t) \/ Utimes(t) \/ Rlimit(t)
    \/ TestAndSet(t) \/ Unlock(t) \/ DeclareShmem(t) \/ Fork(t)
    \/ Unimplemented(t) \/ NotBlocked(t)

NoRegs == [r2 |-> 0, r3 |-> 0, r4 |-> 0, r5 |-> 0, r6 |-> 0, r7 |-> 0, r29 |-> StackBase - 1]

Init ==
    /\ program \in DOMAIN Programs
    /\ numThreads = 1
    /\ phase = [t \in Threads |-> IF t = 0 THEN "user" ELSE "none"]
    /\ regs = [t \in Threads |-> NoRegs]
    /\ brk = [t \in Threads |-> RoundUp(DataEnd)]
    /\ shm = [t \in Threads |-> [base |-> 0, end |-> 0]]
    /\ blocked = [t \in Threads |-> FALSE]
    /\ lockaddr \in {[t \in Threads |-> IF t = 0 THEN junk ELSE 0] : junk \in Locks \cup {0}}
    /\ bytes = [c \in Cells |-> 0]
    /\ holder = [c \in Cells |-> {}]
    /\ wrote = [t \in Threads |-> {}]
    /\ fds = {0, 1, 2}
    /\ errno = 0
    /\ status = "running"

Next == \E t \in Threads : Trap(t) \/ TrapNow(t) \/ Resume(t)

\* The testbench answers a trap and resumes the thread in the same cycle.
Fairness == \A t \in Threads : WF_vars(TrapNow(t)) /\ WF_vars(Resume(t))
Spec == Init /\ [][Next]_vars /\ Fairness

----------------------------------------------------------------------------
(* Properties                                                              *)

Registers ==
    [r2 : Int, r3 : Int, r4 : Words, r5 : Words, r6 : Words, r7 : Words, r29 : Words]

\* The variables keep their types, and only forked threads have left "none".
TypeOK ==
    /\ numThreads \in 1 .. MAX_THREADS
    /\ \A t \in Threads :
          /\ phase[t] \in {"none", "user", "trapped", "served"}
          /\ phase[t] = "none" <=> t >= numThreads
          /\ regs[t] \in Registers
          /\ brk[t] \in 0 .. AddrSpace - 1 /\ brk[t] % Page = 0
          /\ shm[t] \in [base : Nat, end : Nat]
          /\ wrote[t] \subseteq 0 .. AddrSpace
    /\ blocked \in [Threads -> BOOLEAN]
    /\ lockaddr \in [Threads -> Locks \cup {0}]
    /\ bytes \in [Cells -> {0, 1}]
    /\ holder \in [Cells -> SUBSET Threads]
    /\ fds \subseteq 0 .. MaxFd
    /\ errno \in Errnos \cup {0}
    /\ status \in {"running", "exited", "aborted"}

\* Whatever a program closes, duplicates or replaces, descriptors 0, 1 and 2 of
\* the simulator stay open (the comment in close: its logs go there).
StdStreamsOpen == {0, 1, 2} \subseteq fds

\* A lock byte in shared memory is set exactly while one thread has been told
\* that it holds the lock: the retries made by wakeup hand it to one waiter.
LockHasOneHolder ==
    status = "running" =>
        \A a \in Locks : LET c == <<SHARED, a>> IN
            /\ Cardinality(holder[c]) <= 1
            /\ bytes[c] = 1 <=> holder[c] # {}

\* The call thread t made in this step, and whether it reported success.
Served(t) == phase[t] = "trapped" /\ phase'[t] = "served"
Succeeds(t) == Served(t) /\ regs'[t].r7 = 0

\* The memory the arguments of a call name as its results.
NamedMemory(r) ==
    CASE r.r2 = Sys.read -> Bytes(r.r5, r.r6)
      [] r.r2 = Sys.ioctl -> {r.r6}
      [] r.r2 = Sys.select -> {r.r5, r.r6, r.r7}
      [] r.r2 = Sys.gettimeofday -> {r.r4, r.r5}
      [] r.r2 \in {Sys.stat, Sys.lstat, Sys.fstat, Sys.getrusage,
                   Sys.getrlimit, Sys.setrlimit} -> {r.r5}
      [] OTHER -> {}

\* A call that reports success has stored only to the memory its arguments name,
\* no further than they size it, never to address 0 and never to the text.
OnlyNamedMemory ==
    [][\A t \in Threads :
          Succeeds(t) => wrote'[t] \subseteq NamedMemory(regs[t]) \ (Text \cup {0})]_vars

\* A break that is granted covers the address asked for, lies below the stack
\* and never gives memory back, also when rounding wraps around.
BreakCoversRequest ==
    [][\A t \in Threads :
          /\ (Succeeds(t) /\ regs[t].r2 = Sys.brk) =>
                brk'[t] >= regs[t].r4 /\ brk'[t] < regs[t].r29
          /\ phase[t] # "none" => brk'[t] >= brk[t]]_vars

\* An unlock while no other thread waits for the lock leaves it free.
\* Comment in the code: "reset the lock"; Thread.h: lockaddr is set when a lock
\* fails, the unlock system call resets `blocked` for threads it points to.
UnlockReleases ==
    [][\A t \in Threads :
          LET a == regs[t].r4 IN
          (Served(t) /\ regs[t].r2 = Sys.unlock /\ Waiters(a) \subseteq {t})
             => bytes'[Cell(t, a)] = 0]_vars
============================================================================
