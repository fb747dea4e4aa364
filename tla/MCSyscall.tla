----------------------------- MODULE MCSyscall -----------------------------
(***************************************************************************)
(* Small instances of Syscall: sixteen addresses, of which two hold text,  *)
(* one page of data with a lock in it, a heap and a stack.                 *)
(***************************************************************************)
EXTENDS Syscall

\* What a program may have in $r2 and $r4 to $r7 when it traps.
Call(code, args) ==
    [r2 |-> code, r3 |-> 0, r4 |-> args[1], r5 |-> args[2], r6 |-> args[3],
     r7 |-> args[4], r29 |-> 0]

Buf == 5
Lock == 6
Name == 2

Files ==
    {Call(Sys.read, <<0, Buf, 1, 0>>), Call(Sys.write, <<1, Buf, 2, 0>>),
     Call(Sys.write, <<1, 0, 1, 0>>), Call(Sys.open, <<Name, 1, 0, 0>>),
     Call(Sys.open, <<Name, 8, 0, 0>>), Call(Sys.creat, <<Name, 0, 0, 0>>),
     Call(Sys.pipe, <<Buf, 0, 0, 0>>), Call(Sys.dup, <<1, 0, 0, 0>>)}
    \cup {Call(Sys.close, <<fd, 0, 0, 0>>) : fd \in {2, 3, 4}}
    \cup {Call(Sys.dup2, <<3, fd, 0, 0>>) : fd \in {1, 4}}
Names ==
    {Call(code, <<Name, Buf, 0, 0>>) :
        code \in {Sys.unlink, Sys.chdir, Sys.chmod, Sys.chown, Sys.rename,
                  Sys.access, Sys.stat, Sys.lstat, Sys.utimes}}
Plain ==
    {Call(code, <<0, Buf, 0, 0>>) :
        code \in {Sys.exit, Sys.lseek, Sys.getpid, Sys.getuid, Sys.getgid, Sys.fstat,
                  Sys.getpagesize, Sys.setitimer, Sys.getdtablesize, Sys.fcntl,
                  Sys.fsync, Sys.sigvec, Sys.sigblock, Sys.sigsetmask, Sys.ftruncate,
                  Sys.gettimeofday, Sys.getrusage, Sys.getrlimit, Sys.setrlimit, 99}}
Others ==
    {Call(Sys.ioctl, <<0, 7, p, 0>>) : p \in {0, Buf}}
    \cup {Call(Sys.ioctl, <<0, 9, Buf, 0>>)}
    \cup {Call(Sys.select, <<0, Buf, 0, p>>) : p \in {0, Buf}}
    \cup {Call(Sys.stat, <<Name, 0, 0, 0>>), Call(Sys.gettimeofday, <<1, 0, 0, 0>>)}
    \cup {Call(Sys.writev, <<1, Buf, n, 0>>) : n \in {0, 1}}
LockCalls ==
    {Call(code, <<Lock, 0, 0, 0>>) : code \in {Sys.test_and_set, Sys.unlock}}
Sharing == {Call(Sys.declare_shmem, <<Lock, Lock + 1, 0, 0>>), Call(Sys.fork, <<Buf, 1, 0, 0>>)}

Heap == {Call(Sys.brk, <<a, 0, 0, 0>>) : a \in {7, 9, 12, 15}}

\* Four programs: files, names and the rest, the heap with a fork, and locks
\* shared by the threads of two forks.
AllPrograms ==
    <<<<Files, {}, {}>>, <<Names \cup Plain \cup Others, {}, {}>>,
     <<Heap \cup {Call(Sys.fork, <<Buf, 1, 0, 0>>)}, Heap, {}>>,
     <<LockCalls \cup Sharing, LockCalls, LockCalls>>>>
LockPrograms == <<<<LockCalls>>>>
============================================================================
