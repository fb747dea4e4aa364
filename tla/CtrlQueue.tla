------------------------------ MODULE CtrlQueue ------------------------------
(***************************************************************************)
(* The control queue (fetch/CtrlQueue.sv).  FetchStage2 reserves an entry  *)
(* for each control instruction, the active list commits the oldest ones,  *)
(* several in a cycle, and the committed entries update the BTB and the    *)
(* branch predictor, one in a cycle.  Three pointers and a count describe  *)
(* the ring; a RAM holds a bit for each committed entry.                   *)
(*                                                                         *)
(* The surrounding core is the pair of flags, which the active list raises *)
(* for one cycle after it decided to flush, and two ghosts: inflight, the  *)
(* control instructions fetched and not committed, and pending, those      *)
(* committed whose bit waits for an update.                                *)
(***************************************************************************)
EXTENDS Integers

CONSTANTS SIZE_CTI_QUEUE, FETCH_WIDTH, COMMIT_WIDTH

ASSUME QueueAssumption ==
    /\ FETCH_WIDTH \in Nat \ {0}
    /\ COMMIT_WIDTH \in Nat \ {0}
    /\ SIZE_CTI_QUEUE \in Nat
    /\ SIZE_CTI_QUEUE > FETCH_WIDTH
    /\ SIZE_CTI_QUEUE > COMMIT_WIDTH

VARIABLES headPtr,        \* next entry to update the predictor
          commitPtr,      \* oldest entry not committed
          tailPtr,        \* next entry to reserve
          queueCount,
          ctrlCount,      \* control instructions in the bundle at FetchStage2
          ctiqCommitted,  \* CTI_COMMIT_RAM: entry -> BOOLEAN
          recoverFlag, exceptionFlag,
          inflight, pending,
          sawException    \* ghost: a system call has flushed the core

ptrVars   == <<headPtr, commitPtr, tailPtr, queueCount>>
ghostVars == <<inflight, pending, sawException>>
flags     == <<recoverFlag, exceptionFlag>>
vars      == <<ptrVars, ctrlCount, ctiqCommitted, flags, ghostVars>>

CtiIDs == 0 .. SIZE_CTI_QUEUE - 1

\* The queue has 2^SIZE_CTI_LOG entries and the pointers SIZE_CTI_LOG bits: they wrap by themselves
Wrap(x) == x % SIZE_CTI_QUEUE

-----------------------------------------------------------------------------
\* Mutant of updateEn: the last entry never updates
updateEnUnlessLast == ctiqCommitted[headPtr] /\ queueCount > 1 /\ ~recoverFlag

updateEn == ctiqCommitted[headPtr] /\ queueCount # 0 /\ ~recoverFlag

\* Mutant of ctiQueueFull: off by one
ctiQueueOverfull == ctrlCount > SIZE_CTI_QUEUE - queueCount + 1

\* A fetch bundle is refused as a whole, and stays in front of FetchStage2
ctiQueueFull == ctrlCount > SIZE_CTI_QUEUE - queueCount

pushed(stall) == IF stall \/ ctiQueueFull THEN 0 ELSE ctrlCount

popped == IF updateEn THEN 1 ELSE 0

HeadUpdate == headPtr' = Wrap(headPtr + popped)

CommitUpdate(c) == commitPtr' = Wrap(commitPtr + c)

\* The RAM clears the entry that is popped and sets the c that commit
CommittedWrite(c) ==
    ctiqCommitted' =
        [id \in CtiIDs |-> \/ \E i \in 0 .. c - 1 : id = Wrap(commitPtr + i)
                           \/ ctiqCommitted[id] /\ ~(updateEn /\ id = headPtr)]

\* Mutant of queueCount_recover: equal pointers are taken for a full ring
queueCountOrFull ==
    IF commitPtr > headPtr THEN commitPtr - headPtr
    ELSE SIZE_CTI_QUEUE - headPtr + commitPtr

queueCount_recover ==
    IF commitPtr >= headPtr THEN commitPtr - headPtr
    ELSE SIZE_CTI_QUEUE - headPtr + commitPtr

-----------------------------------------------------------------------------
Init ==
    /\ headPtr = 0 /\ commitPtr = 0 /\ tailPtr = 0
    /\ queueCount = 0
    /\ ctrlCount = 0
    /\ ctiqCommitted = [id \in CtiIDs |-> FALSE]
    /\ recoverFlag = FALSE /\ exceptionFlag = FALSE
    /\ inflight = 0 /\ pending = 0
    /\ sawException = FALSE

\* The bundle is accepted and the next one has n control instructions, unless
\* the queue or the instruction buffer stalls fetch; the c oldest control
\* instructions in flight commit
Clock(stall, n, c) ==
    /\ ~recoverFlag /\ ~exceptionFlag
    /\ c <= inflight
    /\ HeadUpdate
    /\ CommitUpdate(c)
    /\ tailPtr' = Wrap(tailPtr + pushed(stall))
    /\ queueCount' = queueCount + pushed(stall) - popped
    /\ ctrlCount' = IF stall \/ ctiQueueFull THEN ctrlCount ELSE n
    /\ CommittedWrite(c)
    /\ inflight' = inflight + pushed(stall) - c
    /\ pending' = pending + c - popped
    /\ UNCHANGED sawException

Cycle(stall, n, c) == Clock(stall, n, c) /\ UNCHANGED flags

\* The active list finds a mispredicted control instruction (which commits
\* alone), a violating load or a system call at its head
FlushDecision(stall, n, c, isException) ==
    /\ c <= 1
    /\ isException => c = 0
    /\ Clock(stall, n, c)
    /\ recoverFlag' = ~isException
    /\ exceptionFlag' = isException

\* The cycle of recoverFlag: nothing commits in it, the active list is empty
Recover ==
    /\ recoverFlag
    /\ tailPtr' = commitPtr
    /\ queueCount' = queueCount_recover
    /\ ctrlCount' = 0
    /\ recoverFlag' = FALSE
    /\ inflight' = 0
    /\ UNCHANGED <<headPtr, commitPtr, ctiqCommitted, exceptionFlag, pending,
                   sawException>>

\* The cycle of exceptionFlag: the RAM of committed bits is reset, the
\* pointers are not
Exception ==
    /\ exceptionFlag
    /\ HeadUpdate
    /\ tailPtr' = commitPtr
    /\ queueCount' = queueCount_recover
    /\ ctrlCount' = 0
    /\ ctiqCommitted' = [id \in CtiIDs |-> FALSE]
    /\ exceptionFlag' = FALSE
    /\ inflight' = 0
    /\ pending' = 0
    /\ sawException' = TRUE
    /\ UNCHANGED <<commitPtr, recoverFlag>>

Next ==
    \/ \E stall \in BOOLEAN, n \in 0 .. FETCH_WIDTH, c \in 0 .. COMMIT_WIDTH :
          Cycle(stall, n, c)
    \/ \E stall, isException \in BOOLEAN, n \in 0 .. FETCH_WIDTH, c \in 0 .. 1 :
          FlushDecision(stall, n, c, isException)
    \/ Recover
    \/ Exception

Spec == Init /\ [][Next]_vars

-----------------------------------------------------------------------------
(* The clock always ticks, with or without something to do, the cycle of a  *)
(* flag follows it, and an instruction in flight commits in the end unless a *)
(* flush takes it.  Nothing obliges the core to flush.                       *)

Tick ==
    \E stall \in BOOLEAN, n \in 0 .. FETCH_WIDTH, c \in 0 .. COMMIT_WIDTH :
        Cycle(stall, n, c)

SomeCommit ==
    \/ \E stall \in BOOLEAN, n \in 0 .. FETCH_WIDTH, c \in 1 .. COMMIT_WIDTH :
          Cycle(stall, n, c)
    \/ \E stall, isException \in BOOLEAN, n \in 0 .. FETCH_WIDTH, c \in 0 .. 1 :
          inflight > 0 /\ FlushDecision(stall, n, c, isException)

FairSpec ==
    /\ Spec
    /\ WF_vars(Tick)
    /\ WF_vars(Recover \/ Exception)
    /\ WF_vars(SomeCommit)

-----------------------------------------------------------------------------
(* Properties *)

\* The pointers stay on the ring and the count never passes its size.
TypeOK ==
    /\ headPtr \in CtiIDs /\ commitPtr \in CtiIDs /\ tailPtr \in CtiIDs
    /\ queueCount \in 0 .. SIZE_CTI_QUEUE
    /\ ctrlCount \in 0 .. FETCH_WIDTH
    /\ ctiqCommitted \in [CtiIDs -> BOOLEAN]
    /\ recoverFlag \in BOOLEAN /\ exceptionFlag \in BOOLEAN
    /\ inflight \in Nat /\ pending \in Nat
    /\ sawException \in BOOLEAN

\* Until the first system call the three pointers, the count and the bits
\* agree on what is committed and what is in flight, in particular after a
\* recovery, which recomputes the count from two pointers that are equal for
\* an empty and for a full ring (CtrlQueue.sv 222-224).
QueueAgrees ==
    ~sawException =>
        /\ queueCount = inflight + pending
        /\ commitPtr = Wrap(headPtr + pending)
        /\ tailPtr = Wrap(commitPtr + inflight)
        /\ \A id \in CtiIDs :
              ctiqCommitted[id] <=> \E i \in 0 .. pending - 1 :
                                        id = Wrap(headPtr + i)

\* Fetch that finds too little room gets it in the end (until the first
\* system call).
FetchResumes ==
    ctiQueueFull ~> ~ctiQueueFull \/ sawException

\* Until the first system call the head moves on while it is behind
\* commitPtr, through flushes that stop the update for a cycle.
UpdatesUntilException ==
    \A id \in CtiIDs :
        headPtr = id /\ headPtr # commitPtr ~> headPtr # id \/ sawException

\* The entry at the head, once it has committed, is ready to update the BTB and
\* the predictor and be popped, as FetchStage2.sv 92-93 says.  The code does not
\* keep this: a system call erases the bits of the entries that wait, and the
\* head stays behind commitPtr at an entry whose bit nothing sets before the
\* commits have gone round the ring.
CommittedUpdatesPredictor == headPtr # commitPtr => ctiqCommitted[headPtr]
=============================================================================
