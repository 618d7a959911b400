------------------------------- MODULE Sync -------------------------------
(***************************************************************************)
(* Locks, condition variables, semaphores and barriers of                  *)
(* src/sync/thread.c, running on the scheduler of Scheduler.tla.           *)
(*                                                                         *)
(* Only current_running takes steps (the kernel is cooperative and runs on *)
(* one CPU).  Each step is one call of a primitive by the running task:    *)
(* the body between enter_critical() and leave_critical() is atomic, and   *)
(* a call that blocks ends the step inside scheduler(), with the next task *)
(* current.  What a blocked call still does when its task runs again is    *)
(* kept in `pc`: condition_wait() re-acquires its lock with                *)
(* lock_acquire_helper() after block() returns.                            *)
(*                                                                         *)
(* The tasks are clients that use the primitives correctly: a task         *)
(* releases or waits with a lock only while it holds it, and does not      *)
(* acquire a lock it already holds.  `holding` is a history variable: the  *)
(* locks a task has returned from acquiring (directly, by hand-off from    *)
(* lock_release, or at the end of condition_wait) and not released.       *)
(***************************************************************************)
EXTENDS Integers, Sequences, SequencesExt, FiniteSets

CONSTANTS
    TaskSeq, Threads,
    Locks, Conds, Sems, Barriers,   \* disjoint sets of model values
    SemInit,        \* semaphore_init(s, SemInit[s])
    Reach,          \* barrier_init(b, Reach[b])
    MaxSemCounter   \* bound on semaphore counters, so the state space is finite

Queues == Locks \cup Conds \cup Sems \cup Barriers

INSTANCE Thread

ASSUME /\ SemInit \in [Sems -> Nat]
       /\ Reach \in [Barriers -> Nat \ {0}]
       /\ MaxSemCounter \in Nat

VARIABLES
    kern,           \* scheduler state (Scheduler.tla)
    lockStatus,     \* lock_t.status
    semCounter,     \* semaphore_t.counter
    barCounter,     \* barrier_t.counter
    pc,             \* the rest of a blocked call, run when its task resumes
    holding         \* history: the locks each task is inside

vars == <<kern, lockStatus, semCounter, barCounter, pc, holding>>

Idle == [op |-> "idle"]
Reacquire(l) == [op |-> "reacquire", lock |-> l]

TypeOK ==
    /\ kern \in KernRec
    /\ lockStatus \in [Locks -> LockStatus]
    /\ semCounter \in [Sems -> -Cardinality(Tasks) .. MaxSemCounter]
    /\ barCounter \in [Barriers -> 0 .. Cardinality(Tasks)]
    /\ pc \in [Tasks -> {Idle} \cup {Reacquire(l) : l \in Locks}]
    /\ holding \in [Tasks -> SUBSET Locks]

(* lock_init, condition_init, semaphore_init and barrier_init for every    *)
(* object, before any task runs.                                           *)
Init ==
    /\ kern = KernInit
    /\ lockStatus = [l \in Locks |-> "UNLOCKED"]
    /\ semCounter = SemInit
    /\ barCounter = [b \in Barriers |-> 0]
    /\ pc = [t \in Tasks |-> Idle]
    /\ holding = [t \in Tasks |-> {}]

Me == kern.current

-----------------------------------------------------------------------------
(* The lock a task is handed by lock_release(): the head waiter, if any.   *)
HandOff(h, l) ==
    IF kern.waitq[l] = <<>> THEN h
    ELSE [h EXCEPT ![Head(kern.waitq[l])] = @ \cup {l}]

\* lock_acquire(l): lock_acquire_helper(l) in a critical section.
LockAcquire(l) ==
    /\ l \notin holding[Me]
    /\ LET r == LockAcquireHelperOp(kern, lockStatus, l)
       IN  kern' = r.k /\ lockStatus' = r.ls
    /\ holding' = IF lockStatus[l] = "UNLOCKED"
                  THEN [holding EXCEPT ![Me] = @ \cup {l}] ELSE holding
    /\ UNCHANGED <<semCounter, barCounter, pc>>

(* Mutant: lock_release() that sets status = UNLOCKED before looking at   *)
(* the waiting list, and then still unblocks the head waiter.             *)
LockReleaseUnlockFirst(l) ==
    /\ l \in holding[Me]
    /\ lockStatus' = [lockStatus EXCEPT ![l] = "UNLOCKED"]
    /\ kern' = IF kern.waitq[l] = <<>> THEN kern ELSE Unblock(kern, l)
    /\ holding' = HandOff([holding EXCEPT ![Me] = @ \ {l}], l)
    /\ UNCHANGED <<semCounter, barCounter, pc>>

\* lock_release(l)
LockRelease(l) ==
    /\ l \in holding[Me]
    /\ LET r == LockReleaseOp(kern, lockStatus, l)
       IN  kern' = r.k /\ lockStatus' = r.ls
    /\ holding' = HandOff([holding EXCEPT ![Me] = @ \ {l}], l)
    /\ UNCHANGED <<semCounter, barCounter, pc>>

(* condition_wait(m, c): lock_release(m), then block on c; the call goes   *)
(* on with lock_acquire_helper(m) when the task is scheduled again.        *)
CondWait(m, c) ==
    /\ m \in holding[Me]
    /\ LET r == CondWaitOp(kern, lockStatus, m, c)
       IN  kern' = r.k /\ lockStatus' = r.ls
    /\ holding' = HandOff([holding EXCEPT ![Me] = @ \ {m}], m)
    /\ pc' = [pc EXCEPT ![Me] = Reacquire(m)]
    /\ UNCHANGED <<semCounter, barCounter>>

(* The end of condition_wait, run by the woken waiter when it is           *)
(* current_running again: lock_acquire_helper(m) inside the same critical  *)
(* section.                                                                *)
CondResume ==
    LET m == pc[Me].lock
        r == LockAcquireHelperOp(kern, lockStatus, m)
    IN  /\ pc[Me].op = "reacquire"
        /\ kern' = r.k /\ lockStatus' = r.ls
        /\ holding' = IF lockStatus[m] = "UNLOCKED"
                      THEN [holding EXCEPT ![Me] = @ \cup {m}] ELSE holding
        /\ pc' = [pc EXCEPT ![Me] = Idle]
        /\ UNCHANGED <<semCounter, barCounter>>

\* condition_signal(c)
CondSignal(c) ==
    /\ kern' = CondSignalOp(kern, c)
    /\ UNCHANGED <<lockStatus, semCounter, barCounter, pc, holding>>

\* condition_broadcast(c)
CondBroadcast(c) ==
    /\ kern' = CondBroadcastOp(kern, c)
    /\ UNCHANGED <<lockStatus, semCounter, barCounter, pc, holding>>

(* semaphore_up(s): increment; if the counter is now >= 0 and somebody     *)
(* waits, unblock one waiter.                                              *)
SemUp(s) ==
    /\ semCounter[s] < MaxSemCounter
    /\ semCounter' = [semCounter EXCEPT ![s] = @ + 1]
    /\ kern' = IF semCounter'[s] >= 0 /\ kern.waitq[s] # <<>>
               THEN Unblock(kern, s) ELSE kern
    /\ UNCHANGED <<lockStatus, barCounter, pc, holding>>

(* Mutant: semaphore_down() that tests the counter before decrementing it. *)
SemDownTestFirst(s) ==
    /\ semCounter' = [semCounter EXCEPT ![s] = @ - 1]
    /\ kern' = IF semCounter[s] < 0 THEN Block(kern, s) ELSE kern
    /\ UNCHANGED <<lockStatus, barCounter, pc, holding>>

\* semaphore_down(s): decrement; block if the counter is now negative.
SemDown(s) ==
    /\ semCounter' = [semCounter EXCEPT ![s] = @ - 1]
    /\ kern' = IF semCounter'[s] < 0 THEN Block(kern, s) ELSE kern
    /\ UNCHANGED <<lockStatus, barCounter, pc, holding>>

(* Mutant: barrier_wait() that forgets `b->counter = 0` after a release.  *)
BarrierWaitNoReset(b) ==
    /\ IF barCounter[b] + 1 = Reach[b]
       THEN kern' = UnblockAll(kern, b)
       ELSE kern' = Block(kern, b)
    /\ barCounter' = [barCounter EXCEPT ![b] = @ + 1]
    /\ UNCHANGED <<lockStatus, semCounter, pc, holding>>

(* Mutant: barrier_wait() that compares the counter before counting the    *)
(* arrival (`if (b->counter++ == b->reach)`).                              *)
BarrierWaitLate(b) ==
    /\ IF barCounter[b] = Reach[b]
       THEN /\ kern' = UnblockAll(kern, b)
            /\ barCounter' = [barCounter EXCEPT ![b] = 0]
       ELSE /\ kern' = Block(kern, b)
            /\ barCounter' = [barCounter EXCEPT ![b] = @ + 1]
    /\ UNCHANGED <<lockStatus, semCounter, pc, holding>>

(* barrier_wait(b): count the arrival; the Reach-th arrival unblocks all   *)
(* waiters and resets the counter, every other one blocks.                 *)
BarrierWait(b) ==
    /\ IF barCounter[b] + 1 = Reach[b]
       THEN /\ kern' = UnblockAll(kern, b)
            /\ barCounter' = [barCounter EXCEPT ![b] = 0]
       ELSE /\ kern' = Block(kern, b)
            /\ barCounter' = [barCounter EXCEPT ![b] = @ + 1]
    /\ UNCHANGED <<lockStatus, semCounter, pc, holding>>

\* yield() and exit() called by the running task.
DoYield ==
    /\ kern' = Yield(kern)
    /\ UNCHANGED <<lockStatus, semCounter, barCounter, pc, holding>>

DoExit ==
    /\ kern' = Exit(kern)
    /\ UNCHANGED <<lockStatus, semCounter, barCounter, pc, holding>>

(* A call made by the running task when it has nothing left of an earlier *)
(* call to finish.                                                         *)
Call ==
    /\ pc[Me] = Idle
    /\ \/ DoYield
       \/ DoExit
       \/ \E l \in Locks : LockAcquire(l) \/ LockRelease(l)
       \/ \E l \in Locks, c \in Conds : CondWait(l, c)
       \/ \E c \in Conds : CondSignal(c) \/ CondBroadcast(c)
       \/ \E s \in Sems : SemUp(s) \/ SemDown(s)
       \/ \E b \in Barriers : BarrierWait(b)

Next == Running(kern) /\ (Call \/ CondResume)

Spec == Init /\ [][Next]_vars

(* Fairness.  The CPU always runs current_running, so a task that can take *)
(* a step eventually does (weak fairness of Next).  The kernel does not    *)
(* preempt: a task leaves the CPU only by yielding, blocking or exiting,   *)
(* and the clients of a cooperative kernel must keep doing so; weak        *)
(* fairness of the running task's yield() states that contract.           *)
YieldStep == Running(kern) /\ pc[Me] = Idle /\ DoYield

FairSpec == Spec /\ WF_vars(Next) /\ WF_vars(YieldStep)

-----------------------------------------------------------------------------
(***************************************************************************)
(*                              Properties                                 *)
(***************************************************************************)

(* Every TCB is on exactly one list (spec section 3 and invariant 1), as  *)
(* ListsWellFormed in Scheduler.tla spells out.  block() links the task    *)
(* into a queue while scheduler() unlinks it from the ring, unblock() does *)
(* the reverse, and condition_wait, lock hand-off and broadcast chain      *)
(* these; a step that leaves a task on two lists, or on none, loses or     *)
(* duplicates it.                                                          *)
OneListPerTask == ListsWellFormed(kern)

(* Locks (spec invariant 2): at most one task is inside a lock; the lock   *)
(* is LOCKED exactly when some task is inside it; a task queued on a lock  *)
(* is not inside it, and a lock with waiters is LOCKED, so no waiter is    *)
(* left behind on a free lock.  lock_release() hands the lock to the head  *)
(* waiter without unlocking it, and condition_wait() releases and later    *)
(* re-acquires it across a block().                                        *)
LockSafety ==
    \A l \in Locks :
       LET inside == {t \in Tasks : l \in holding[t]}
       IN  /\ Cardinality(inside) <= 1
           /\ lockStatus[l] = "LOCKED" <=> inside # {}
           /\ kern.waitq[l] # <<>> => lockStatus[l] = "LOCKED"
           /\ \A t \in inside : l \notin QueuesOf(kern, t)

(* Semaphores: no down() gets past a semaphore without credit.  The tasks  *)
(* blocked in semaphore_down() are at least as many as the counter is      *)
(* below zero (counter = initial + ups - downs, and every down that found  *)
(* no credit is still waiting).                                            *)
SemaphoreNoOverdraw ==
    \A s \in Sems : Len(kern.waitq[s]) >= -semCounter[s]

(* Barriers (spec invariant 4): the tasks waiting at a barrier are exactly *)
(* the arrivals counted since its last release, and there are fewer than   *)
(* Reach of them: the Reach-th arrival releases all and resets to zero.   *)
BarrierCohort ==
    \A b \in Barriers :
       /\ Len(kern.waitq[b]) = barCounter[b]
       /\ barCounter[b] < Reach[b]

(* Wait queues are FIFO (spec section 5): in every step each wait queue    *)
(* loses only tasks at its head and gains only tasks at its tail.  The     *)
(* comment of unblock() says *q points to the last process; the code       *)
(* takes the head.  A task joins a queue only by blocking, at the tail.   *)
FifoWaitQueues ==
    [][\A q \in Queues :
         LET old == kern.waitq[q]
             new == kern'.waitq[q]
         IN  \E n \in 0..Len(old) :
               LET rest == SubSeq(old, n + 1, Len(old))
               IN  /\ IsPrefix(rest, new)
                   /\ \A i \in Len(rest) + 1 .. Len(new) : new[i] \notin ToSet(old)]_kern

(* Every task in the ready ring is eventually current_running (spec       *)
(* section 4: round-robin over the ready ring).  scheduler() advances     *)
(* current_running along `next`, block() and exit() unlink the current     *)
(* task, and unblock() links the woken one just before current_running;   *)
(* a ring discipline that skipped or never reached a ready task would     *)
(* starve it while the others keep yielding.                               *)
RingTasksRun == \A t \in Tasks : [](InRing(kern, t) => <>(kern.current = t))

\* The tasks inside lock l.
Inside(l) == {t \in Tasks : l \in holding[t]}

(* The abstract lock of each thread.c lock: its owner is the task inside   *)
(* it ({} when it is free; two tasks inside map to no abstract state), and *)
(* its waiters are the lock's wait queue.                                  *)
Locking == INSTANCE FifoLock WITH
    NoOwner <- {},
    owner   <- [l \in Locks |-> IF Cardinality(Inside(l)) = 1
                                THEN CHOOSE t \in Inside(l) : TRUE ELSE Inside(l)],
    waiting <- [l \in Locks |-> kern.waitq[l]]

(* thread.c's locks implement FifoLock: lock_acquire() takes a free lock   *)
(* or queues at the tail, lock_release() passes the lock to the oldest     *)
(* waiter without freeing it and frees it only when nobody waits, and      *)
(* condition_wait() is a release followed, after block() returns, by an    *)
(* acquire.  No step of a task lets a later arrival take the lock ahead of *)
(* a queued task, or takes a lock that is not free.                        *)
LockRefinement == Locking!Spec

(* The task dispatched is always a ready one (spec 4.1: the scheduler      *)
(* only halts when the last task exits).  When the last ready task blocks, *)
(* scheduler() leaves current_running on it and dispatch() resumes it.    *)
DispatchedTaskReady ==
    ~kern.halted => kern.state[kern.current] = "READY"

(* Spec invariant 3 and scenario 6: the number of tasks blocked on a       *)
(* semaphore equals max(0, -counter), so n downs followed by n ups resume  *)
(* all n tasks.  semaphore_up() only unblocks when the incremented counter *)
(* is >= 0.                                                                *)
SemaphoreWaitersMatchCounter ==
    \A s \in Sems :
       Len(kern.waitq[s]) = IF semCounter[s] < 0 THEN -semCounter[s] ELSE 0

=============================================================================
