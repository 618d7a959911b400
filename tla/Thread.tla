------------------------------- MODULE Thread -------------------------------
(***************************************************************************)
(* The lock and condition-variable operations of src/sync/thread.c as     *)
(* pure operators on the scheduler record `k` (Scheduler.tla) and the     *)
(* lock statuses `ls` (lock_t.status by lock).  A lock or condition is     *)
(* named by its wait queue; each operator returns [k |-> .., ls |-> ..]   *)
(* after the call, so the modules whose code calls these functions         *)
(* (Sync.tla, Mbox.tla) compose them in the code's order.                  *)
(***************************************************************************)
EXTENDS Scheduler

LockStatus == {"LOCKED", "UNLOCKED"}

(* lock_acquire_helper(l): take a free lock, otherwise block on its queue  *)
(* (and leave it to lock_release to hand the lock over later).             *)
LockAcquireHelperOp(k, ls, l) ==
    IF ls[l] = "UNLOCKED"
    THEN [k |-> k, ls |-> [ls EXCEPT ![l] = "LOCKED"]]
    ELSE [k |-> Block(k, l), ls |-> ls]

(* Mutant: lock_release() that sets UNLOCKED before looking at the queue   *)
(* (the `else` dropped), so it both frees the lock and wakes a waiter.     *)
LockReleaseAlwaysUnlock(k, ls, l) ==
    IF k.waitq[l] = <<>>
    THEN [k |-> k, ls |-> [ls EXCEPT ![l] = "UNLOCKED"]]
    ELSE [k |-> Unblock(k, l), ls |-> [ls EXCEPT ![l] = "UNLOCKED"]]

(* lock_release(l): with nobody waiting the lock becomes UNLOCKED;         *)
(* otherwise the head waiter is unblocked and the lock stays LOCKED,       *)
(* handed to that waiter.                                                  *)
LockReleaseOp(k, ls, l) ==
    IF k.waitq[l] = <<>>
    THEN [k |-> k, ls |-> [ls EXCEPT ![l] = "UNLOCKED"]]
    ELSE [k |-> Unblock(k, l), ls |-> ls]

(* condition_wait(m, c) up to its block(): release m, block on c.  The    *)
(* caller re-acquires m with LockAcquireHelperOp when it runs again.       *)
CondWaitOp(k, ls, m, c) ==
    LET r == LockReleaseOp(k, ls, m)
    IN  [k |-> Block(r.k, c), ls |-> r.ls]

\* condition_signal(c): unblock the first waiter, if any.
CondSignalOp(k, c) == IF k.waitq[c] # <<>> THEN Unblock(k, c) ELSE k

\* condition_broadcast(c): unblock every waiter.
CondBroadcastOp(k, c) == UnblockAll(k, c)

=============================================================================
