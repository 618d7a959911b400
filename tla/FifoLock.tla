------------------------------ MODULE FifoLock ------------------------------
(***************************************************************************)
(* What a thread.c lock promises its clients, without the scheduler: each  *)
(* lock has at most one owner and a FIFO of tasks waiting for it.  A task  *)
(* takes a free lock at once or joins the end of the queue; releasing the  *)
(* lock passes it straight to the oldest waiter, so the lock is never free *)
(* while somebody waits and no later arrival overtakes an earlier one.    *)
(***************************************************************************)
EXTENDS Sequences, SequencesExt

CONSTANTS
    Tasks,
    Locks,
    NoOwner         \* owner of a free lock; not a task

VARIABLES
    owner,          \* the task inside each lock, or NoOwner
    waiting         \* the tasks queued on each lock, oldest first

vars == <<owner, waiting>>

Init ==
    /\ owner = [l \in Locks |-> NoOwner]
    /\ waiting = [l \in Locks |-> <<>>]

\* t takes the free lock l.
Acquire(t, l) ==
    /\ owner[l] = NoOwner
    /\ owner' = [owner EXCEPT ![l] = t]
    /\ UNCHANGED waiting

\* t finds l taken by another task and queues behind the earlier waiters.
Enqueue(t, l) ==
    /\ owner[l] \notin {NoOwner, t}
    /\ t \notin Range(waiting[l])
    /\ waiting' = [waiting EXCEPT ![l] = Append(@, t)]
    /\ UNCHANGED owner

\* The owner leaves l: the oldest waiter becomes the owner, or l is free.
Release(l) ==
    /\ owner[l] # NoOwner
    /\ IF waiting[l] = <<>>
       THEN /\ owner' = [owner EXCEPT ![l] = NoOwner]
            /\ UNCHANGED waiting
       ELSE /\ owner' = [owner EXCEPT ![l] = Head(waiting[l])]
            /\ waiting' = [waiting EXCEPT ![l] = Tail(@)]

Next ==
    \E l \in Locks :
       \/ Release(l)
       \/ \E t \in Tasks : Acquire(t, l) \/ Enqueue(t, l)

Spec == Init /\ [][Next]_vars

=============================================================================
